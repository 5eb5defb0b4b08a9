----------------------------- MODULE KeyLimiter -----------------------------
(***************************************************************************)
(* The limiter of client keys: for each key a sliding window of the         *)
(* requests it was admitted (RPM) and of the tokens its answers used (TPM). *)
(* allow decides about a request, recordTokens books an answer. Both read   *)
(* the clock before they take the lock of the key's shard, so stamps may    *)
(* enter a window out of order, by as much as a call waits for the lock.    *)
(* What happens under the lock is one step.                                 *)
(*                                                                          *)
(* The windows modelled are those of one shard, all of keys with a limit:   *)
(* allow admits a key without limits before it looks at any window.         *)
(***************************************************************************)
EXTENDS Integers, Sequences, FiniteSets

CONSTANTS
  Keys,        \* keys of the shard
  Rpm, Tpm,    \* their limits; 0 is no limit
  Calls,       \* requests and answers that are being handled
  Window,      \* one minute
  Skew,        \* bound: how long a call may wait for the lock
  Values,      \* tokens an answer uses
  Threshold,   \* pruned entries kept before a list is copied, 128 in the code
  MaxWindows,  \* windows before the shard is swept, 1024 in the code
  IdleAfter,   \* five minutes
  MaxNow,      \* bound on the clock
  NoWindow, NoCall

ASSUME LimiterAssumption ==
  /\ Rpm \in [Keys -> Nat] /\ Tpm \in [Keys -> Nat]
  /\ \A k \in Keys : Rpm[k] # 0 \/ Tpm[k] # 0
  /\ Window \in Nat \ {0} /\ Skew \in Nat /\ Skew < Window
  /\ Values \subseteq Nat \ {0}
  /\ Threshold \in Nat /\ MaxWindows \in Nat /\ IdleAfter \in Nat /\ MaxNow \in Nat
  /\ IsFiniteSet(Keys)

Time == 0..MaxNow
Sample == [at : Time, value : Values]
KeyWindow ==
  [requests : Seq(Time), requestHead : Nat,
   tokens : Seq(Sample), tokenHead : Nat, tokenTotal : Nat, lastAt : Time]

ASSUME NoWindowAssumption == NoWindow \notin KeyWindow

VARIABLES
  now,
  windows,      \* limiterShard.windows
  lastCleanup,
  call,         \* the calls under way, with the time they have read
  open,         \* requests of each key admitted and not booked yet
  admitted,     \* history: requests admitted, by key and stamp
  spent         \* history: tokens booked, by key and stamp

limiter == <<now, windows, lastCleanup, call, open, admitted, spent>>

NewWindow ==
  [requests |-> <<>>, requestHead |-> 0,
   tokens |-> <<>>, tokenHead |-> 0, tokenTotal |-> 0, lastAt |-> 0]
Call ==
  [kind : {"allow"}, key : Keys, at : Time]
    \cup [kind : {"record"}, key : Keys, at : Time, value : Values]

LimiterInit ==
  /\ now = 0
  /\ windows = [k \in Keys |-> NoWindow]
  /\ lastCleanup = 0
  /\ call = [c \in Calls |-> NoCall]
  /\ open = [k \in Keys |-> 0]
  /\ admitted = [k \in Keys |-> [t \in Time |-> 0]]
  /\ spent = [k \in Keys |-> [t \in Time |-> 0]]

\* The sum of f over S: its units, counted.
Units(f, S) == UNION {{x} \X (1..f[x]) : x \in S}
SumOver(f, S) == Cardinality(Units(f, S))

WindowOf(k) == IF windows[k] = NoWindow THEN NewWindow ELSE windows[k]

----------------------------------------------------------------------------
(* Pruning. *)

\* !at.After(cutoff); the mutated form forgets entries too soon.
ExpiredEarly(at, cutoff) == at <= cutoff + 1
Expired(at, cutoff) == at <= cutoff

\* The head moves to the first entry that has not expired; entries behind it
\* stay, even if their own stamps have.
NewHead(stamps, head, cutoff) ==
  LET live == {i \in DOMAIN stamps : i > head /\ ~Expired(stamps[i], cutoff)}
  IN  IF live = {} THEN Len(stamps)
      ELSE (CHOOSE i \in live : \A j \in live : i <= j) - 1

TokensOf(samples) == [i \in DOMAIN samples |-> samples[i].value]
Stamps(samples) == [i \in DOMAIN samples |-> samples[i].at]

\* tokenTotal -= value for every sample the head passes; the mutated forms
\* keep the total, or take the samples it had passed before off again.
Undiminished(w, head) == w.tokenTotal
DiminishedAgain(w, head) == w.tokenTotal - SumOver(TokensOf(w.tokens), 1..head)
Diminished(w, head) ==
  w.tokenTotal - SumOver(TokensOf(w.tokens), (w.tokenHead + 1)..head)

Pruned(w, at) ==
  LET head == NewHead(Stamps(w.tokens), w.tokenHead, at - Window)
  IN  [w EXCEPT !.lastAt = at,
                !.requestHead = NewHead(w.requests, @, at - Window),
                !.tokenHead = head,
                !.tokenTotal = Diminished(w, head)]

AtRpm(k, w) == Rpm[k] > 0 /\ Len(w.requests) - w.requestHead >= Rpm[k]
AtTpm(k, w) == Tpm[k] > 0 /\ w.tokenTotal >= Tpm[k]

\* A list whose pruned part is long is copied without it; the mutated form
\* loses its first live entry.
OffByOne(s, head) == SubSeq(s, head + 2, Len(s))
Rest(s, head) == SubSeq(s, head + 1, Len(s))
Copies(s, head) == head > Threshold /\ head * 2 >= Len(s)

Compacted(w) ==
  LET r == Copies(w.requests, w.requestHead)
      t == Copies(w.tokens, w.tokenHead)
  IN  [w EXCEPT !.requests = IF r THEN Rest(@, w.requestHead) ELSE @,
                !.requestHead = IF r THEN 0 ELSE @,
                !.tokens = IF t THEN Rest(@, w.tokenHead) ELSE @,
                !.tokenHead = IF t THEN 0 ELSE @]

\* Windows that have been idle and are empty.
Swept(ws, at) ==
  {k \in Keys : /\ ws[k] # NoWindow
                /\ at - ws[k].lastAt >= IdleAfter
                /\ ws[k].requestHead >= Len(ws[k].requests)
                /\ ws[k].tokenHead >= Len(ws[k].tokens)}

----------------------------------------------------------------------------
(* The calls. *)

\* time.Now() in enforceClientLimit, and in recordGatewayUsage... at the end of
\* a request that was admitted. One whose answer tells no usage books nothing.
Ask(c) ==
  /\ call[c] = NoCall
  /\ \E k \in Keys : call' = [call EXCEPT ![c] = [kind |-> "allow", key |-> k, at |-> now]]
  /\ UNCHANGED <<now, windows, lastCleanup, open, admitted, spent>>

Book(c) ==
  /\ call[c] = NoCall
  /\ \E k \in Keys, v \in Values :
       /\ open[k] > 0
       /\ open' = [open EXCEPT ![k] = @ - 1]
       /\ call' = [call EXCEPT ![c] = [kind |-> "record", key |-> k, at |-> now, value |-> v]]
  /\ UNCHANGED <<now, windows, lastCleanup, admitted, spent>>

Asks(c) == IF call[c] = NoCall THEN FALSE ELSE call[c].kind = "allow"
Books(c) == IF call[c] = NoCall THEN FALSE ELSE call[c].kind = "record"
Done(c) == call' = [call EXCEPT ![c] = NoCall]

Admit(c) ==
  /\ Asks(c)
  /\ LET k == call[c].key
         at == call[c].at
         w == Pruned(WindowOf(k), at)
         ws == [windows EXCEPT ![k] =
                  Compacted([w EXCEPT !.requests = Append(@, at)])]
         sweep == /\ Cardinality({j \in Keys : ws[j] # NoWindow}) > MaxWindows
                  /\ at - lastCleanup >= IdleAfter
     IN  /\ ~AtRpm(k, w) /\ ~AtTpm(k, w)
         /\ windows' = IF sweep THEN [j \in Keys |-> IF j \in Swept(ws, at) THEN NoWindow ELSE ws[j]]
                       ELSE ws
         /\ lastCleanup' = IF sweep THEN at ELSE lastCleanup
         /\ open' = [open EXCEPT ![k] = @ + 1]
         /\ admitted' = [admitted EXCEPT ![k][at] = @ + 1]
  /\ Done(c)
  /\ UNCHANGED <<now, spent>>

\* Answered 429; the window has been pruned all the same.
Refuse(c) ==
  /\ Asks(c)
  /\ LET k == call[c].key
         w == Pruned(WindowOf(k), call[c].at)
     IN  /\ AtRpm(k, w) \/ AtTpm(k, w)
         /\ windows' = [windows EXCEPT ![k] = w]
  /\ Done(c)
  /\ UNCHANGED <<now, lastCleanup, open, admitted, spent>>

RecordTokens(c) ==
  /\ Books(c)
  /\ LET k == call[c].key
         at == call[c].at
         v == call[c].value
         w == WindowOf(k)
     IN  /\ windows' = [windows EXCEPT ![k] =
                          [w EXCEPT !.tokens = Append(@, [at |-> at, value |-> v]),
                                    !.tokenTotal = @ + v,
                                    !.lastAt = at]]
         /\ spent' = [spent EXCEPT ![k][at] = @ + v]
  /\ Done(c)
  /\ UNCHANGED <<now, lastCleanup, open, admitted>>

Tick ==
  /\ now < MaxNow
  /\ \A c \in Calls : IF call[c] = NoCall THEN TRUE ELSE now - call[c].at < Skew
  /\ now' = now + 1
  /\ UNCHANGED <<windows, lastCleanup, call, open, admitted, spent>>

LimiterNext ==
  \/ \E c \in Calls : Ask(c) \/ Book(c) \/ Admit(c) \/ Refuse(c) \/ RecordTokens(c)
  \/ Tick

LimiterSpec == LimiterInit /\ [][LimiterNext]_limiter

----------------------------------------------------------------------------
(* Properties. *)

\* Types; the heads stay within the lists.
LimiterTypeOK ==
  /\ now \in Time /\ lastCleanup \in Time
  /\ windows \in [Keys -> KeyWindow \cup {NoWindow}]
  /\ call \in [Calls -> Call \cup {NoCall}]
  /\ open \in [Keys -> Nat]
  /\ admitted \in [Keys -> [Time -> Nat]]
  /\ spent \in [Keys -> [Time -> Nat]]
  /\ \A k \in Keys : windows[k] # NoWindow =>
       /\ windows[k].requestHead <= Len(windows[k].requests)
       /\ windows[k].tokenHead <= Len(windows[k].tokens)

\* The running total is the sum of the samples the head has not passed, so a
\* refusal for tokens always finds the sample that tells when to come back.
TotalIsSum ==
  \A k \in Keys : windows[k] # NoWindow =>
    LET w == windows[k]
    IN  w.tokenTotal = SumOver(TokensOf(w.tokens), (w.tokenHead + 1)..Len(w.tokens))

\* No more requests than the limit are admitted in any window, whatever order
\* their stamps come in. The window is shorter than a minute by what a call may
\* wait for the lock: a call that read the clock later may have pruned already.
AtMostRpm ==
  \A k \in Keys, t \in Time :
    Rpm[k] # 0 =>
      SumOver(admitted[k], {u \in Time : t - (Window - Skew) < u /\ u <= t}) <= Rpm[k]

\* A request is admitted only while the answers booked in that window have used
\* less than the limit.
AdmitsBelowTpm ==
  [][\A k \in Keys, t \in Time :
       Tpm[k] # 0 /\ admitted'[k][t] # admitted[k][t] =>
         SumOver(spent[k], {u \in Time : t - (Window - Skew) < u}) < Tpm[k]]_limiter

\* A request is refused only when the requests admitted or the tokens booked
\* in the last minute (and what calls waited) reach a limit of its key.
RefusesAtLimit ==
  [][\A c \in Calls :
       Asks(c) /\ call'[c] = NoCall /\ admitted' = admitted =>
         LET k == call[c].key
             last == {u \in Time : call[c].at - Window - Skew < u}
         IN  \/ Rpm[k] # 0 /\ SumOver(admitted[k], last) >= Rpm[k]
             \/ Tpm[k] # 0 /\ SumOver(spent[k], last) >= Tpm[k]]_limiter
=============================================================================
