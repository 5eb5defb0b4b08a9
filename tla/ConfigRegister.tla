--------------------------- MODULE ConfigRegister ---------------------------
(***************************************************************************)
(* What every read-through cache of the server promises its readers: it     *)
(* behaves like a register of several parts. An answer is at least as new   *)
(* as every write that was acknowledged when the read began, never newer    *)
(* than what is stored, and never older, in any part, than what an earlier  *)
(* answer showed, to whichever reader. It may mix parts of several writes,  *)
(* but all answers from one acknowledged write to the next are the same.    *)
(* The register may lose sight of an optional part: then it answers that    *)
(* part's default instead, until a write is acknowledged.                   *)
(* A value is represented by its version, the number of writes before it;   *)
(* the default is version 0.                                                *)
(***************************************************************************)
EXTENDS Integers

CONSTANTS
  NParts,      \* parts of the configuration, stored and read one by one
  Optional,    \* those of them that may be answered by their default
  Readers,
  MaxVersion,  \* bound on the writes of one part
  NoRead       \* the reader is not reading

Parts == 1..NParts
Version == 0..MaxVersion
Value == [Parts -> Version]

VARIABLES
  stored,  \* what the database holds
  acked,   \* the newest version of each part whose writer has been answered
  need,    \* what was acknowledged when each reader began
  got,     \* the latest answer
  shown,   \* the newest version of each part that an answer has shown
  defaulted,  \* the parts the register has lost sight of
  settled, \* whether an answer was given since the last acknowledged write
  failed   \* whether the latest read ended in an error

vars == <<stored, acked, need, got, shown, defaulted, settled, failed>>

NotOlder(v, u) == \A p \in Parts : u[p] <= v[p]

Init ==
  /\ stored = [p \in Parts |-> 0]
  /\ acked = [p \in Parts |-> 0]
  /\ need = [r \in Readers |-> NoRead]
  /\ got = [p \in Parts |-> 0]
  /\ shown = [p \in Parts |-> 0]
  /\ defaulted = {}
  /\ settled = FALSE
  /\ failed = FALSE

Write ==
  /\ stored' \in Value /\ NotOlder(stored', stored)
  /\ UNCHANGED <<acked, need, got, shown, defaulted, settled, failed>>

Acknowledge ==
  /\ acked' \in Value /\ NotOlder(acked', acked) /\ NotOlder(stored, acked')
  /\ defaulted' = {} /\ settled' = FALSE
  /\ UNCHANGED <<stored, need, got, shown, failed>>

Begin(r) ==
  /\ need[r] = NoRead
  /\ need' = [need EXCEPT ![r] = acked]
  /\ UNCHANGED <<stored, acked, got, shown, defaulted, settled, failed>>

Answer(r) ==
  /\ need[r] # NoRead
  /\ got' \in Value
  /\ defaulted' \subseteq Optional
  /\ settled => got' = got /\ defaulted' = defaulted
  /\ settled' = TRUE
  /\ \A p \in defaulted' : got'[p] = 0
  /\ \A p \in Parts \ defaulted' :
       need[r][p] <= got'[p] /\ shown[p] <= got'[p] /\ got'[p] <= stored[p]
  /\ shown' = [p \in Parts |-> IF p \in defaulted' THEN shown[p] ELSE got'[p]]
  /\ need' = [need EXCEPT ![r] = NoRead]
  /\ failed' = FALSE
  /\ UNCHANGED <<stored, acked>>

Fail(r) ==
  /\ need[r] # NoRead
  /\ need' = [need EXCEPT ![r] = NoRead]
  /\ failed' = TRUE
  /\ UNCHANGED <<stored, acked, got, shown, defaulted, settled>>

Next == Write \/ Acknowledge \/ \E r \in Readers : Begin(r) \/ Answer(r) \/ Fail(r)

Spec == Init /\ [][Next]_vars
=============================================================================
