---------------------------- MODULE ModelCatalog ----------------------------
(***************************************************************************)
(* The models a client may ask for. A refresh replaces table models by what *)
(* the upstream lists, and says which of them are free; the administrator   *)
(* switches models off (model_policies, which outlive the rows of models),  *)
(* and gives them aliases. Requests resolve their model by a cached view of  *)
(* the three tables, which is dropped after each change.                    *)
(*                                                                          *)
(* A step is one statement, a transaction as it commits, or a step on the   *)
(* cache. A model's name, price and metadata are left out but for whether   *)
(* the upstream lists it as free; the upstream lists a model once.          *)
(***************************************************************************)
EXTENDS Integers, FiniteSets

CONSTANTS
  Names,      \* ids of models and aliases
  AliasNames, \* those the console gives to aliases
  Handlers,   \* requests of the console, and modelRefreshJanitor
  Clients,    \* requests of clients
  MaxAliases, \* bound on the aliases ever made
  MaxAsked,   \* bound on what the handlers do
  NoRow, NoView, Nobody

ASSUME CatalogAssumption ==
  /\ AliasNames \subseteq Names /\ NoRow \notin Names
  /\ Handlers \cap Clients = {} /\ Nobody \notin Clients
  /\ MaxAliases \in Nat /\ MaxAsked \in Nat

Listing == {"absent", "paid", "free"}
AliasRow == [id : 1..MaxAliases, target : Names, enabled : BOOLEAN]

VARIABLES
  models,   \* table models, by model_id
  disabled, \* table model_policies: the models switched off
  aliases,  \* table model_aliases, by alias
  lastId,   \* its last id
  extra,    \* extraFreeSet
  view,     \* runtimeCaches.models, or NoView
  loader,   \* who holds its lock to load it
  task,     \* what the handlers are about to do
  client,   \* what the clients' requests are about to do
  asked,    \* what the handlers have been asked for so far
  off,      \* history: models whose switching off was answered, and stands
  missed,   \* history: a refresh has failed to drop the view
  listed    \* history: there has been a free model

tables == <<models, disabled, aliases, lastId>>
history == <<off, missed, listed>>
catalog == <<tables, extra, view, loader, task, client, asked, history>>

\* Locals: what the upstream lists, and lists as free, what is still to be
\* classified, and what was found free; the model of a policy and whether it is
\* on; the row, name and columns of an alias.
Idle == [at |-> "idle", seen |-> {}, offered |-> {}, todo |-> {}, found |-> {},
         model |-> NoRow, on |-> FALSE, id |-> 0, alias |-> NoRow, target |-> NoRow]
Waiting == [at |-> "idle", view |-> NoView, off |-> {}]

CatalogInit ==
  /\ models = [m \in Names |-> "absent"]
  /\ disabled = {} /\ aliases = [n \in AliasNames |-> NoRow] /\ lastId = 0
  /\ extra \in SUBSET Names
  /\ view = NoView /\ loader = Nobody
  /\ task = [h \in Handlers |-> Idle]
  /\ client = [c \in Clients |-> Waiting]
  /\ asked = 0
  /\ off = {} /\ missed = FALSE /\ listed = FALSE

At(h, place) == task[h].at = place
Becomes(h, t) == task' = [task EXCEPT ![h] = t]
Goes(h, place) == Becomes(h, [task[h] EXCEPT !.at = place])
Ends(h) == Becomes(h, Idle)
Asked(h) == At(h, "idle") /\ asked < MaxAsked /\ asked' = asked + 1
IsFree(m) == models[m] = "free"

----------------------------------------------------------------------------
(* refreshModels. *)

\* The upstream's answer; every other outcome leaves the tables alone.
Fetch(h) ==
  /\ Asked(h)
  /\ \E seen \in SUBSET Names : \E offered \in SUBSET seen :
       Becomes(h, [Idle EXCEPT !.at = "classify", !.seen = seen, !.offered = offered, !.todo = seen])
  /\ UNCHANGED <<tables, extra, view, loader, client, history>>

\* classifyFree, once for each model; the set may change in between.
ClassifyFree(h, m) == m \in extra \/ m \in task[h].offered
Classify(h) ==
  /\ At(h, "classify")
  /\ \E m \in task[h].todo :
       Becomes(h, [task[h] EXCEPT !.todo = @ \ {m},
                                  !.found = IF ClassifyFree(h, m) THEN @ \cup {m} ELSE @])
  /\ UNCHANGED <<tables, extra, view, loader, client, asked, history>>

\* free == 0. The mutated form asks whether anything is listed.
NothingListed(h) == task[h].seen = {}
NothingFree(h) == task[h].found = {}

\* The policies stay. The mutated form drops those of models that are gone.
Cascaded(h) == disabled \cap task[h].seen
Policies(h) == disabled

\* The upserts and the DELETE of the rest are one transaction; it is rolled
\* back if nothing is free, or if a statement fails.
ReplaceModels(h) ==
  /\ At(h, "classify") /\ task[h].todo = {} /\ ~NothingFree(h)
  /\ models' = [m \in Names |-> IF m \in task[h].found THEN "free"
                                ELSE IF m \in task[h].seen THEN "paid" ELSE "absent"]
  /\ disabled' = Policies(h)
  /\ listed' = TRUE
  /\ Goes(h, "metadata")
  /\ UNCHANGED <<aliases, lastId, extra, view, loader, client, asked, off, missed>>

RollBack(h) ==
  /\ At(h, "classify")
  /\ Ends(h)
  /\ UNCHANGED <<tables, extra, view, loader, client, asked, history>>

\* last_model_refresh_at is saved. If it cannot be, the view is not dropped.
Metadata(h) ==
  /\ At(h, "metadata")
  /\ \/ Goes(h, "drop") /\ UNCHANGED missed
     \/ Ends(h) /\ missed' = (missed \/ view # NoView \/ loader # Nobody)
  /\ UNCHANGED <<tables, extra, view, loader, client, asked, off, listed>>

\* putExtraFreeModels; it tells at the next refresh.
PutExtra ==
  /\ asked < MaxAsked /\ asked' = asked + 1
  /\ extra' \in SUBSET Names
  /\ UNCHANGED <<tables, view, loader, task, client, history>>

----------------------------------------------------------------------------
(* patchModelPolicy. *)

\* A model is off no more once somebody asks for it to be on.
PolicyRead(h) ==
  /\ Asked(h)
  /\ \E m \in Names, on \in BOOLEAN :
       /\ IsFree(m)
       /\ Becomes(h, [Idle EXCEPT !.at = "policy", !.model = m, !.on = on])
       /\ IF on THEN /\ off' = off \ {m}
                     /\ client' = [c \in Clients |-> [client[c] EXCEPT !.off = @ \ {m}]]
          ELSE UNCHANGED <<off, client>>
  /\ UNCHANGED <<tables, extra, view, loader, missed, listed>>

PolicyWrite(h) ==
  /\ At(h, "policy")
  /\ disabled' = IF task[h].on THEN disabled \ {task[h].model} ELSE disabled \cup {task[h].model}
  /\ Goes(h, "drop")
  /\ UNCHANGED <<models, aliases, lastId, extra, view, loader, client, asked, history>>

----------------------------------------------------------------------------
(* createModelAlias, patchModelAlias and deleteModelAlias. *)

CreateAlias(h) ==
  /\ Asked(h)
  /\ \E n \in AliasNames, t \in Names :
       Becomes(h, [Idle EXCEPT !.at = "check name", !.alias = n, !.target = t, !.on = TRUE])
  /\ UNCHANGED <<tables, extra, view, loader, client, history>>

\* A column that is not asked for stays as read here.
PatchAlias(h) ==
  /\ Asked(h)
  /\ \E n \in AliasNames, t \in Names, on \in BOOLEAN :
       /\ aliases[n] # NoRow
       /\ Becomes(h, [Idle EXCEPT !.at = "check name", !.id = aliases[n].id,
                                  !.alias = n, !.target = t, !.on = on])
  /\ UNCHANGED <<tables, extra, view, loader, client, history>>

\* validateAliasTarget: two counts.
CheckName(h) ==
  /\ At(h, "check name")
  /\ IF task[h].alias = task[h].target \/ IsFree(task[h].alias) THEN Ends(h)
     ELSE Goes(h, "check target")
  /\ UNCHANGED <<tables, extra, view, loader, client, asked, history>>

CheckTarget(h) ==
  /\ At(h, "check target")
  /\ IF IsFree(task[h].target) THEN Goes(h, "save") ELSE Ends(h)
  /\ UNCHANGED <<tables, extra, view, loader, client, asked, history>>

\* An alias that exists is answered 409.
InsertAlias(h) ==
  /\ At(h, "save") /\ task[h].id = 0 /\ lastId < MaxAliases
  /\ IF aliases[task[h].alias] # NoRow THEN Ends(h) /\ UNCHANGED <<aliases, lastId>>
     ELSE /\ lastId' = lastId + 1
          /\ aliases' = [aliases EXCEPT ![task[h].alias] =
                           [id |-> lastId', target |-> task[h].target, enabled |-> TRUE]]
          /\ Goes(h, "drop")
  /\ UNCHANGED <<models, disabled, extra, view, loader, client, asked, history>>

\* The row may be gone.
UpdateAlias(h) ==
  /\ At(h, "save") /\ task[h].id # 0
  /\ aliases' = [n \in AliasNames |->
       IF aliases[n] # NoRow /\ aliases[n].id = task[h].id
       THEN [aliases[n] EXCEPT !.target = task[h].target, !.enabled = task[h].on]
       ELSE aliases[n]]
  /\ Goes(h, "drop")
  /\ UNCHANGED <<models, disabled, lastId, extra, view, loader, client, asked, history>>

DeleteAlias(h) ==
  /\ Asked(h)
  /\ \E n \in AliasNames : aliases[n] # NoRow /\ aliases' = [aliases EXCEPT ![n] = NoRow]
  /\ Goes(h, "drop")
  /\ UNCHANGED <<models, disabled, lastId, extra, view, loader, client, history>>

----------------------------------------------------------------------------
\* invalidateModelRuntimeCache waits for the one who loads; then the answer.
\* A model is off then, unless somebody has switched it on since, or is about
\* to.
Drop(h) ==
  LET m == task[h].model
  IN  /\ At(h, "drop") /\ loader = Nobody
      /\ view' = NoView /\ missed' = FALSE
      /\ off' = off \cup {d \in disabled \cap {m} :
                           ~task[h].on /\ \A g \in Handlers : task[g].model = d => ~task[g].on}
      /\ Ends(h)
      /\ UNCHANGED <<tables, extra, loader, client, asked, listed>>

----------------------------------------------------------------------------
(* resolveModel and loadModelRuntime. *)

Becoming(c, t) == client' = [client EXCEPT ![c] = t]

UseView(c) ==
  /\ client[c].at = "idle" /\ view # NoView /\ loader = Nobody
  /\ Becoming(c, [at |-> "decide", view |-> view, off |-> off])
  /\ UNCHANGED <<tables, extra, view, loader, task, asked, history>>

Offered == [m \in Names |-> IF ~IsFree(m) THEN "none" ELSE IF m \in disabled THEN "off" ELSE "on"]
Targets == [n \in AliasNames |-> IF aliases[n] # NoRow /\ aliases[n].enabled
                                 THEN aliases[n].target ELSE NoRow]

\* The models with their policies, then the aliases, under the lock.
LoadModels(c) ==
  /\ client[c].at = "idle" /\ view = NoView /\ loader = Nobody
  /\ loader' = c
  /\ Becoming(c, [at |-> "aliases", view |-> [models |-> Offered], off |-> off])
  /\ UNCHANGED <<tables, extra, view, task, asked, history>>

LoadAliases(c) ==
  /\ client[c].at = "aliases"
  /\ loader' = Nobody
  /\ view' = [models |-> client[c].view.models, aliases |-> Targets]
  /\ Becoming(c, [client[c] EXCEPT !.at = "decide", !.view = view'])
  /\ UNCHANGED <<tables, extra, task, asked, history>>

\* What the name stands for: the model of that name if it is on, or else the
\* target of the alias, if that is on; or nothing.
Resolved(v, name) ==
  IF v.models[name] = "on" THEN name
  ELSE IF name \in AliasNames /\ v.aliases[name] # NoRow /\ v.models[v.aliases[name]] = "on"
       THEN v.aliases[name] ELSE NoRow

Decide(c) ==
  /\ client[c].at = "decide"
  /\ Becoming(c, Waiting)
  /\ UNCHANGED <<tables, extra, view, loader, task, asked, history>>

Handle(h) ==
  \/ Fetch(h) \/ Classify(h) \/ ReplaceModels(h) \/ RollBack(h) \/ Metadata(h)
  \/ PolicyRead(h) \/ PolicyWrite(h)
  \/ CreateAlias(h) \/ PatchAlias(h) \/ CheckName(h) \/ CheckTarget(h)
  \/ InsertAlias(h) \/ UpdateAlias(h) \/ DeleteAlias(h) \/ Drop(h)

Resolve(c) == UseView(c) \/ LoadModels(c) \/ LoadAliases(c) \/ Decide(c)

CatalogNext ==
  \/ \E h \in Handlers : Handle(h)
  \/ PutExtra
  \/ \E c \in Clients : Resolve(c)

CatalogSpec == CatalogInit /\ [][CatalogNext]_catalog

----------------------------------------------------------------------------
(* Properties. *)

CatalogTypeOK ==
  /\ models \in [Names -> Listing] /\ disabled \subseteq Names
  /\ aliases \in [AliasNames -> AliasRow \cup {NoRow}] /\ lastId \in 0..MaxAliases
  /\ extra \subseteq Names /\ loader \in Clients \cup {Nobody}
  /\ asked \in 0..MaxAsked /\ off \subseteq Names
  /\ \A c \in Clients : loader = c <=> client[c].at = "aliases"

\* The cached view is what the tables say, though it is read in two statements
\* while others write: unless a change has not been answered yet, or a refresh
\* could not save its metadata.
ViewAgrees ==
  view # NoView /\ ~missed /\ (\A h \in Handlers : task[h].at \notin {"metadata", "drop"})
    => view = [models |-> Offered, aliases |-> Targets]

\* A refresh never leaves the gateway without a free model once it had one.
FreeModelsKept == listed => \E m \in Names : IsFree(m)

CatalogHolds == CatalogTypeOK /\ ViewAgrees /\ FreeModelsKept

\* A request that comes after a model was switched off is never served by it,
\* by its own name or by an alias, until it is switched on: also if the model
\* vanishes from the upstream and comes back, or is refreshed meanwhile.
DisabledStaysOff ==
  \A c \in Clients, name \in Names :
    client[c].at = "decide" => Resolved(client[c].view, name) \notin client[c].off
=============================================================================
