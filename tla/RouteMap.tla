------------------------------ MODULE RouteMap ------------------------------
(***************************************************************************)
(* The in-memory routing table of internal/proxy/proxy.go, as pure         *)
(* operators: every method of RouteMap holds rm.mu from its first line to  *)
(* its last, so a call is one atomic change of the table.                  *)
(*                                                                         *)
(* A table is [dep, main].  dep[s] is the port of the deployment stored    *)
(* under stage id s, NoPort when there is none; main is mainID, NoStage    *)
(* for the empty string.  PromoteStage gives a deployment the id of its    *)
(* stage, so one name serves as stage id, deployment id and table key.     *)
(* Deployment documents are records [id, port, status, promoted], promoted *)
(* standing for PromotedAt # nil.                                          *)
(***************************************************************************)
EXTENDS Integers, Sequences

CONSTANTS
  Stages,    \* stage ids, which are also the deployment ids
  NoStage    \* the empty deployment id

ASSUME NoStageAssumption == NoStage \notin Stages

\* "no port": a nil pointer, or no entry.  AllocatePort never returns it.
NoPort == 0

NewRouteMap == [dep |-> [s \in Stages |-> NoPort], main |-> NoStage]

\* Mutants: an entry is never dropped; main is never unset.
UpdateRouteKeepingEntry(rm, d) ==
  [dep  |-> [rm.dep EXCEPT ![d.id] = IF d.status = "ready" THEN d.port ELSE @],
   main |-> IF d.promoted THEN d.id
            ELSE IF rm.main = d.id THEN NoStage ELSE rm.main]

UpdateRouteKeepingMain(rm, d) ==
  [dep  |-> [rm.dep EXCEPT ![d.id] = IF d.status = "ready" THEN d.port ELSE NoPort],
   main |-> IF d.promoted THEN d.id ELSE rm.main]

\* A ready deployment is (re)entered, any other one is dropped; a promoted
\* one becomes main, and the main one that lost its promotion is unset.
UpdateRoute(rm, d) ==
  [dep  |-> [rm.dep EXCEPT ![d.id] = IF d.status = "ready" THEN d.port ELSE NoPort],
   main |-> IF d.promoted THEN d.id
            ELSE IF rm.main = d.id THEN NoStage ELSE rm.main]

\* Mutant: main outlives its deployment.
RemoveEntryOnly(rm, id) == [rm EXCEPT !.dep[id] = NoPort]

\* The entry of a deployment goes, and main with it.
RemoveRoute(rm, id) ==
  [dep  |-> [rm.dep EXCEPT ![id] = NoPort],
   main |-> IF rm.main = id THEN NoStage ELSE rm.main]

\* Positions of the documents the loading loop lets stand: a later document
\* overwrites what an earlier one wrote.
LastOfStage(coll, s) ==  \* mutant: the status is not looked at
  {i \in DOMAIN coll :
     coll[i].id = s /\ \A j \in DOMAIN coll : coll[j].id = s => j <= i}

LastReady(coll, s) ==
  {i \in DOMAIN coll :
     /\ coll[i].id = s /\ coll[i].status = "ready"
     /\ \A j \in DOMAIN coll :
          coll[j].id = s /\ coll[j].status = "ready" => j <= i}

LastPromoted(coll) ==
  {i \in DOMAIN coll :
     coll[i].promoted /\ \A j \in DOMAIN coll : coll[j].promoted => j <= i}

\* LoadFromDatabase: one pass over the collection in natural order.
LoadRoutes(coll) ==
  [dep  |-> [s \in Stages |->
               IF LastReady(coll, s) = {} THEN NoPort
               ELSE coll[CHOOSE i \in LastReady(coll, s) : TRUE].port],
   main |-> IF LastPromoted(coll) = {} THEN NoStage
            ELSE coll[CHOOSE i \in LastPromoted(coll) : TRUE].id]

\* Where SetupRoutes sends "/": GetMainDeployment looks mainID up among the
\* entries, so a main deployment that is not ready is not served.
RootTarget(rm) == IF rm.main = NoStage THEN NoPort ELSE rm.dep[rm.main]

\* Where SetupRoutes sends "/<s>/...": the stage's own entry, or, when there
\* is none, the main deployment with the whole path.
StageTarget(rm, s) == IF rm.dep[s] # NoPort THEN rm.dep[s] ELSE RootTarget(rm)
=============================================================================
