------------------------- MODULE DeploymentsProofs -------------------------
(***************************************************************************)
(* Proofs about Deployments for every value of its constants: any number   *)
(* of operators, daemons, stages, goroutines and mishaps, except where a   *)
(* theorem names its assumption.                                           *)
(*                                                                         *)
(*   Types                no assumption                                    *)
(*   One document         Polite: PoliteInv of Deployments is inductive    *)
(*   Copies               CopyInv: a handler's copy is the document, or    *)
(*                        the change to it that the handler is about       *)
(*                        to write; a goroutine knows its document         *)
(*   Routes               RouteInv, from CopyInv, for one daemon           *)
(*   Units and services   UnitInv, from CopyInv, for one binary per stage  *)
(*   Ports                PortInv, from CopyInv, for one creation at once  *)
(*                                                                         *)
(* Each layer is inductive relative to the ones it names; NobodyMisrouted  *)
(* combines the last three.                                                *)
(***************************************************************************)
EXTENDS Deployments, CollectionProofs

-----------------------------------------------------------------------------
(* Types.                                                                  *)

\* NoPort, the entry of an empty route, is not a port.
LEMMA NoPortOutside == NoPort \notin Ports /\ Ports \subseteq Nat
  BY PortAssumption DEF Ports, NoPort

\* A request in flight is a request record, a running goroutine a job record.
LEMMA InFlight ==
  ASSUME TypeOK
  PROVE  /\ \A c \in Clients : req[c] # Idle => req[c] \in Requests
         /\ \A k \in Jobs : job[k] # Idle => job[k] \in JobRecs
  BY DEF TypeOK

\* The ways a step leaves the requests well typed.
LEMMA GotoType ==
  ASSUME TypeOK, NEW c \in Clients, req[c] # Idle,
         NEW pc \in RequestPcs, Goto(c, pc)
  PROVE  req' \in [Clients -> Requests \cup {Idle}]
<1>1. req[c] \in Requests
  BY InFlight
<1>2. [req[c] EXCEPT !.pc = pc] \in Requests
  BY <1>1 DEF Requests
<1>3. QED
  BY <1>2 DEF TypeOK, Goto

\* The same, with a new copy of the document.
LEMMA GotoWithType ==
  ASSUME TypeOK, NEW c \in Clients, req[c] # Idle,
         NEW pc \in RequestPcs, NEW d \in DocRecs, GotoWith(c, pc, d)
  PROVE  req' \in [Clients -> Requests \cup {Idle}]
<1>1. req[c] \in Requests
  BY InFlight
<1>2. [[req[c] EXCEPT !.pc = pc] EXCEPT !.dep = d] \in Requests
  BY <1>1 DEF Requests
<1>3. req' = [req EXCEPT ![c] = [[req[c] EXCEPT !.pc = pc] EXCEPT !.dep = d]]
  BY DEF TypeOK, GotoWith
<1>4. QED
  BY <1>2, <1>3 DEF TypeOK

\* A request that ends leaves the others well typed.
LEMMA FinishType ==
  ASSUME TypeOK, NEW c \in Clients, Finish(c)
  PROVE  req' \in [Clients -> Requests \cup {Idle}]
  BY DEF TypeOK, Finish

\* The ways a step leaves the goroutines well typed.
LEMMA JobGotoType ==
  ASSUME TypeOK, NEW k \in Jobs, job[k] # Idle,
         NEW pc \in JobPcs, JobGoto(k, pc)
  PROVE  job' \in [Jobs -> JobRecs \cup {Idle}]
<1>1. job[k] \in JobRecs
  BY InFlight
<1>2. [job[k] EXCEPT !.pc = pc] \in JobRecs
  BY <1>1 DEF JobRecs
<1>3. QED
  BY <1>2 DEF TypeOK, JobGoto

\* A goroutine that ends leaves the others well typed.
LEMMA JobEndType ==
  ASSUME TypeOK, NEW k \in Jobs, JobEnd(k)
  PROVE  job' \in [Jobs -> JobRecs \cup {Idle}]
  BY DEF TypeOK, JobEnd

\* The table operations return tables.
LEMMA UpdateRouteType ==
  ASSUME NEW rm \in RouteMaps, NEW d \in DocRecs
  PROVE  UpdateRoute(rm, d) \in RouteMaps
<1>1. [rm.dep EXCEPT ![d.id] = IF d.status = "ready" THEN d.port ELSE NoPort]
        \in [Stages -> Ports \cup {NoPort}]
  BY DEF RouteMaps, DocRecs
<1>2. (IF d.promoted THEN d.id ELSE IF rm.main = d.id THEN NoStage ELSE rm.main)
        \in Stages \cup {NoStage}
  BY DEF RouteMaps, DocRecs
<1>3. QED
  BY <1>1, <1>2 DEF UpdateRoute, RouteMaps

\* Taking a deployment out of a table leaves a table.
LEMMA RemoveRouteType ==
  ASSUME NEW rm \in RouteMaps, NEW s \in Stages
  PROVE  RemoveRoute(rm, s) \in RouteMaps
  BY DEF RemoveRoute, RouteMaps

\* What a daemon reads into its table when it starts is a table.
LEMMA LoadRoutesType ==
  ASSUME NEW coll \in Seq(DocRecs)
  PROVE  LoadRoutes(coll) \in RouteMaps
<1>1. \A i \in DOMAIN coll : coll[i] \in DocRecs
  OBVIOUS
<1>2. ASSUME NEW s \in Stages
      PROVE  (IF LastReady(coll, s) = {} THEN NoPort
              ELSE coll[CHOOSE i \in LastReady(coll, s) : TRUE].port)
               \in Ports \cup {NoPort}
  <2>1. LastReady(coll, s) \subseteq DOMAIN coll
    BY DEF LastReady
  <2>2. LastReady(coll, s) # {} =>
          (CHOOSE i \in LastReady(coll, s) : TRUE) \in LastReady(coll, s)
    OBVIOUS
  <2>3. QED
    BY <1>1, <2>1, <2>2 DEF DocRecs
<1>3. (IF LastPromoted(coll) = {} THEN NoStage
       ELSE coll[CHOOSE i \in LastPromoted(coll) : TRUE].id) \in Stages \cup {NoStage}
  <2>1. LastPromoted(coll) \subseteq DOMAIN coll
    BY DEF LastPromoted
  <2>2. LastPromoted(coll) # {} =>
          (CHOOSE i \in LastPromoted(coll) : TRUE) \in LastPromoted(coll)
    OBVIOUS
  <2>3. QED
    BY <1>1, <2>1, <2>2 DEF DocRecs
<1>4. QED
  BY <1>2, <1>3 DEF LoadRoutes, RouteMaps

\* The new documents and copies are documents.
LEMMA NewDocType ==
  ASSUME NEW s \in Stages
  PROVE  NewDoc(s) \in DocRecs
  BY DEF NewDoc, DocRecs, Statuses

\* The document a goroutine writes is a document.
LEMMA JobDocType ==
  ASSUME TypeOK, NEW k \in Jobs, job[k] # Idle, NEW st \in Statuses
  PROVE  JobDoc(k, st) \in DocRecs
  BY InFlight DEF JobDoc, DocRecs, JobRecs

\* The first step of any handler.
LEMMA BeginType ==
  ASSUME TypeOK, NEW c \in Clients, NEW i \in Instances, NEW s \in Stages,
         NEW op \in Ops, NEW pc \in RequestPcs, NEW d \in DocRecs,
         Begin(c, i, s, op, pc, d)
  PROVE  TypeOK'
<1>1. [pc |-> pc, op |-> op, id |-> s, at |-> i, dep |-> d] \in Requests
  BY DEF Requests
<1>2. req' \in [Clients -> Requests \cup {Idle}]
  BY <1>1 DEF TypeOK, Begin
<1>3. QED
  BY <1>2 DEF TypeOK, Begin

\* Every request a client can send is well typed.
LEMMA RequestType ==
  ASSUME TypeOK, NEW c \in Clients, Request(c)
  PROVE  TypeOK'
<1>1. PICK i \in Instances, s \in Stages :
        \/ CreateDeploymentHandler(c, i, s)
        \/ PromoteDeploymentHandler(c, i, s)
        \/ ShutdownDeploymentHandler(c, i, s)
        \/ StartDeploymentHandler(c, i, s)
        \/ \E op \in {"delete", "force_delete"} : DeleteDeploymentHandler(c, i, s, op)
  BY DEF Request
<1> DEFINE d == FindOne(docs, s)
<1>2. Found(docs, s) => d \in DocRecs
  BY FindOneFact DEF TypeOK
<1> HIDE DEF d
<1>3. TeardownPc(d) \in RequestPcs
  BY DEF TeardownPc, RequestPcs
<1>4. CASE CreateDeploymentHandler(c, i, s)
  <2>1. CASE Found(docs, s)
    <3>1. Begin(c, i, s, "deploy", TeardownPc(d), d)
      BY <1>4, <2>1 DEF CreateDeploymentHandler, d
    <3>2. QED
      BY <1>2, <1>3, <2>1, <3>1, BeginType DEF Ops
  <2>2. CASE ~Found(docs, s)
    <3>1. Begin(c, i, s, "deploy", "getstage", NewDoc(s))
      BY <1>4, <2>2 DEF CreateDeploymentHandler
    <3>2. QED
      BY <3>1, BeginType, NewDocType DEF Ops, RequestPcs
  <2>3. QED
    BY <2>1, <2>2
<1>5. CASE PromoteDeploymentHandler(c, i, s)
  <2>1. Found(docs, s) /\ Begin(c, i, s, "promote", "replace", [d EXCEPT !.promoted = TRUE])
    BY <1>5 DEF PromoteDeploymentHandler, d
  <2>2. [d EXCEPT !.promoted = TRUE] \in DocRecs
    BY <1>2, <2>1 DEF DocRecs
  <2>3. QED
    BY <2>1, <2>2, BeginType DEF Ops, RequestPcs
<1>6. CASE ShutdownDeploymentHandler(c, i, s)
  <2>1. Found(docs, s) /\ Begin(c, i, s, "shutdown", "stop", d)
    BY <1>6 DEF ShutdownDeploymentHandler, d
  <2>2. QED
    BY <1>2, <2>1, BeginType DEF Ops, RequestPcs
<1>7. CASE StartDeploymentHandler(c, i, s)
  <2>1. Found(docs, s) /\ Begin(c, i, s, "start", "start", d)
    BY <1>7 DEF StartDeploymentHandler, d
  <2>2. QED
    BY <1>2, <2>1, BeginType DEF Ops, RequestPcs
<1>8. ASSUME NEW op \in {"delete", "force_delete"},
             DeleteDeploymentHandler(c, i, s, op)
      PROVE  TypeOK'
  <2>1. Found(docs, s) /\ Begin(c, i, s, op, TeardownPc(d), d)
    BY <1>8 DEF DeleteDeploymentHandler, d
  <2>2. op \in Ops
    BY <1>8 DEF Ops
  <2>3. QED
    BY <1>2, <1>3, <2>1, <2>2, BeginType
<1>9. QED
  BY <1>1, <1>4, <1>5, <1>6, <1>7, <1>8

\* Every call a handler makes keeps the types.
LEMMA HandleType ==
  ASSUME TypeOK, NEW c \in Clients, Handle(c)
  PROVE  TypeOK'
<1> DEFINE id == req[c].id
           d == req[c].dep
           i == req[c].at
<1>1. req[c] # Idle
  BY DEF Handle, StopBackendService, StartBackendService, DisableBackendService,
     RemoveBackendServiceFile, RemoveDeployment, DeleteDeployment, RemoveBinary,
     ResetStage, GetReadyStage, AllocatePort, CreateDeployment, UpdateDeployment,
     UpdateProxy, CallFails, At
<1>2. /\ id \in Stages /\ i \in Instances
      /\ d \in DocRecs /\ d.id \in Stages
  BY <1>1, InFlight DEF Requests, DocRecs
<1> HIDE DEF id, d, i
<1>3. CASE StopBackendService(c)
  <2>1. [d EXCEPT !.status = "stopped", !.promoted = FALSE] \in DocRecs
    BY <1>2 DEF DocRecs, Statuses
  <2>2. proc' = [proc EXCEPT ![id] = NoPort]
    BY <1>3 DEF StopBackendService, id
  <2>3. \/ GotoWith(c, "replace", [d EXCEPT !.status = "stopped", !.promoted = FALSE])
        \/ Goto(c, "disable")
    BY <1>3 DEF StopBackendService, d
  <2>4. req' \in [Clients -> Requests \cup {Idle}]
    BY <1>1, <2>1, <2>3, GotoType, GotoWithType DEF RequestPcs
  <2>5. proc' \in [Stages -> Ports \cup {NoPort}]
    BY <2>2 DEF TypeOK
  <2>6. QED
    BY <1>3, <2>4, <2>5 DEF TypeOK, StopBackendService
<1>4. CASE StartBackendService(c)
  <2>1. [d EXCEPT !.status = "ready"] \in DocRecs
    BY <1>2 DEF DocRecs, Statuses
  <2>2. \/ Finish(c)
        \/ GotoWith(c, "replace", [d EXCEPT !.status = "ready"])
    BY <1>4 DEF StartBackendService, d
  <2>3. req' \in [Clients -> Requests \cup {Idle}]
    BY <1>1, <2>1, <2>2, FinishType, GotoWithType DEF RequestPcs
  <2>4. proc' \in [Stages -> Ports \cup {NoPort}]
    BY <1>4 DEF TypeOK, StartBackendService, Runs
  <2>5. QED
    BY <1>4, <2>3, <2>4 DEF TypeOK, StartBackendService
<1>5. CASE DisableBackendService(c)
  <2>1. Finish(c) \/ Goto(c, "rmunit")
    BY <1>5 DEF DisableBackendService
  <2>2. req' \in [Clients -> Requests \cup {Idle}]
    BY <1>1, <2>1, FinishType, GotoType DEF RequestPcs
  <2>3. QED
    BY <1>5, <2>2 DEF TypeOK, DisableBackendService
<1>6. CASE RemoveBackendServiceFile(c)
  <2>1. req' \in [Clients -> Requests \cup {Idle}]
    BY <1>1, <1>6, GotoType DEF RequestPcs, RemoveBackendServiceFile
  <2>2. file' \in [Stages -> Ports \cup {NoPort}]
    BY <1>6 DEF TypeOK, RemoveBackendServiceFile
  <2>3. QED
    BY <1>6, <2>1, <2>2 DEF TypeOK, RemoveBackendServiceFile
<1>7. CASE RemoveDeployment(c)
  <2>1. req' \in [Clients -> Requests \cup {Idle}]
    BY <1>1, <1>7, GotoType DEF RequestPcs, RemoveDeployment
  <2>2. RemoveRoute(route[i], id) \in RouteMaps
    BY <1>2, RemoveRouteType DEF TypeOK
  <2>3. route' \in [Instances -> RouteMaps]
    BY <1>7, <2>2 DEF TypeOK, RemoveDeployment, id, i
  <2>4. QED
    BY <1>7, <2>1, <2>3 DEF TypeOK, RemoveDeployment
<1>8. CASE DeleteDeployment(c)
  <2>1. req' \in [Clients -> Requests \cup {Idle}]
    BY <1>1, <1>8, GotoType DEF RequestPcs, DeleteDeployment
  <2>2. docs' \in Seq(DocRecs)
    BY <1>8, DeleteOneFact DEF TypeOK, DeleteDeployment
  <2>3. QED
    BY <1>8, <2>1, <2>2 DEF TypeOK, DeleteDeployment
<1>9. CASE RemoveBinary(c)
  <2>1. req' \in [Clients -> Requests \cup {Idle}]
    BY <1>1, <1>9, GotoType DEF RequestPcs, RemoveBinary
  <2>2. bins' \subseteq Versions /\ mishaps' \in 0 .. MaxMishaps
    BY <1>9, MishapAssumption DEF TypeOK, RemoveBinary, Mishap
  <2>3. QED
    BY <1>9, <2>1, <2>2 DEF TypeOK, RemoveBinary
<1>10. CASE ResetStage(c)
  <2>1. GotoWith(c, "getstage", NewDoc(id)) \/ Finish(c)
    BY <1>10 DEF ResetStage, id
  <2>2. req' \in [Clients -> Requests \cup {Idle}]
    BY <1>1, <1>2, <2>1, FinishType, GotoWithType, NewDocType DEF RequestPcs
  <2>3. mishaps' \in 0 .. MaxMishaps
    BY <1>10, MishapAssumption DEF TypeOK, ResetStage, Mishap
  <2>4. stage' \in [Stages -> {"none", "pre", "ready"}]
    BY <1>10 DEF TypeOK, ResetStage
  <2>5. QED
    BY <1>10, <2>2, <2>3, <2>4 DEF TypeOK, ResetStage
<1>11. CASE GetReadyStage(c)
  <2>1. Goto(c, "port") \/ Finish(c)
    BY <1>11 DEF GetReadyStage
  <2>2. req' \in [Clients -> Requests \cup {Idle}]
    BY <1>1, <2>1, FinishType, GotoType DEF RequestPcs
  <2>3. QED
    BY <1>11, <2>2 DEF TypeOK, GetReadyStage
<1>12. CASE AllocatePort(c)
  <2>1. CASE Finish(c)
    BY <1>12, <2>1, FinishType DEF TypeOK, AllocatePort
  <2>2. ASSUME NEW p \in FreePorts,
               GotoWith(c, "insert", [req[c].dep EXCEPT !.port = p])
        PROVE  TypeOK'
    <3>1. [d EXCEPT !.port = p] \in DocRecs
      BY <1>2, <2>2 DEF DocRecs, FreePorts
    <3>2. req' \in [Clients -> Requests \cup {Idle}]
      BY <1>1, <2>2, <3>1, GotoWithType DEF RequestPcs, d
    <3>3. QED
      BY <1>12, <3>2 DEF TypeOK, AllocatePort
  <2>3. QED
    BY <1>12, <2>1, <2>2 DEF AllocatePort
<1>13. CASE CreateDeployment(c)
  <2>1. req' \in [Clients -> Requests \cup {Idle}]
    BY <1>1, <1>13, GotoType DEF RequestPcs, CreateDeployment
  <2>2. docs' \in Seq(DocRecs)
    BY <1>2, <1>13 DEF TypeOK, CreateDeployment, InsertOne, d
  <2>3. [pc |-> "build", id |-> req[c].id, at |-> req[c].at, port |-> req[c].dep.port]
          \in JobRecs
    BY <1>2 DEF JobRecs, JobPcs, DocRecs, id, d, i
  <2>4. job' \in [Jobs -> JobRecs \cup {Idle}]
    BY <1>13, <2>3 DEF TypeOK, CreateDeployment
  <2>5. QED
    BY <1>13, <2>1, <2>2, <2>4 DEF TypeOK, CreateDeployment
<1>14. CASE UpdateDeployment(c)
  <2>1. req' \in [Clients -> Requests \cup {Idle}]
    BY <1>1, <1>14, GotoType DEF RequestPcs, UpdateDeployment
  <2>2. docs' \in Seq(DocRecs)
    BY <1>2, <1>14, ReplaceOneFact DEF TypeOK, UpdateDeployment, d
  <2>3. QED
    BY <1>14, <2>1, <2>2 DEF TypeOK, UpdateDeployment
<1>15. CASE UpdateProxy(c)
  <2>1. req' \in [Clients -> Requests \cup {Idle}]
    BY <1>15, FinishType DEF UpdateProxy
  <2>2. UpdateRoute(route[i], d) \in RouteMaps
    BY <1>2, UpdateRouteType DEF TypeOK
  <2>3. route' \in [Instances -> RouteMaps]
    BY <1>15, <2>2 DEF TypeOK, UpdateProxy, d, i
  <2>4. QED
    BY <1>15, <2>1, <2>3 DEF TypeOK, UpdateProxy
<1>16. CASE CallFails(c)
  <2>1. req' \in [Clients -> Requests \cup {Idle}]
    BY <1>16, FinishType DEF CallFails
  <2>2. mishaps' \in 0 .. MaxMishaps
    BY <1>16, MishapAssumption DEF TypeOK, CallFails, Mishap
  <2>3. QED
    BY <1>16, <2>1, <2>2 DEF TypeOK, CallFails
<1>17. QED
  BY <1>3, <1>4, <1>5, <1>6, <1>7, <1>8, <1>9, <1>10, <1>11, <1>12, <1>13,
     <1>14, <1>15, <1>16 DEF Handle

\* Every step of a provisioning goroutine keeps the types.
LEMMA ProvisionType ==
  ASSUME TypeOK, NEW k \in Jobs, ProvisionDeployment(k)
  PROVE  TypeOK'
<1> DEFINE id == job[k].id
           i == job[k].at
<1>1. job[k] # Idle
  BY DEF ProvisionDeployment, BuildBackend, WriteBackendUnit, EnableBackendUnit,
     RestartBackendUnit, ProvisionFails, RecordFailure, RecordReady, PublishRoute, JobAt
<1>2. id \in Stages /\ i \in Instances /\ job[k].port \in Ports \cup {NoPort}
  BY <1>1, InFlight DEF JobRecs
<1> HIDE DEF id, i
<1>3. CASE BuildBackend(k)
  <2>1. JobGoto(k, "unit") \/ JobGoto(k, "build_failed")
    BY <1>3 DEF BuildBackend
  <2>2. job' \in [Jobs -> JobRecs \cup {Idle}]
    BY <1>1, <2>1, JobGotoType DEF JobPcs
  <2>3. bins' \subseteq Versions
    BY <1>2, <1>3 DEF TypeOK, BuildBackend, Versions, id
  <2>4. QED
    BY <1>3, <2>2, <2>3 DEF TypeOK, BuildBackend
<1>4. CASE WriteBackendUnit(k)
  <2>1. job' \in [Jobs -> JobRecs \cup {Idle}]
    BY <1>1, <1>4, JobGotoType DEF JobPcs, WriteBackendUnit
  <2>2. file' \in [Stages -> Ports \cup {NoPort}]
    BY <1>2, <1>4 DEF TypeOK, WriteBackendUnit
  <2>3. QED
    BY <1>4, <2>1, <2>2 DEF TypeOK, WriteBackendUnit
<1>5. CASE EnableBackendUnit(k)
  <2>1. JobGoto(k, "provision_failed") \/ JobGoto(k, "restart")
    BY <1>5 DEF EnableBackendUnit
  <2>2. job' \in [Jobs -> JobRecs \cup {Idle}]
    BY <1>1, <2>1, JobGotoType DEF JobPcs
  <2>3. QED
    BY <1>5, <2>2 DEF TypeOK, EnableBackendUnit
<1>6. CASE RestartBackendUnit(k)
  <2>1. JobGoto(k, "provision_failed") \/ JobGoto(k, "ready")
    BY <1>6 DEF RestartBackendUnit
  <2>2. job' \in [Jobs -> JobRecs \cup {Idle}]
    BY <1>1, <2>1, JobGotoType DEF JobPcs
  <2>3. proc' \in [Stages -> Ports \cup {NoPort}]
    BY <1>6 DEF TypeOK, RestartBackendUnit, Runs
  <2>4. QED
    BY <1>6, <2>2, <2>3 DEF TypeOK, RestartBackendUnit
<1>7. CASE ProvisionFails(k)
  <2>1. job' \in [Jobs -> JobRecs \cup {Idle}]
    BY <1>1, <1>7, JobGotoType DEF JobPcs, ProvisionFails
  <2>2. mishaps' \in 0 .. MaxMishaps
    BY <1>7, MishapAssumption DEF TypeOK, ProvisionFails, Mishap
  <2>3. QED
    BY <1>7, <2>1, <2>2 DEF TypeOK, ProvisionFails
<1>8. CASE RecordFailure(k)
  <2>1. job[k].pc \in Statuses
    BY <1>8 DEF RecordFailure, Statuses
  <2>2. JobDoc(k, job[k].pc) \in DocRecs
    BY <1>1, <2>1, JobDocType
  <2>3. docs' \in Seq(DocRecs)
    BY <1>8, <2>2, ReplaceOneFact DEF TypeOK, RecordFailure
  <2>4. job' \in [Jobs -> JobRecs \cup {Idle}]
    BY <1>8, JobEndType DEF RecordFailure
  <2>5. mishaps' \in 0 .. MaxMishaps
    BY <1>8, MishapAssumption DEF TypeOK, RecordFailure, Mishap
  <2>6. QED
    BY <1>8, <2>3, <2>4, <2>5 DEF TypeOK, RecordFailure
<1>9. CASE RecordReady(k)
  <2>1. JobDoc(k, "ready") \in DocRecs
    BY <1>1, JobDocType DEF Statuses
  <2>2. docs' \in Seq(DocRecs)
    BY <1>9, <2>1, ReplaceOneFact DEF TypeOK, RecordReady
  <2>3. job' \in [Jobs -> JobRecs \cup {Idle}]
    BY <1>1, <1>9, JobGotoType, JobEndType DEF RecordReady, JobPcs
  <2>4. mishaps' \in 0 .. MaxMishaps
    BY <1>9, MishapAssumption DEF TypeOK, RecordReady, Mishap
  <2>5. QED
    BY <1>9, <2>2, <2>3, <2>4 DEF TypeOK, RecordReady
<1>10. CASE PublishRoute(k)
  <2>1. job' \in [Jobs -> JobRecs \cup {Idle}]
    BY <1>10, JobEndType DEF PublishRoute
  <2>2. UpdateRoute(route[i], JobDoc(k, "ready")) \in RouteMaps
    BY <1>1, <1>2, UpdateRouteType, JobDocType DEF TypeOK, Statuses
  <2>3. route' \in [Instances -> RouteMaps]
    BY <1>10, <2>2 DEF TypeOK, PublishRoute, i
  <2>4. QED
    BY <1>10, <2>1, <2>3 DEF TypeOK, PublishRoute
<1>11. QED
  BY <1>3, <1>4, <1>5, <1>6, <1>7, <1>8, <1>9, <1>10 DEF ProvisionDeployment

\* A restart reloads one table and forgets that daemon's work.
LEMMA RestartType ==
  ASSUME TypeOK, NEW i \in Instances, Restart(i)
  PROVE  TypeOK'
<1>1. LoadRoutes(docs) \in RouteMaps
  BY LoadRoutesType DEF TypeOK
<1>2. route' \in [Instances -> RouteMaps]
  BY <1>1 DEF TypeOK, Restart
<1>3. req' \in [Clients -> Requests \cup {Idle}]
  BY DEF TypeOK, Restart
<1>4. job' \in [Jobs -> JobRecs \cup {Idle}]
  BY DEF TypeOK, Restart
<1>5. mishaps' \in 0 .. MaxMishaps
  BY MishapAssumption DEF TypeOK, Restart, Mishap
<1>6. QED
  BY <1>2, <1>3, <1>4, <1>5 DEF TypeOK, Restart

\* The empty system is well typed.
LEMMA InitType ==
  ASSUME Init
  PROVE  TypeOK
<1>1. docs \in Seq(DocRecs)
  BY DEF Init
<1>2. NewRouteMap \in RouteMaps
  BY DEF NewRouteMap, RouteMaps
<1>3. QED
  BY <1>1, <1>2, MishapAssumption DEF Init, TypeOK

\* The type invariant holds in every reachable state: no handler, goroutine
\* or restart ever records a port outside PORT_RANGE_START..PORT_RANGE_END,
\* an unknown status, or a route for an unknown stage.
THEOREM TypeCorrect == Spec => []TypeOK
<1>1. Init => TypeOK
  BY InitType
<1>2. TypeOK /\ [Next]_vars => TypeOK'
  <2> SUFFICES ASSUME TypeOK, [Next]_vars PROVE TypeOK'
    OBVIOUS
  <2>1. ASSUME NEW c \in Clients, Request(c) PROVE TypeOK'
    BY <2>1, RequestType
  <2>2. ASSUME NEW c \in Clients, Handle(c) PROVE TypeOK'
    BY <2>2, HandleType
  <2>3. ASSUME NEW k \in Jobs, ProvisionDeployment(k) PROVE TypeOK'
    BY <2>3, ProvisionType
  <2>4. ASSUME NEW s \in Stages, StageChanges(s) PROVE TypeOK'
    BY <2>4 DEF TypeOK, StageChanges
  <2>5. ASSUME NEW i \in Instances, Restart(i) PROVE TypeOK'
    BY <2>5, RestartType
  <2>6. CASE UNCHANGED vars
    BY <2>6 DEF TypeOK, vars
  <2>7. QED
    BY <2>1, <2>2, <2>3, <2>4, <2>5, <2>6 DEF Next
<1>3. QED
  BY <1>1, <1>2, PTL DEF Spec

-----------------------------------------------------------------------------
(* One document per deployment, and no promoted deployment lost to a plain *)
(* delete, as long as nobody sends a request for a deployment that another *)
(* request or a goroutine is working on.  First: what one step of a        *)
(* handler may do to the requests.                                         *)

\* Client c's request moves on to pc, or ends; the others' do not move.
Moves(c, pcs) ==
  /\ \A e \in Clients \ {c} : req'[e] = req[e]
  /\ req'[c] # Idle =>
       /\ req'[c].pc \in pcs
       /\ req'[c].id = req[c].id
       /\ req'[c].op = req[c].op
       /\ OwnCopy => req'[c].dep.id = req[c].id

\* The three ways a handler moves: on, on with another copy, to its end.
LEMMA GotoMoves ==
  ASSUME TypeOK, NEW c \in Clients, req[c] # Idle, NEW pc, Goto(c, pc)
  PROVE  Moves(c, {pc})
<1>1. req[c] \in Requests /\ req \in [Clients -> Requests \cup {Idle}]
  BY InFlight DEF TypeOK
<1>2. req'[c] = [req[c] EXCEPT !.pc = pc]
  BY <1>1 DEF Goto
<1>3. /\ req'[c].pc = pc /\ req'[c].id = req[c].id
      /\ req'[c].op = req[c].op /\ req'[c].dep = req[c].dep
  BY <1>1, <1>2 DEF Requests
<1>4. \A e \in Clients \ {c} : req'[e] = req[e]
  BY <1>1 DEF Goto
<1>5. QED
  BY <1>3, <1>4 DEF Moves, OwnCopy

\* On, with another copy of the same document.
LEMMA GotoWithMoves ==
  ASSUME TypeOK, NEW c \in Clients, req[c] # Idle, NEW pc,
         NEW d, GotoWith(c, pc, d), OwnCopy => d.id = req[c].id
  PROVE  Moves(c, {pc})
<1>1. req[c] \in Requests /\ req \in [Clients -> Requests \cup {Idle}]
  BY InFlight DEF TypeOK
<1>2. req'[c] = [[req[c] EXCEPT !.pc = pc] EXCEPT !.dep = d]
  BY <1>1 DEF GotoWith
<1>3. /\ req'[c].pc = pc /\ req'[c].id = req[c].id
      /\ req'[c].op = req[c].op /\ req'[c].dep = d
  BY <1>1, <1>2 DEF Requests
<1>4. \A e \in Clients \ {c} : req'[e] = req[e]
  BY <1>1 DEF GotoWith
<1>5. QED
  BY <1>3, <1>4 DEF Moves

\* To its end.
LEMMA FinishMoves ==
  ASSUME TypeOK, NEW c \in Clients, Finish(c), NEW pcs
  PROVE  Moves(c, pcs) /\ req'[c] = Idle
  BY DEF TypeOK, Finish, Moves

\* Which call may follow which.
After(pc, op) ==
  CASE pc = "stop"       -> IF op = "shutdown" THEN {"replace"} ELSE {"disable"}
    [] pc = "start"      -> {"replace"}
    [] pc = "disable"    -> {"rmunit"}
    [] pc = "rmunit"     -> {"unroute"}
    [] pc = "unroute"    -> {"deldoc"}
    [] pc = "deldoc"     -> {"rmbin"}
    [] pc = "rmbin"      -> {"resetstage"}
    [] pc = "resetstage" -> IF op = "deploy" THEN {"getstage"} ELSE {}
    [] pc = "getstage"   -> {"port"}
    [] pc = "port"       -> {"insert"}
    [] pc = "insert"     -> {"route"}
    [] pc = "replace"    -> {"route"}
    [] OTHER             -> {}

\* Which calls may follow the one a handler makes.
LEMMA HandleMoves ==
  ASSUME TypeOK, NEW c \in Clients, Handle(c)
  PROVE  req[c] # Idle /\ Moves(c, After(req[c].pc, req[c].op))
<1>1. req[c] # Idle
  BY DEF Handle, StopBackendService, StartBackendService, DisableBackendService,
     RemoveBackendServiceFile, RemoveDeployment, DeleteDeployment, RemoveBinary,
     ResetStage, GetReadyStage, AllocatePort, CreateDeployment, UpdateDeployment,
     UpdateProxy, CallFails, At
<1> DEFINE d == req[c].dep
           A == After(req[c].pc, req[c].op)
<1>2. d \in DocRecs
  BY <1>1, InFlight DEF Requests
<1>3. OwnCopy => d.id = req[c].id
  BY <1>1 DEF OwnCopy
<1> HIDE DEF d
<1>4. CASE StopBackendService(c)
  <2>1. CASE req[c].op = "shutdown"
    <3>1. GotoWith(c, "replace", [d EXCEPT !.status = "stopped", !.promoted = FALSE])
      BY <1>4, <2>1 DEF StopBackendService, d
    <3>2. [d EXCEPT !.status = "stopped", !.promoted = FALSE].id = d.id
      BY <1>2 DEF DocRecs
    <3>3. Moves(c, {"replace"})
      BY <1>1, <1>3, <3>1, <3>2, GotoWithMoves
    <3>4. A = {"replace"}
      BY <1>4, <2>1 DEF StopBackendService, At, After
    <3>5. QED
      BY <1>1, <3>3, <3>4
  <2>2. CASE req[c].op # "shutdown"
    <3>1. Moves(c, {"disable"})
      BY <1>1, <1>4, <2>2, GotoMoves DEF StopBackendService
    <3>2. A = {"disable"}
      BY <1>4, <2>2 DEF StopBackendService, At, After
    <3>3. QED
      BY <1>1, <3>1, <3>2
  <2>3. QED
    BY <2>1, <2>2
<1>5. CASE StartBackendService(c)
  <2>1. [d EXCEPT !.status = "ready"].id = d.id
    BY <1>2 DEF DocRecs
  <2>2. Finish(c) \/ GotoWith(c, "replace", [d EXCEPT !.status = "ready"])
    BY <1>5 DEF StartBackendService, d
  <2>3. Moves(c, {"replace"})
    BY <1>1, <1>3, <2>1, <2>2, GotoWithMoves, FinishMoves
  <2>4. A = {"replace"}
    BY <1>5 DEF StartBackendService, At, After
  <2>5. QED
    BY <1>1, <2>3, <2>4
<1>6. CASE DisableBackendService(c)
  <2>1. Moves(c, {"rmunit"})
    BY <1>1, <1>6, GotoMoves, FinishMoves DEF DisableBackendService
  <2>2. A = {"rmunit"}
    BY <1>6 DEF DisableBackendService, At, After
  <2>3. QED
    BY <1>1, <2>1, <2>2
<1>7. CASE RemoveBackendServiceFile(c)
  <2>1. Moves(c, {"unroute"})
    BY <1>1, <1>7, GotoMoves DEF RemoveBackendServiceFile
  <2>2. A = {"unroute"}
    BY <1>7 DEF RemoveBackendServiceFile, At, After
  <2>3. QED
    BY <1>1, <2>1, <2>2
<1>8. CASE RemoveDeployment(c)
  <2>1. Moves(c, {"deldoc"})
    BY <1>1, <1>8, GotoMoves DEF RemoveDeployment
  <2>2. A = {"deldoc"}
    BY <1>8 DEF RemoveDeployment, At, After
  <2>3. QED
    BY <1>1, <2>1, <2>2
<1>9. CASE DeleteDeployment(c)
  <2>1. Moves(c, {"rmbin"})
    BY <1>1, <1>9, GotoMoves DEF DeleteDeployment
  <2>2. A = {"rmbin"}
    BY <1>9 DEF DeleteDeployment, At, After
  <2>3. QED
    BY <1>1, <2>1, <2>2
<1>10. CASE RemoveBinary(c)
  <2>1. Moves(c, {"resetstage"})
    BY <1>1, <1>10, GotoMoves DEF RemoveBinary
  <2>2. A = {"resetstage"}
    BY <1>10 DEF RemoveBinary, At, After
  <2>3. QED
    BY <1>1, <2>1, <2>2
<1>11. CASE ResetStage(c)
  <2>1. CASE req[c].op = "deploy"
    <3>1. GotoWith(c, "getstage", NewDoc(req[c].id))
      BY <1>11, <2>1 DEF ResetStage
    <3>2. NewDoc(req[c].id).id = req[c].id
      BY DEF NewDoc
    <3>3. Moves(c, {"getstage"})
      BY <1>1, <3>1, <3>2, GotoWithMoves
    <3>4. A = {"getstage"}
      BY <1>11, <2>1 DEF ResetStage, At, After
    <3>5. QED
      BY <1>1, <3>3, <3>4
  <2>2. CASE req[c].op # "deploy"
    BY <1>1, <1>11, <2>2, FinishMoves DEF ResetStage
  <2>3. QED
    BY <2>1, <2>2
<1>12. CASE GetReadyStage(c)
  <2>1. Moves(c, {"port"})
    BY <1>1, <1>12, GotoMoves, FinishMoves DEF GetReadyStage
  <2>2. A = {"port"}
    BY <1>12 DEF GetReadyStage, At, After
  <2>3. QED
    BY <1>1, <2>1, <2>2
<1>13. CASE AllocatePort(c)
  <2>1. CASE Finish(c)
    BY <1>1, <2>1, FinishMoves
  <2>2. ASSUME NEW p \in FreePorts, GotoWith(c, "insert", [req[c].dep EXCEPT !.port = p])
        PROVE  Moves(c, {"insert"})
    <3>1. [d EXCEPT !.port = p].id = d.id
      BY <1>2 DEF DocRecs
    <3>2. QED
      BY <1>1, <1>3, <2>2, <3>1, GotoWithMoves DEF d
  <2>3. A = {"insert"}
    BY <1>13 DEF AllocatePort, At, After
  <2>4. QED
    BY <1>1, <1>13, <2>1, <2>2, <2>3 DEF AllocatePort
<1>14. CASE CreateDeployment(c)
  <2>1. Moves(c, {"route"})
    BY <1>1, <1>14, GotoMoves DEF CreateDeployment
  <2>2. A = {"route"}
    BY <1>14 DEF CreateDeployment, At, After
  <2>3. QED
    BY <1>1, <2>1, <2>2
<1>15. CASE UpdateDeployment(c)
  <2>1. Moves(c, {"route"})
    BY <1>1, <1>15, GotoMoves DEF UpdateDeployment
  <2>2. A = {"route"}
    BY <1>15 DEF UpdateDeployment, At, After
  <2>3. QED
    BY <1>1, <2>1, <2>2
<1>16. CASE UpdateProxy(c)
  BY <1>1, <1>16, FinishMoves DEF UpdateProxy
<1>17. CASE CallFails(c)
  BY <1>1, <1>17, FinishMoves DEF CallFails
<1>18. QED
  BY <1>4, <1>5, <1>6, <1>7, <1>8, <1>9, <1>10, <1>11, <1>12, <1>13, <1>14,
     <1>15, <1>16, <1>17 DEF Handle

\* After, read backwards: where the calls of a teardown and of a creation
\* come from.
LEMMA BeforeFact ==
  ASSUME NEW pc \in RequestPcs, NEW op, NEW next \in After(pc, op)
  PROVE  /\ next # "stop" /\ next # "start"
         /\ next = "disable" => pc = "stop" /\ op # "shutdown"
         /\ next = "rmunit" => pc = "disable"
         /\ next = "unroute" => pc = "rmunit"
         /\ next = "deldoc" => pc = "unroute"
         /\ next = "getstage" => op = "deploy"
         /\ next = "port" => pc = "getstage"
         /\ next = "insert" => pc = "port"
         /\ next = "replace" => pc = "start" \/ (pc = "stop" /\ op = "shutdown")
         /\ next \in AbsentPcs => pc = "deldoc" \/ pc \in AbsentPcs \ {"insert"}
  BY DEF After, RequestPcs, AbsentPcs

\* What one step of a handler may do to the collection.
LEMMA HandleDocs ==
  ASSUME TypeOK, NEW c \in Clients, Handle(c)
  PROVE  \/ docs' = docs /\ (req[c].pc = "deldoc" => req'[c] = Idle)
         \/ req[c].pc = "deldoc" /\ docs' = DeleteOne(docs, req[c].id)
         \/ req[c].pc = "insert" /\ docs' = InsertOne(docs, req[c].dep)
         \/ req[c].pc = "replace" /\ docs' = ReplaceOne(docs, req[c].dep)
<1>1. CASE CallFails(c)
  BY <1>1, FinishMoves DEF CallFails
<1>2. CASE DeleteDeployment(c) \/ CreateDeployment(c) \/ UpdateDeployment(c)
  BY <1>2 DEF DeleteDeployment, CreateDeployment, UpdateDeployment, At
<1>3. QED
  BY <1>1, <1>2 DEF Handle, StopBackendService, StartBackendService,
     DisableBackendService, RemoveBackendServiceFile, RemoveDeployment, RemoveBinary,
     ResetStage, GetReadyStage, AllocatePort, UpdateProxy, At

-----------------------------------------------------------------------------
(* Handlers and goroutines keep the invariant, polite or not.              *)

\* The parts of PoliteInv about requests only.
LEMMA HandleKeepsRequests ==
  ASSUME PoliteInv, NEW c \in Clients, Handle(c)
  PROVE  Exclusive' /\ OwnCopy' /\ PcOps'
<1>1. /\ req[c] # Idle
      /\ Moves(c, After(req[c].pc, req[c].op))
  BY HandleMoves DEF PoliteInv
<1>2. req[c].pc \in RequestPcs
  BY <1>1, InFlight DEF PoliteInv, Requests
<1>3. Exclusive'
  BY <1>1 DEF PoliteInv, Exclusive, Moves
<1>4. OwnCopy'
  BY <1>1 DEF PoliteInv, OwnCopy, Moves
<1>5. PcOps'
  <2>1. ASSUME NEW e \in Clients, e # c
        PROVE  req'[e] = req[e]
    BY <1>1, <2>1 DEF Moves
  <2>2. CASE req'[c] = Idle
    BY <2>1, <2>2 DEF PoliteInv, PcOps
  <2>3. CASE req'[c] # Idle
    <3>1. req'[c].pc \in After(req[c].pc, req[c].op) /\ req'[c].op = req[c].op
      BY <1>1, <2>3 DEF Moves
    <3>2. /\ req'[c].pc # "stop" /\ req'[c].pc # "start"
          /\ req'[c].pc = "disable" => req[c].pc = "stop" /\ req[c].op # "shutdown"
          /\ req'[c].pc = "rmunit" => req[c].pc = "disable"
          /\ req'[c].pc = "unroute" => req[c].pc = "rmunit"
          /\ req'[c].pc = "deldoc" => req[c].pc = "unroute"
          /\ req'[c].pc = "getstage" => req[c].op = "deploy"
          /\ req'[c].pc = "port" => req[c].pc = "getstage"
          /\ req'[c].pc = "insert" => req[c].pc = "port"
          /\ req'[c].pc = "replace" =>
               req[c].pc = "start" \/ (req[c].pc = "stop" /\ req[c].op = "shutdown")
      BY <1>2, <3>1, BeforeFact
    <3>3. /\ req[c].pc \in {"disable", "rmunit", "unroute"}
               => req[c].op \in {"deploy", "delete", "force_delete"}
          /\ req[c].pc = "stop"
               => req[c].op \in {"deploy", "delete", "force_delete", "shutdown"}
          /\ req[c].pc \in {"getstage", "port"} => req[c].op = "deploy"
          /\ req[c].pc = "start" => req[c].op = "start"
      BY <1>1 DEF PoliteInv, PcOps
    <3>4. /\ req'[c].pc \in {"disable", "rmunit", "unroute", "deldoc"}
               => req'[c].op \in {"deploy", "delete", "force_delete"}
          /\ req'[c].pc \in {"getstage", "port", "insert"} => req'[c].op = "deploy"
          /\ req'[c].pc = "replace" => req'[c].op \in {"promote", "shutdown", "start"}
      BY <3>1, <3>2, <3>3
    <3>5. QED
      BY <2>1, <3>2, <3>4 DEF PoliteInv, PcOps
  <2>4. QED
    BY <2>2, <2>3
<1>6. QED
  BY <1>3, <1>4, <1>5

\* The calls that leave the set of ids as it is, or shrink it, keep every
\* absence; the one that adds an id ends the only reliance on its absence.
LEMMA HandleKeepsDocs ==
  ASSUME PoliteInv, NEW c \in Clients, Handle(c)
  PROVE  OneDocPerId' /\ Absent'
<1> DEFINE id == req[c].id
           d == req[c].dep
<1>1. /\ req[c] # Idle
      /\ Moves(c, After(req[c].pc, req[c].op))
  BY HandleMoves DEF PoliteInv
<1>2. /\ req[c].pc \in RequestPcs /\ docs \in Seq(DocRecs)
      /\ d \in DocRecs /\ d.id = id
  BY <1>1, InFlight DEF PoliteInv, TypeOK, Requests, OwnCopy
<1>3. \A e \in Clients \ {c} : req[e] # Idle => req'[e] = req[e] /\ req[e].id # id
  BY <1>1 DEF PoliteInv, Exclusive, Moves
<1>4. req'[c] # Idle =>
        /\ req'[c].pc \in After(req[c].pc, req[c].op)
        /\ req'[c].id = id /\ req'[c].op = req[c].op
  BY <1>1 DEF Moves
<1>5. req'[c] # Idle /\ req'[c].pc \in AbsentPcs =>
        req[c].pc = "deldoc" \/ (req[c].pc \in AbsentPcs /\ req[c].pc # "insert")
  BY <1>2, <1>4, BeforeFact
<1>6. UniqueIds(docs)
  BY DEF PoliteInv, OneDocPerId, UniqueIds
<1>7. \A e \in Clients : req'[e] # Idle => req[e] # Idle /\ req'[e].id = req[e].id
                                           /\ req'[e].op = req[e].op
  BY <1>1, <1>4 DEF Moves
<1>8. CASE docs' = docs /\ (req[c].pc = "deldoc" => req'[c] = Idle)
  <2>1. OneDocPerId'
    BY <1>8 DEF PoliteInv, OneDocPerId
  <2>2. Absent'
    BY <1>1, <1>3, <1>4, <1>5, <1>7, <1>8 DEF PoliteInv, Absent, Found
  <2>3. QED
    BY <2>1, <2>2
<1>9. CASE req[c].pc = "deldoc" /\ docs' = DeleteOne(docs, id)
  <2>1. UniqueIds(docs') /\ ~Found(docs', id)
    BY <1>2, <1>6, <1>9, DeleteOneUnique
  <2>2. \A j \in DOMAIN docs' : \E i \in DOMAIN docs : docs'[j] = docs[i]
    BY <1>2, <1>9, DeleteOneFact
  <2>3. Absent'
    BY <1>3, <1>4, <1>7, <2>1, <2>2 DEF PoliteInv, Absent, Found
  <2>4. QED
    BY <2>1, <2>3 DEF OneDocPerId, UniqueIds
<1>10. CASE req[c].pc = "insert" /\ docs' = InsertOne(docs, d)
  <2>1. ~Found(docs, id)
    BY <1>1, <1>10 DEF PoliteInv, Absent, AbsentPcs
  <2>2. UniqueIds(docs')
    BY <1>2, <1>6, <1>10, <2>1, InsertOneUnique
  <2>3. \A j \in DOMAIN docs' : docs'[j] = d \/ \E i \in DOMAIN docs : docs'[j] = docs[i]
    BY <1>2, <1>10 DEF InsertOne
  <2>4. req'[c] # Idle => req'[c].pc \notin AbsentPcs
    BY <1>5, <1>10
  <2>5. Absent'
    BY <1>2, <1>3, <1>7, <2>3, <2>4 DEF PoliteInv, Absent, Found
  <2>6. QED
    BY <2>2, <2>5 DEF OneDocPerId, UniqueIds
<1>11. CASE req[c].pc = "replace" /\ docs' = ReplaceOne(docs, d)
  <2>1. UniqueIds(docs')
    BY <1>2, <1>6, <1>11, ReplaceOneUnique
  <2>2. /\ DOMAIN docs' = DOMAIN docs
        /\ \A i \in DOMAIN docs : docs'[i].id = docs[i].id /\ docs'[i] \in {docs[i], d}
    BY <1>2, <1>11, ReplaceOneShape
  <2>3. Absent'
    BY <1>3, <1>4, <1>5, <1>7, <1>11, <2>2 DEF PoliteInv, Absent, AbsentPcs, Found
  <2>4. QED
    BY <2>1, <2>3 DEF OneDocPerId, UniqueIds
<1>12. QED
  BY <1>8, <1>9, <1>10, <1>11, HandleDocs DEF PoliteInv

\* A goroutine writes a document under an id that is there, or nothing.
LEMMA ProvisionKeeps ==
  ASSUME PoliteInv, NEW k \in Jobs, ProvisionDeployment(k)
  PROVE  PoliteInv'
<1>1. TypeOK'
  BY ProvisionType DEF PoliteInv
<1>2. /\ req' = req
      /\ \/ docs' = docs
         \/ \E st \in Statuses : job[k] # Idle /\ docs' = ReplaceOne(docs, JobDoc(k, st))
  BY DEF ProvisionDeployment, BuildBackend, WriteBackendUnit, EnableBackendUnit,
     RestartBackendUnit, ProvisionFails, RecordFailure, RecordReady, PublishRoute,
     JobAt, Statuses
<1>3. Exclusive' /\ OwnCopy' /\ PcOps'
  BY <1>2 DEF PoliteInv, Exclusive, OwnCopy, PcOps
<1>4. CASE docs' = docs
  BY <1>1, <1>2, <1>3, <1>4 DEF PoliteInv, OneDocPerId, Absent, Found
<1>5. ASSUME NEW st \in Statuses, job[k] # Idle, docs' = ReplaceOne(docs, JobDoc(k, st))
      PROVE  PoliteInv'
  <2>1. JobDoc(k, st) \in DocRecs
    BY <1>5, JobDocType DEF PoliteInv
  <2>2. docs \in Seq(DocRecs) /\ UniqueIds(docs)
    BY DEF PoliteInv, TypeOK, OneDocPerId, UniqueIds
  <2>3. UniqueIds(docs')
    BY <1>5, <2>1, <2>2, ReplaceOneUnique
  <2>4. /\ DOMAIN docs' = DOMAIN docs
        /\ \A i \in DOMAIN docs :
             docs'[i].id = docs[i].id /\ docs'[i] \in {docs[i], JobDoc(k, st)}
    BY <1>5, <2>1, <2>2, ReplaceOneShape
  <2>5. Absent'
    BY <1>2, <2>4 DEF PoliteInv, Absent, Found
  <2>6. QED
    BY <1>1, <1>3, <2>3, <2>5 DEF PoliteInv, OneDocPerId, UniqueIds
<1>6. QED
  BY <1>2, <1>4, <1>5

-----------------------------------------------------------------------------
(* A new request keeps the invariant, because it found its deployment      *)
(* quiet.                                                                  *)

\* A polite request keeps PoliteInv: nobody else has its deployment.
LEMMA BeginKeeps ==
  ASSUME PoliteInv, Polite, NEW c \in Clients, NEW i \in Instances, NEW s \in Stages,
         NEW op \in Ops, NEW pc \in RequestPcs, NEW d \in DocRecs,
         Begin(c, i, s, op, pc, d), TypeOK', d.id = s,
         pc \in AbsentPcs => pc = "getstage" /\ ~Found(docs, s) /\ op = "deploy",
         pc \in {"disable", "rmunit", "unroute", "deldoc"}
           => op \in {"deploy", "delete", "force_delete"},
         pc = "stop" => op \in {"deploy", "delete", "force_delete", "shutdown"},
         pc = "start" => op = "start",
         pc = "replace" => op \in {"promote", "shutdown", "start"}
  PROVE  PoliteInv'
<1> DEFINE r == [pc |-> pc, op |-> op, id |-> s, at |-> i, dep |-> d]
<1>1. /\ req' = [req EXCEPT ![c] = r]
      /\ docs' = docs
      /\ \A e \in Clients : req[e] # Idle => req[e].id # s
  BY DEF Begin, Quiet
<1>2. /\ req'[c] = r
      /\ \A e \in Clients : e # c => req'[e] = req[e]
  BY <1>1 DEF PoliteInv, TypeOK
<1>3. /\ r.pc = pc /\ r.op = op /\ r.id = s /\ r.dep = d
  OBVIOUS
<1> HIDE DEF r
<1>4. Exclusive' /\ OwnCopy'
  BY <1>1, <1>2, <1>3 DEF PoliteInv, Exclusive, OwnCopy
<1>5. PcOps'
  BY <1>2, <1>3 DEF PoliteInv, PcOps, AbsentPcs
<1>6. Absent'
  BY <1>1, <1>2, <1>3 DEF PoliteInv, Absent, Found
<1>7. QED
  BY <1>1, <1>4, <1>5, <1>6 DEF PoliteInv, OneDocPerId

\* Every request of the API begins like that.
LEMMA RequestKeeps ==
  ASSUME PoliteInv, Polite, NEW c \in Clients, Request(c)
  PROVE  PoliteInv'
<1>1. TypeOK'
  BY RequestType DEF PoliteInv
<1>2. PICK i \in Instances, s \in Stages :
        \/ CreateDeploymentHandler(c, i, s)
        \/ PromoteDeploymentHandler(c, i, s)
        \/ ShutdownDeploymentHandler(c, i, s)
        \/ StartDeploymentHandler(c, i, s)
        \/ \E op \in {"delete", "force_delete"} : DeleteDeploymentHandler(c, i, s, op)
  BY DEF Request
<1> DEFINE d == FindOne(docs, s)
<1>3. Found(docs, s) => d \in DocRecs /\ d.id = s
  BY FindOneFact DEF PoliteInv, TypeOK
<1> HIDE DEF d
<1>4. TeardownPc(d) \in {"stop", "disable"}
  BY DEF TeardownPc
<1>5. CASE CreateDeploymentHandler(c, i, s)
  <2>1. CASE Found(docs, s)
    <3>1. Begin(c, i, s, "deploy", TeardownPc(d), d)
      BY <1>5, <2>1 DEF CreateDeploymentHandler, d
    <3>2. QED
      BY <1>1, <1>3, <1>4, <2>1, <3>1, BeginKeeps DEF Ops, RequestPcs, AbsentPcs
  <2>2. CASE ~Found(docs, s)
    <3>1. Begin(c, i, s, "deploy", "getstage", NewDoc(s))
      BY <1>5, <2>2 DEF CreateDeploymentHandler
    <3>2. NewDoc(s) \in DocRecs /\ NewDoc(s).id = s
      BY NewDocType DEF NewDoc
    <3>3. QED
      BY <1>1, <2>2, <3>1, <3>2, BeginKeeps DEF Ops, RequestPcs, AbsentPcs
  <2>3. QED
    BY <2>1, <2>2
<1>6. CASE PromoteDeploymentHandler(c, i, s)
  <2>1. Found(docs, s) /\ Begin(c, i, s, "promote", "replace", [d EXCEPT !.promoted = TRUE])
    BY <1>6 DEF PromoteDeploymentHandler, d
  <2>2. [d EXCEPT !.promoted = TRUE] \in DocRecs /\ [d EXCEPT !.promoted = TRUE].id = s
    BY <1>3, <2>1 DEF DocRecs
  <2>3. QED
    BY <1>1, <2>1, <2>2, BeginKeeps DEF Ops, RequestPcs, AbsentPcs
<1>7. CASE ShutdownDeploymentHandler(c, i, s)
  <2>1. Found(docs, s) /\ Begin(c, i, s, "shutdown", "stop", d)
    BY <1>7 DEF ShutdownDeploymentHandler, d
  <2>2. QED
    BY <1>1, <1>3, <2>1, BeginKeeps DEF Ops, RequestPcs, AbsentPcs
<1>8. CASE StartDeploymentHandler(c, i, s)
  <2>1. Found(docs, s) /\ Begin(c, i, s, "start", "start", d)
    BY <1>8 DEF StartDeploymentHandler, d
  <2>2. QED
    BY <1>1, <1>3, <2>1, BeginKeeps DEF Ops, RequestPcs, AbsentPcs
<1>9. ASSUME NEW op \in {"delete", "force_delete"},
              DeleteDeploymentHandler(c, i, s, op)
       PROVE  PoliteInv'
  <2>1. Found(docs, s) /\ Begin(c, i, s, op, TeardownPc(d), d)
    BY <1>9 DEF DeleteDeploymentHandler, d
  <2>2. QED
    BY <1>1, <1>3, <1>4, <2>1, BeginKeeps DEF Ops, RequestPcs, AbsentPcs
<1>10. QED
  BY <1>2, <1>5, <1>6, <1>7, <1>8, <1>9

-----------------------------------------------------------------------------
(* The invariant, and what it gives.                                       *)

\* PoliteInv is inductive when operators are polite.
LEMMA PoliteInvariant ==
  ASSUME Polite
  PROVE  Spec => []PoliteInv
<1>1. Init => PoliteInv
  <2> SUFFICES ASSUME Init PROVE PoliteInv
    OBVIOUS
  <2>1. TypeOK
    BY InitType
  <2>2. QED
    BY <2>1 DEF Init, PoliteInv, OneDocPerId, Exclusive, OwnCopy, Absent, PcOps
<1>2. PoliteInv /\ [Next]_vars => PoliteInv'
  <2> SUFFICES ASSUME PoliteInv, [Next]_vars PROVE PoliteInv'
    OBVIOUS
  <2>1. ASSUME NEW c \in Clients, Request(c) PROVE PoliteInv'
    BY <2>1, RequestKeeps
  <2>2. ASSUME NEW c \in Clients, Handle(c) PROVE PoliteInv'
    BY <2>2, HandleType, HandleKeepsRequests, HandleKeepsDocs DEF PoliteInv
  <2>3. ASSUME NEW k \in Jobs, ProvisionDeployment(k) PROVE PoliteInv'
    BY <2>3, ProvisionKeeps
  <2>4. ASSUME NEW s \in Stages, StageChanges(s) PROVE PoliteInv'
    <3>1. TypeOK'
      BY <2>4 DEF PoliteInv, TypeOK, StageChanges
    <3>2. req' = req /\ docs' = docs
      BY <2>4 DEF StageChanges
    <3>3. QED
      BY <3>1, <3>2 DEF PoliteInv, OneDocPerId, Exclusive, OwnCopy, Absent, PcOps,
         Found
  <2>5. ASSUME NEW i \in Instances, Restart(i) PROVE PoliteInv'
    <3>1. TypeOK'
      BY <2>5, RestartType DEF PoliteInv
    <3>2. docs' = docs /\ \A c \in Clients : req'[c] # Idle => req'[c] = req[c]
      BY <2>5 DEF Restart
    <3>3. QED
      BY <3>1, <3>2 DEF PoliteInv, OneDocPerId, Exclusive, OwnCopy, Absent, PcOps,
         Found
  <2>6. CASE UNCHANGED vars
    BY <2>6 DEF vars, PoliteInv, TypeOK, OneDocPerId, Exclusive, OwnCopy, Absent,
       PcOps, Found
  <2>7. QED
    BY <2>1, <2>2, <2>3, <2>4, <2>5, <2>6 DEF Next
<1>3. QED
  BY <1>1, <1>2, PTL DEF Spec

\* However many operators, daemons, goroutines, restarts and failed calls
\* there are, polite operators never end up with two documents for one
\* deployment.
THEOREM OneDocument ==
  ASSUME Polite
  PROVE  Spec => []OneDocPerId
<1>1. PoliteInv => OneDocPerId
  BY DEF PoliteInv
<1>2. QED
  BY <1>1, PoliteInvariant, PTL

-----------------------------------------------------------------------------
(* What copies, goroutines, tables and units have to do with documents.    *)

\* Client c has a request, and goroutine k runs, for s.
Asks(c, s) == req[c] # Idle /\ req[c].id = s
Serves(k, s) == job[k] # Idle /\ job[k].id = s

\* Calls made with the document as it was read.
ReadPcs == {"stop", "start", "disable", "rmunit", "unroute", "deldoc"}

\* How the copy of request r differs from the document d it will replace.
Revises(r, d) ==
  /\ r.dep.port = d.port
  /\ r.op = "promote" => r.dep.status = d.status
  /\ r.op = "shutdown" => r.dep.status = "stopped"
  /\ r.op = "start" => r.dep.status = "ready"

\* A handler's copy is the document itself, its revision or a new document.
TrueCopy(r) ==
  /\ r.pc \in ReadPcs \/ (r.pc = "route" /\ r.op # "deploy")
       => Found(docs, r.id) /\ r.dep = FindOne(docs, r.id)
  /\ r.pc = "replace" => Found(docs, r.id) /\ Revises(r, FindOne(docs, r.id))
  /\ r.pc \in {"getstage", "port", "insert", "route"} /\ r.op = "deploy"
       => r.dep.status = "provisioning" /\ ~r.dep.promoted
  /\ r.pc = "insert" => r.dep.port \in Ports

\* The handlers that work on s have true copies.
Copies(s) == \A c \in Clients : Asks(c, s) => TrueCopy(req[c])

\* A goroutine has its deployment to itself, but for the end of the request
\* that launched it, and the document says what it is about to replace.
Provisions(s) ==
  \A k \in Jobs : Serves(k, s) =>
    /\ job[k].port \in Ports
    /\ Found(docs, s)
    /\ FindOne(docs, s) = JobDoc(k, IF job[k].pc = "route" THEN "ready" ELSE "provisioning")
    /\ \A j \in Jobs : Serves(j, s) => j = k
    /\ \A c \in Clients : Asks(c, s) => req[c].pc = "route" /\ req[c].op = "deploy"

\* What the other layers build on.
CopyInv == PoliteInv /\ \A s \in Stages : Copies(s) /\ Provisions(s)

-----------------------------------------------------------------------------
(* What one step leaves alone.                                             *)

\* The step leaves the document of s as it is.
KeepsDoc(s) ==
  /\ Found(docs', s) <=> Found(docs, s)
  /\ Found(docs, s) => FindOne(docs', s) = FindOne(docs, s)

\* The step begins, advances and ends no work on s.
KeepsWork(s) ==
  /\ \A c \in Clients : Asks(c, s)' => Asks(c, s)
  /\ \A c \in Clients : Asks(c, s) => req'[c] = req[c]
  /\ \A k \in Jobs : Serves(k, s)' => Serves(k, s)
  /\ \A k \in Jobs : Serves(k, s) => job'[k] = job[k]

\* The step changes nothing in a table for s, and makes it nowhere main.
KeepsRoute(s) ==
  \A i \in Instances :
    /\ route'[i].dep[s] = route[i].dep[s]
    /\ route'[i].main = s => route[i].main = s

\* The binary that the unit of s runs is there.
Built(s) == VersionOf[s] \in bins

\* No two stages share a binary, which is named after the release: a
\* redeploy or a delete of one stage then removes nobody else's.
OwnBinaries == \A s, t \in Stages : VersionOf[s] = VersionOf[t] => s = t

\* The step leaves unit, service and binary of s as they are.
KeepsUnit(s) ==
  /\ file'[s] = file[s]
  /\ proc'[s] = proc[s]
  /\ OwnBinaries => (Built(s)' <=> Built(s))
  /\ mishaps' = 0 => mishaps = 0

\* A step about another stage.
Leaves(s) == KeepsDoc(s) /\ KeepsWork(s) /\ KeepsRoute(s) /\ KeepsUnit(s)

\* The request of client c moves on to pc with copy d; the others stand.
Advances(c, pc, d) ==
  /\ \A e \in Clients \ {c} : req'[e] = req[e]
  /\ req'[c] # Idle
  /\ req'[c].pc = pc /\ req'[c].dep = d
  /\ req'[c].id = req[c].id /\ req'[c].op = req[c].op /\ req'[c].at = req[c].at

\* The moves of a handler, with what becomes of its copy.
LEMMA GotoAdvances ==
  ASSUME TypeOK, NEW c \in Clients, req[c] # Idle, NEW pc \in RequestPcs, Goto(c, pc)
  PROVE  Advances(c, pc, req[c].dep)
<1>1. req[c] \in Requests /\ req \in [Clients -> Requests \cup {Idle}]
  BY InFlight DEF TypeOK
<1>2. req'[c] = [req[c] EXCEPT !.pc = pc]
  BY <1>1 DEF Goto
<1>3. /\ req'[c].pc = pc /\ req'[c].id = req[c].id /\ req'[c].at = req[c].at
      /\ req'[c].op = req[c].op /\ req'[c].dep = req[c].dep
  BY <1>1, <1>2 DEF Requests
<1>4. req'[c] # Idle
  BY <1>3 DEF Idle, RequestPcs
<1> QED
  BY <1>1, <1>3, <1>4 DEF Advances, Goto

\* The same, with another copy.
LEMMA GotoWithAdvances ==
  ASSUME TypeOK, NEW c \in Clients, req[c] # Idle, NEW pc \in RequestPcs,
         NEW d, GotoWith(c, pc, d)
  PROVE  Advances(c, pc, d)
<1>1. req[c] \in Requests /\ req \in [Clients -> Requests \cup {Idle}]
  BY InFlight DEF TypeOK
<1>2. req'[c] = [[req[c] EXCEPT !.pc = pc] EXCEPT !.dep = d]
  BY <1>1 DEF GotoWith
<1>3. /\ req'[c].pc = pc /\ req'[c].id = req[c].id /\ req'[c].at = req[c].at
      /\ req'[c].op = req[c].op /\ req'[c].dep = d
  BY <1>1, <1>2 DEF Requests
<1>4. req'[c] # Idle
  BY <1>3 DEF Idle, RequestPcs
<1> QED
  BY <1>1, <1>3, <1>4 DEF Advances, GotoWith

\* The same for goroutines.
JobAdvances(k, pc) ==
  /\ \A j \in Jobs \ {k} : job'[j] = job[j]
  /\ job'[k] # Idle
  /\ job'[k].pc = pc
  /\ job'[k].id = job[k].id /\ job'[k].port = job[k].port /\ job'[k].at = job[k].at

\* A goroutine moves on, and stays with its deployment.
LEMMA JobGotoAdvances ==
  ASSUME TypeOK, NEW k \in Jobs, job[k] # Idle, NEW pc \in JobPcs, JobGoto(k, pc)
  PROVE  JobAdvances(k, pc)
<1>1. job[k] \in JobRecs /\ job \in [Jobs -> JobRecs \cup {Idle}]
  BY InFlight DEF TypeOK
<1>2. job'[k] = [job[k] EXCEPT !.pc = pc]
  BY <1>1 DEF JobGoto
<1>3. /\ job'[k].pc = pc /\ job'[k].id = job[k].id
      /\ job'[k].port = job[k].port /\ job'[k].at = job[k].at
  BY <1>1, <1>2 DEF JobRecs
<1>4. job'[k] # Idle
  BY <1>3 DEF Idle, JobPcs
<1> QED
  BY <1>1, <1>3, <1>4 DEF JobAdvances, JobGoto

\* A goroutine ends; the others stand.
LEMMA JobEndFact ==
  ASSUME TypeOK, NEW k \in Jobs, JobEnd(k)
  PROVE  job'[k] = Idle /\ \A j \in Jobs \ {k} : job'[j] = job[j]
  BY DEF TypeOK, JobEnd

\* A change of a table concerns one entry, and takes main from nobody but
\* the old main to nobody but the deployment that was promoted.
LEMMA TableElse ==
  ASSUME NEW rm \in RouteMaps, NEW d \in DocRecs, NEW t \in Stages, t # d.id
  PROVE  /\ UpdateRoute(rm, d).dep[t] = rm.dep[t]
         /\ UpdateRoute(rm, d).main = t => rm.main = t
  BY NoStageAssumption DEF UpdateRoute, RouteMaps, DocRecs

\* Removing one deployment from a table leaves the entries of the others.
LEMMA TableDropElse ==
  ASSUME NEW rm \in RouteMaps, NEW s \in Stages, NEW t \in Stages, t # s
  PROVE  /\ RemoveRoute(rm, s).dep[t] = rm.dep[t]
         /\ RemoveRoute(rm, s).main = t => rm.main = t
  BY NoStageAssumption DEF RemoveRoute, RouteMaps

\* The documents are a collection with unique ids.
LEMMA UniqueDocs == PoliteInv => docs \in Seq(DocRecs) /\ UniqueIds(docs)
  BY DEF PoliteInv, TypeOK, OneDocPerId, UniqueIds

\* A handler's step concerns its own deployment only.
LEMMA HandleLeaves ==
  ASSUME PoliteInv, NEW c \in Clients, Handle(c), NEW t \in Stages, t # req[c].id
  PROVE  Leaves(t)
<1> DEFINE s == req[c].id
           d == req[c].dep
<1>1. /\ req[c] # Idle
      /\ Moves(c, After(req[c].pc, req[c].op))
  BY HandleMoves DEF PoliteInv
<1>2. /\ s \in Stages /\ d \in DocRecs /\ d.id = s /\ req[c].at \in Instances
      /\ docs \in Seq(DocRecs) /\ UniqueIds(docs)
  BY <1>1, InFlight, UniqueDocs DEF PoliteInv, Requests, OwnCopy
<1> HIDE DEF d
<1>3. KeepsDoc(t)
  <2>1. CASE docs' = docs
    BY <2>1 DEF KeepsDoc
  <2>2. CASE docs' = DeleteOne(docs, s)
    BY <1>2, <2>2, DeleteFinds DEF KeepsDoc
  <2>3. CASE docs' = InsertOne(docs, d)
    BY <1>2, <2>3, InsertFinds DEF KeepsDoc
  <2>4. CASE docs' = ReplaceOne(docs, d)
    BY <1>2, <2>4, ReplaceFinds DEF KeepsDoc
  <2> QED
    BY <2>1, <2>2, <2>3, <2>4, HandleDocs DEF PoliteInv, d
<1>4. KeepsWork(t)
  <2>1. \A e \in Clients : Asks(e, t)' => Asks(e, t)
    BY <1>1 DEF Moves, Asks
  <2>2. \A e \in Clients : Asks(e, t) => req'[e] = req[e]
    BY <1>1 DEF Moves, Asks
  <2>3. /\ \A k \in Jobs : Serves(k, t)' => Serves(k, t)
        /\ \A k \in Jobs : Serves(k, t) => job'[k] = job[k]
    <3>1. CASE job' = job
      BY <3>1 DEF Serves
    <3>2. CASE CreateDeployment(c)
      <4>1. PICK k \in Jobs :
              /\ job[k] = Idle
              /\ job' = [job EXCEPT ![k] = [pc |-> "build", id |-> req[c].id,
                                            at |-> req[c].at, port |-> req[c].dep.port]]
        BY <3>2 DEF CreateDeployment
      <4>2. job'[k].id = s /\ \A j \in Jobs \ {k} : job'[j] = job[j]
        BY <4>1 DEF PoliteInv, TypeOK
      <4> QED
        BY <4>1, <4>2 DEF Serves
    <3> QED
      BY <3>1, <3>2 DEF Handle, StopBackendService, StartBackendService,
         DisableBackendService, RemoveBackendServiceFile, RemoveDeployment,
         DeleteDeployment, RemoveBinary, ResetStage, GetReadyStage, AllocatePort,
         UpdateDeployment, UpdateProxy, CallFails
  <2> QED
    BY <2>1, <2>2, <2>3 DEF KeepsWork
<1>5. KeepsRoute(t)
  <2>1. route \in [Instances -> RouteMaps]
    BY DEF PoliteInv, TypeOK
  <2>2. CASE RemoveDeployment(c)
    <3>1. route' = [route EXCEPT ![req[c].at] = RemoveRoute(route[req[c].at], s)]
      BY <2>2 DEF RemoveDeployment
    <3> QED
      BY <1>2, <2>1, <3>1, TableDropElse DEF KeepsRoute
  <2>3. CASE UpdateProxy(c)
    <3>1. route' = [route EXCEPT ![req[c].at] = UpdateRoute(route[req[c].at], d)]
      BY <2>3 DEF UpdateProxy, d
    <3> QED
      BY <1>2, <2>1, <3>1, TableElse DEF KeepsRoute
  <2>4. CASE route' = route
    BY <2>4 DEF KeepsRoute
  <2> QED
    BY <2>2, <2>3, <2>4 DEF Handle, StopBackendService, StartBackendService,
       DisableBackendService, RemoveBackendServiceFile, DeleteDeployment, RemoveBinary,
       ResetStage, GetReadyStage, AllocatePort, CreateDeployment, UpdateDeployment, CallFails
<1>6. KeepsUnit(t)
  <2>1. file'[t] = file[t] /\ proc'[t] = proc[t]
    BY <1>2 DEF PoliteInv, TypeOK, Handle, StopBackendService, StartBackendService,
       DisableBackendService, RemoveBackendServiceFile, RemoveDeployment,
       DeleteDeployment, RemoveBinary, ResetStage, GetReadyStage, AllocatePort,
       CreateDeployment, UpdateDeployment, UpdateProxy, CallFails
  <2>2. OwnBinaries => (Built(t)' <=> Built(t))
    BY <1>2 DEF OwnBinaries, Built, Handle, StopBackendService, StartBackendService,
       DisableBackendService, RemoveBackendServiceFile, RemoveDeployment,
       DeleteDeployment, RemoveBinary, ResetStage, GetReadyStage, AllocatePort,
       CreateDeployment, UpdateDeployment, UpdateProxy, CallFails
  <2>3. mishaps' = 0 => mishaps = 0
    BY MishapAssumption DEF PoliteInv, TypeOK, Mishap, Handle, StopBackendService,
       StartBackendService, DisableBackendService, RemoveBackendServiceFile,
       RemoveDeployment, DeleteDeployment, RemoveBinary, ResetStage, GetReadyStage,
       AllocatePort, CreateDeployment, UpdateDeployment, UpdateProxy, CallFails
  <2> QED
    BY <2>1, <2>2, <2>3 DEF KeepsUnit
<1> QED
  BY <1>3, <1>4, <1>5, <1>6 DEF Leaves

\* A call of a handler keeps copies true, its own and those of others.
LEMMA HandleCopies ==
  ASSUME CopyInv, NEW c \in Clients, Handle(c), NEW s \in Stages, req[c].id = s
  PROVE  Copies(s)' /\ Provisions(s)'
<1> DEFINE d == req[c].dep
<1>0. PoliteInv /\ TypeOK
  BY DEF CopyInv, PoliteInv
<1>1. /\ req[c] # Idle
      /\ Moves(c, After(req[c].pc, req[c].op))
  BY <1>0, HandleMoves
<1>2. /\ d \in DocRecs /\ d.id = s /\ req[c].at \in Instances
      /\ req[c].pc \in RequestPcs
      /\ docs \in Seq(DocRecs) /\ UniqueIds(docs)
  BY <1>0, <1>1, InFlight, UniqueDocs DEF PoliteInv, Requests, OwnCopy
<1>3. \A e \in Clients : Asks(e, s)' => e = c
  BY <1>0, <1>1 DEF PoliteInv, Exclusive, Moves, Asks
<1>4. TrueCopy(req[c])
  BY <1>1, <1>2 DEF CopyInv, Copies, Asks
<1>5. (req[c].pc # "route" \/ req[c].op # "deploy") => \A k \in Jobs : ~Serves(k, s)
  BY <1>1, <1>2 DEF CopyInv, Provisions, Asks
<1>6. Provisions(s)
  BY <1>2 DEF CopyInv
<1>7. PcOps
  BY <1>0 DEF PoliteInv
<1> HIDE DEF d
\* It is enough to look at the copy of c and, when there may be one, the goroutine.
<1>8. ASSUME req'[c] # Idle => TrueCopy(req[c])' PROVE Copies(s)'
  BY <1>3, <1>8 DEF Copies, Asks
<1>9. ASSUME job' = job, req[c].pc # "route" PROVE Provisions(s)'
  BY <1>5, <1>9 DEF Provisions, Serves
<1>10. ASSUME Finish(c), job' = job, docs' = docs PROVE Copies(s)' /\ Provisions(s)'
  <2>1. req'[c] = Idle
    BY <1>0, <1>10 DEF Finish, TypeOK
  <2>2. Copies(s)'
    BY <1>8, <2>1
  <2>3. \A e \in Clients : ~Asks(e, s)'
    BY <1>3, <2>1 DEF Asks
  <2>4. Provisions(s)'
    BY <1>6, <1>10, <2>3 DEF Provisions, Serves, JobDoc
  <2> QED
    BY <2>2, <2>4
<1>11. CASE StopBackendService(c)
  <2>1. CASE req[c].op = "shutdown"
    <3>1. GotoWith(c, "replace", [d EXCEPT !.status = "stopped", !.promoted = FALSE])
      BY <1>11, <2>1 DEF StopBackendService, d
    <3> DEFINE e == [d EXCEPT !.status = "stopped", !.promoted = FALSE]
    <3>2. e.status = "stopped" /\ e.port = d.port
      BY <1>2 DEF DocRecs
    <3> HIDE DEF e
    <3>3. Advances(c, "replace", e)
      BY <1>0, <1>1, <3>1, GotoWithAdvances DEF RequestPcs, e
    <3>4. TrueCopy(req[c])'
      BY <1>4, <1>11, <2>1, <3>2, <3>3
         DEF TrueCopy, Revises, Advances, StopBackendService, At, ReadPcs, d
    <3> QED
      BY <1>8, <1>9, <1>11, <3>4 DEF StopBackendService, At
  <2>2. CASE req[c].op # "shutdown"
    <3>1. Advances(c, "disable", d)
      BY <1>0, <1>1, <1>11, <2>2, GotoAdvances DEF StopBackendService, RequestPcs, d
    <3>2. TrueCopy(req[c])'
      BY <1>4, <1>11, <3>1 DEF TrueCopy, Advances, StopBackendService, At, ReadPcs, d
    <3> QED
      BY <1>8, <1>9, <1>11, <3>2 DEF StopBackendService, At
  <2> QED
    BY <2>1, <2>2
<1>12. CASE StartBackendService(c)
  <2>1. CASE Finish(c)
    BY <1>10, <1>12, <2>1 DEF StartBackendService
  <2>2. CASE GotoWith(c, "replace", [d EXCEPT !.status = "ready"])
    <3> DEFINE e == [d EXCEPT !.status = "ready"]
    <3>1. e.status = "ready" /\ e.port = d.port
      BY <1>2 DEF DocRecs
    <3> HIDE DEF e
    <3>2. Advances(c, "replace", e)
      BY <1>0, <1>1, <2>2, GotoWithAdvances DEF RequestPcs, e
    <3>3. req[c].op = "start"
      BY <1>1, <1>7, <1>12 DEF PcOps, StartBackendService, At
    <3>4. TrueCopy(req[c])'
      BY <1>4, <1>12, <3>1, <3>2, <3>3
         DEF TrueCopy, Revises, Advances, StartBackendService, At, ReadPcs, d
    <3> QED
      BY <1>8, <1>9, <1>12, <3>4 DEF StartBackendService, At
  <2> QED
    BY <1>12, <2>1, <2>2 DEF StartBackendService, d
<1>13. CASE DisableBackendService(c) \/ RemoveBackendServiceFile(c) \/ RemoveDeployment(c)
  <2>1. docs' = docs /\ job' = job /\ req[c].pc \in ReadPcs /\ req[c].pc # "route"
    BY <1>13 DEF DisableBackendService, RemoveBackendServiceFile, RemoveDeployment, At, ReadPcs
  <2>2. ASSUME NEW pc \in {"rmunit", "unroute", "deldoc"}, Goto(c, pc)
        PROVE  TrueCopy(req[c])'
    <3>1. Advances(c, pc, d)
      BY <1>0, <1>1, <2>2, GotoAdvances DEF RequestPcs, d
    <3> QED
      BY <1>4, <2>1, <3>1 DEF TrueCopy, Advances, ReadPcs, d
  <2>3. Finish(c) \/ \E pc \in {"rmunit", "unroute", "deldoc"} : Goto(c, pc)
    BY <1>13 DEF DisableBackendService, RemoveBackendServiceFile, RemoveDeployment
  <2> QED
    BY <1>8, <1>9, <1>10, <2>1, <2>2, <2>3
<1>14. CASE DeleteDeployment(c) \/ RemoveBinary(c)
  <2>1. job' = job /\ req[c].pc # "route"
    BY <1>14 DEF DeleteDeployment, RemoveBinary, At
  <2>2. PICK pc \in {"rmbin", "resetstage"} : Goto(c, pc)
    BY <1>14 DEF DeleteDeployment, RemoveBinary
  <2>3. Advances(c, pc, d)
    BY <1>0, <1>1, <2>2, GotoAdvances DEF RequestPcs, d
  <2>4. TrueCopy(req[c])'
    BY <2>3 DEF TrueCopy, Advances, ReadPcs
  <2> QED
    BY <1>8, <1>9, <2>1, <2>4
<1>15. CASE ResetStage(c)
  <2>1. job' = job /\ docs' = docs /\ req[c].pc # "route"
    BY <1>15 DEF ResetStage, At
  <2>2. CASE GotoWith(c, "getstage", NewDoc(req[c].id))
    <3>1. Advances(c, "getstage", NewDoc(s))
      BY <1>0, <1>1, <2>2, GotoWithAdvances DEF RequestPcs
    <3>2. TrueCopy(req[c])'
      BY <3>1 DEF TrueCopy, Advances, ReadPcs, NewDoc
    <3> QED
      BY <1>8, <1>9, <2>1, <3>2
  <2> QED
    BY <1>10, <1>15, <2>1, <2>2 DEF ResetStage
<1>16. CASE GetReadyStage(c)
  <2>1. job' = job /\ docs' = docs /\ req[c].pc = "getstage"
    BY <1>16 DEF GetReadyStage, At
  <2>2. CASE Goto(c, "port")
    <3>1. Advances(c, "port", d)
      BY <1>0, <1>1, <2>2, GotoAdvances DEF RequestPcs, d
    <3>2. TrueCopy(req[c])'
      BY <1>4, <2>1, <3>1 DEF TrueCopy, Advances, ReadPcs, d
    <3> QED
      BY <1>8, <1>9, <2>1, <3>2
  <2> QED
    BY <1>10, <1>16, <2>1, <2>2 DEF GetReadyStage
<1>17. CASE AllocatePort(c)
  <2>1. job' = job /\ docs' = docs /\ req[c].pc = "port"
    BY <1>17 DEF AllocatePort, At
  <2>2. ASSUME NEW p \in FreePorts, GotoWith(c, "insert", [d EXCEPT !.port = p])
        PROVE  TrueCopy(req[c])'
    <3> DEFINE e == [d EXCEPT !.port = p]
    <3>1. e.status = d.status /\ e.promoted = d.promoted /\ e.port \in Ports
      BY <1>2 DEF DocRecs, FreePorts
    <3> HIDE DEF e
    <3>2. Advances(c, "insert", e)
      BY <1>0, <1>1, <2>2, GotoWithAdvances DEF RequestPcs, e
    <3> QED
      BY <1>4, <2>1, <3>1, <3>2 DEF TrueCopy, Advances, ReadPcs, d
  <2>3. Finish(c) \/ \E p \in FreePorts : GotoWith(c, "insert", [d EXCEPT !.port = p])
    BY <1>17 DEF AllocatePort, d
  <2> QED
    BY <1>8, <1>9, <1>10, <2>1, <2>2, <2>3
<1>18. CASE CreateDeployment(c)
  <2>1. /\ req[c].pc = "insert" /\ docs' = InsertOne(docs, d)
        /\ Goto(c, "route")
    BY <1>18 DEF CreateDeployment, At, d
  <2>2. PICK k \in Jobs :
          /\ job[k] = Idle
          /\ job' = [job EXCEPT ![k] = [pc |-> "build", id |-> req[c].id,
                                        at |-> req[c].at, port |-> req[c].dep.port]]
    BY <1>18 DEF CreateDeployment
  <2>3. Advances(c, "route", d)
    BY <1>0, <1>1, <2>1, GotoAdvances DEF RequestPcs, d
  <2>4. req[c].op = "deploy"
    BY <1>1, <1>7, <2>1 DEF PcOps
  <2>5. TrueCopy(req[c])'
    BY <1>4, <2>1, <2>3, <2>4 DEF TrueCopy, Advances, ReadPcs, d
  <2>6. /\ job'[k].pc = "build" /\ job'[k].id = s /\ job'[k].port = d.port
        /\ \A j \in Jobs \ {k} : job'[j] = job[j]
    BY <1>0, <2>2 DEF TypeOK, d
  <2>7. \A j \in Jobs : Serves(j, s)' => j = k
    BY <1>5, <2>1, <2>6 DEF Serves
  <2>8. ~Found(docs, s)
    BY <1>0, <1>1, <1>2, <2>1 DEF PoliteInv, Absent, AbsentPcs
  <2>9. Found(docs', s) /\ FindOne(docs', s) = d
    <3>1. Len(docs) + 1 \in DOMAIN docs' /\ docs'[Len(docs) + 1] = d
      BY <1>2, <2>1 DEF InsertOne
    <3>2. docs' \in Seq(DocRecs) /\ UniqueIds(docs')
      BY <1>2, <2>1, <2>8, InsertOneUnique DEF InsertOne
    <3> QED
      BY <1>2, <3>1, <3>2, UniqueFinds
  <2>10. d = [id |-> s, port |-> d.port, status |-> "provisioning", promoted |-> FALSE]
         /\ d.port \in Ports
    BY <1>2, <1>4, <2>1, <2>4 DEF TrueCopy, DocRecs, d
  <2>11. \A e \in Clients : Asks(e, s)' => req'[e].pc = "route" /\ req'[e].op = "deploy"
    BY <1>3, <2>3, <2>4 DEF Advances
  <2>12. Provisions(s)'
    BY <2>6, <2>7, <2>9, <2>10, <2>11 DEF Provisions, JobDoc
  <2> QED
    BY <1>8, <2>5, <2>12
<1>19. CASE UpdateDeployment(c)
  <2>1. /\ req[c].pc = "replace" /\ docs' = ReplaceOne(docs, d)
        /\ Goto(c, "route") /\ job' = job
    BY <1>19 DEF UpdateDeployment, At, d
  <2>2. Advances(c, "route", d)
    BY <1>0, <1>1, <2>1, GotoAdvances DEF RequestPcs, d
  <2>3. req[c].op # "deploy" /\ Found(docs, s)
    BY <1>1, <1>2, <1>4, <1>7, <2>1 DEF PcOps, TrueCopy
  <2>4. Found(docs', s) /\ FindOne(docs', s) = d
    BY <1>2, <2>1, <2>3, ReplaceFinds
  <2>5. TrueCopy(req[c])'
    BY <1>2, <2>2, <2>3, <2>4 DEF TrueCopy, Advances, ReadPcs
  <2> QED
    BY <1>8, <1>9, <2>1, <2>5
<1>20. CASE UpdateProxy(c) \/ CallFails(c)
  BY <1>10, <1>20 DEF UpdateProxy, CallFails
<1> QED
  BY <1>11, <1>12, <1>13, <1>14, <1>15, <1>16, <1>17, <1>18, <1>19, <1>20 DEF Handle

\* Parts that a step leaves alone keep what the invariant says of them.
LEMMA CopiesFrame ==
  ASSUME NEW s \in Stages, Copies(s), Provisions(s), KeepsDoc(s),
         \A c \in Clients : Asks(c, s)' => Asks(c, s) /\ req'[c] = req[c],
         \A k \in Jobs : Serves(k, s)' => Serves(k, s) /\ job'[k] = job[k]
  PROVE  Copies(s)' /\ Provisions(s)'
<1>1. Copies(s)'
  BY DEF Copies, TrueCopy, Asks, KeepsDoc
<1>2. Provisions(s)'
  BY DEF Provisions, KeepsDoc, JobDoc, Serves, Asks
<1> QED
  BY <1>1, <1>2

\* What the steps of a goroutine have in common.
LEMMA ProvisionMoves ==
  ASSUME TypeOK, NEW k \in Jobs, ProvisionDeployment(k)
  PROVE  /\ job[k] # Idle /\ req' = req
         /\ \A j \in Jobs \ {k} : job'[j] = job[j]
         /\ job'[k] # Idle => job'[k].id = job[k].id
<1>1. job[k] # Idle /\ req' = req
  BY DEF ProvisionDeployment, BuildBackend, WriteBackendUnit, EnableBackendUnit,
     RestartBackendUnit, ProvisionFails, RecordFailure, RecordReady, PublishRoute, JobAt
<1>2. JobEnd(k) \/ \E pc \in JobPcs : JobGoto(k, pc)
  BY DEF ProvisionDeployment, BuildBackend, WriteBackendUnit, EnableBackendUnit,
     RestartBackendUnit, ProvisionFails, RecordFailure, RecordReady, PublishRoute, JobPcs
<1> QED
  BY <1>1, <1>2, JobEndFact, JobGotoAdvances DEF JobAdvances

\* A goroutine's step concerns its own deployment only.
LEMMA ProvisionLeaves ==
  ASSUME PoliteInv, NEW k \in Jobs, ProvisionDeployment(k), NEW t \in Stages, t # job[k].id
  PROVE  Leaves(t)
<1> DEFINE s == job[k].id
<1>0. TypeOK
  BY DEF PoliteInv
<1>1. /\ job[k] # Idle /\ req' = req
      /\ \A j \in Jobs \ {k} : job'[j] = job[j]
      /\ job'[k] # Idle => job'[k].id = s
  BY <1>0, ProvisionMoves
<1>2. s \in Stages /\ job[k].at \in Instances /\ docs \in Seq(DocRecs)
  BY <1>0, <1>1, InFlight, UniqueDocs DEF JobRecs
<1>3. \A st \in Statuses : JobDoc(k, st) \in DocRecs /\ JobDoc(k, st).id = s
  BY <1>0, <1>1, JobDocType DEF JobDoc
<1>4. KeepsDoc(t)
  <2>1. docs' = docs \/ \E st \in Statuses : docs' = ReplaceOne(docs, JobDoc(k, st))
    BY DEF ProvisionDeployment, BuildBackend, WriteBackendUnit, EnableBackendUnit,
       RestartBackendUnit, ProvisionFails, RecordFailure, RecordReady, PublishRoute, Statuses
  <2> QED
    BY <1>2, <1>3, <2>1, ReplaceFinds DEF KeepsDoc
<1>5. KeepsWork(t)
  BY <1>1 DEF KeepsWork, Asks, Serves
<1>6. KeepsRoute(t)
  <2>1. route \in [Instances -> RouteMaps]
    BY <1>0 DEF TypeOK
  <2>2. CASE PublishRoute(k)
    <3>1. route' = [route EXCEPT ![job[k].at] = UpdateRoute(route[job[k].at], JobDoc(k, "ready"))]
      BY <2>2 DEF PublishRoute
    <3>2. JobDoc(k, "ready") \in DocRecs /\ JobDoc(k, "ready").id = s
      BY <1>3 DEF Statuses
    <3> QED
      BY <1>2, <2>1, <3>1, <3>2, TableElse DEF KeepsRoute
  <2>3. CASE route' = route
    BY <2>3 DEF KeepsRoute
  <2> QED
    BY <2>2, <2>3 DEF ProvisionDeployment, BuildBackend, WriteBackendUnit,
       EnableBackendUnit, RestartBackendUnit, ProvisionFails, RecordFailure, RecordReady
<1>7. KeepsUnit(t)
  <2>1. file'[t] = file[t] /\ proc'[t] = proc[t]
    BY <1>0, <1>2 DEF TypeOK, ProvisionDeployment, BuildBackend, WriteBackendUnit,
       EnableBackendUnit, RestartBackendUnit, ProvisionFails, RecordFailure, RecordReady,
       PublishRoute
  <2>2. OwnBinaries => (Built(t)' <=> Built(t))
    BY <1>2 DEF OwnBinaries, Built, ProvisionDeployment, BuildBackend, WriteBackendUnit,
       EnableBackendUnit, RestartBackendUnit, ProvisionFails, RecordFailure, RecordReady,
       PublishRoute
  <2>3. mishaps' = 0 => mishaps = 0
    BY <1>0, MishapAssumption DEF TypeOK, Mishap, ProvisionDeployment, BuildBackend,
       WriteBackendUnit, EnableBackendUnit, RestartBackendUnit, ProvisionFails,
       RecordFailure, RecordReady, PublishRoute
  <2> QED
    BY <2>1, <2>2, <2>3 DEF KeepsUnit
<1> QED
  BY <1>4, <1>5, <1>6, <1>7 DEF Leaves

\* A step of a goroutine keeps copies true: no handler works on its stage.
LEMMA ProvisionCopies ==
  ASSUME CopyInv, NEW k \in Jobs, ProvisionDeployment(k), NEW s \in Stages, job[k].id = s
  PROVE  Copies(s)' /\ Provisions(s)'
<1>0. PoliteInv /\ TypeOK /\ Copies(s) /\ Provisions(s) /\ docs \in Seq(DocRecs)
  BY DEF CopyInv, PoliteInv, TypeOK
<1>1. /\ job[k] # Idle /\ req' = req
      /\ \A j \in Jobs \ {k} : job'[j] = job[j]
      /\ job'[k] # Idle => job'[k].id = s
  BY <1>0, ProvisionMoves
<1>2. /\ job[k].port \in Ports /\ Found(docs, s)
      /\ FindOne(docs, s) = JobDoc(k, IF job[k].pc = "route" THEN "ready" ELSE "provisioning")
      /\ \A j \in Jobs : Serves(j, s) => j = k
      /\ \A c \in Clients : Asks(c, s) => req[c].pc = "route" /\ req[c].op = "deploy"
  BY <1>0, <1>1 DEF Provisions, Serves
<1>3. Copies(s)'
  BY <1>0, <1>1, <1>2 DEF Copies, TrueCopy, Asks, ReadPcs
<1>4. \A j \in Jobs : Serves(j, s)' => j = k
  BY <1>1, <1>2 DEF Serves
<1>5. ASSUME JobEnd(k) PROVE Provisions(s)'
  BY <1>0, <1>4, <1>5, JobEndFact DEF Provisions, Serves
<1>6. ASSUME NEW pc \in JobPcs, JobGoto(k, pc), docs' = docs, job[k].pc # "route", pc # "route"
      PROVE  Provisions(s)'
  <2>1. JobAdvances(k, pc)
    BY <1>0, <1>1, <1>6, JobGotoAdvances
  <2>2. FindOne(docs', s) = JobDoc(k, "provisioning")' /\ Found(docs', s)
    BY <1>2, <1>6, <2>1 DEF JobDoc, JobAdvances
  <2>3. job'[k].pc # "route" /\ job'[k].port \in Ports
    BY <1>2, <1>6, <2>1 DEF JobAdvances
  <2> QED
    BY <1>1, <1>2, <1>4, <2>2, <2>3 DEF Provisions, Asks
<1>7. CASE RecordReady(k)
  <2>1. job[k].pc = "ready"
    BY <1>7 DEF RecordReady, JobAt
  <2>2. CASE docs' = ReplaceOne(docs, JobDoc(k, "ready")) /\ JobGoto(k, "route")
    <3>1. JobAdvances(k, "route")
      BY <1>0, <1>1, <2>2, JobGotoAdvances DEF JobPcs
    <3>2. JobDoc(k, "ready") \in DocRecs /\ JobDoc(k, "ready").id = s
      BY <1>0, <1>1, JobDocType DEF JobDoc, Statuses
    <3>3. Found(docs', s) /\ FindOne(docs', s) = JobDoc(k, "ready")
      BY <1>0, <1>2, <2>2, <3>2, ReplaceFinds
    <3>4. FindOne(docs', s) = JobDoc(k, "ready")'
      BY <3>1, <3>3 DEF JobDoc, JobAdvances
    <3> QED
      BY <1>1, <1>2, <1>3, <1>4, <3>1, <3>3, <3>4 DEF Provisions, Asks, JobAdvances
  <2> QED
    BY <1>3, <1>5, <1>7, <2>2 DEF RecordReady
<1>8. CASE BuildBackend(k) \/ WriteBackendUnit(k) \/ EnableBackendUnit(k)
           \/ RestartBackendUnit(k) \/ ProvisionFails(k)
  <2>1. docs' = docs /\ job[k].pc # "route" /\ \E pc \in JobPcs \ {"route"} : JobGoto(k, pc)
    BY <1>8 DEF BuildBackend, WriteBackendUnit, EnableBackendUnit, RestartBackendUnit,
       ProvisionFails, JobAt, JobPcs
  <2> QED
    BY <1>3, <1>6, <2>1
<1>9. CASE RecordFailure(k) \/ PublishRoute(k)
  BY <1>3, <1>5, <1>9 DEF RecordFailure, PublishRoute
<1> QED
  BY <1>7, <1>8, <1>9 DEF ProvisionDeployment

\* What a new request brings with it: the document it found, as it is or with
\* the promotion it asks for, or a new one when none was found.
Enters(s, op, pc, d) ==
  \/ /\ pc \in {"stop", "start", "disable"}
     /\ Found(docs, s) /\ d = FindOne(docs, s)
     /\ pc = "disable" => d.status # "ready"
  \/ /\ pc = "replace" /\ op = "promote"
     /\ Found(docs, s) /\ d = [FindOne(docs, s) EXCEPT !.promoted = TRUE]
  \/ /\ pc = "getstage" /\ op = "deploy"
     /\ ~Found(docs, s) /\ d = NewDoc(s)

\* Every request enters in one of those ways.
LEMMA RequestEnters ==
  ASSUME NEW c \in Clients, Request(c)
  PROVE  \E i \in Instances, s \in Stages, op \in Ops, pc \in RequestPcs : \E d :
           Begin(c, i, s, op, pc, d) /\ Enters(s, op, pc, d)
<1>1. PICK i \in Instances, s \in Stages :
        \/ CreateDeploymentHandler(c, i, s)
        \/ PromoteDeploymentHandler(c, i, s)
        \/ ShutdownDeploymentHandler(c, i, s)
        \/ StartDeploymentHandler(c, i, s)
        \/ \E op \in {"delete", "force_delete"} : DeleteDeploymentHandler(c, i, s, op)
  BY DEF Request
<1> DEFINE d == FindOne(docs, s)
<1>2. TeardownPc(d) \in {"stop", "disable"} /\ (TeardownPc(d) = "disable" => d.status # "ready")
  BY DEF TeardownPc
<1>3. {"stop", "start", "disable", "replace", "getstage"} \subseteq RequestPcs
  BY DEF RequestPcs
<1>4. CASE CreateDeploymentHandler(c, i, s)
  <2>1. CASE Found(docs, s)
    <3>1. /\ Begin(c, i, s, "deploy", TeardownPc(d), d)
          /\ Enters(s, "deploy", TeardownPc(d), d)
      BY <1>2, <1>4, <2>1 DEF CreateDeploymentHandler, Enters
    <3> QED
      BY <1>2, <1>3, <3>1 DEF Ops
  <2>2. CASE ~Found(docs, s)
    <3>1. /\ Begin(c, i, s, "deploy", "getstage", NewDoc(s))
          /\ Enters(s, "deploy", "getstage", NewDoc(s))
      BY <1>4, <2>2 DEF CreateDeploymentHandler, Enters
    <3> QED
      BY <1>3, <3>1 DEF Ops
  <2> QED
    BY <2>1, <2>2
<1>5. CASE PromoteDeploymentHandler(c, i, s)
  <2>1. /\ Begin(c, i, s, "promote", "replace", [d EXCEPT !.promoted = TRUE])
        /\ Enters(s, "promote", "replace", [d EXCEPT !.promoted = TRUE])
    BY <1>5 DEF PromoteDeploymentHandler, Enters
  <2> QED
    BY <1>3, <2>1 DEF Ops
<1>6. CASE ShutdownDeploymentHandler(c, i, s)
  <2>1. Begin(c, i, s, "shutdown", "stop", d) /\ Enters(s, "shutdown", "stop", d)
    BY <1>6 DEF ShutdownDeploymentHandler, Enters
  <2> QED
    BY <1>3, <2>1 DEF Ops
<1>7. CASE StartDeploymentHandler(c, i, s)
  <2>1. Begin(c, i, s, "start", "start", d) /\ Enters(s, "start", "start", d)
    BY <1>7 DEF StartDeploymentHandler, Enters
  <2> QED
    BY <1>3, <2>1 DEF Ops
<1>8. ASSUME NEW op \in {"delete", "force_delete"}, DeleteDeploymentHandler(c, i, s, op)
      PROVE  \E e \in Ops, pc \in RequestPcs : \E f :
               Begin(c, i, s, e, pc, f) /\ Enters(s, e, pc, f)
  <2>1. Begin(c, i, s, op, TeardownPc(d), d) /\ Enters(s, op, TeardownPc(d), d)
    BY <1>2, <1>8 DEF DeleteDeploymentHandler, Enters
  <2> QED
    BY <1>2, <1>3, <1>8, <2>1 DEF Ops
<1> QED
  BY <1>1, <1>4, <1>5, <1>6, <1>7, <1>8

\* What a request that begins changes: its own record.
LEMMA BeginFact ==
  ASSUME TypeOK, NEW c \in Clients, NEW i, NEW s, NEW op, NEW pc \in RequestPcs, NEW d,
         Begin(c, i, s, op, pc, d)
  PROVE  /\ req[c] = Idle /\ req'[c] # Idle
         /\ req'[c].pc = pc /\ req'[c].op = op /\ req'[c].id = s /\ req'[c].dep = d
         /\ \A e \in Clients \ {c} : req'[e] = req[e]
         /\ UNCHANGED <<docs, stage, file, proc, bins, route, job, mishaps>>
         /\ Polite => Quiet(s)
<1>1. /\ req[c] = Idle
      /\ Polite => Quiet(s)
      /\ req' = [req EXCEPT ![c] = [pc |-> pc, op |-> op, id |-> s, at |-> i, dep |-> d]]
      /\ UNCHANGED <<docs, stage, file, proc, bins, route, job, mishaps>>
  BY DEF Begin
<1>2. /\ req'[c] = [pc |-> pc, op |-> op, id |-> s, at |-> i, dep |-> d]
      /\ \A e \in Clients \ {c} : req'[e] = req[e]
  BY <1>1 DEF TypeOK
<1>3. req'[c] # Idle
  BY <1>2 DEF Idle, RequestPcs
<1> QED
  BY <1>1, <1>2, <1>3

\* A new request concerns its own deployment only.
LEMMA BeginLeaves ==
  ASSUME TypeOK, NEW c \in Clients, NEW i, NEW s, NEW op, NEW pc \in RequestPcs, NEW d,
         Begin(c, i, s, op, pc, d), NEW t \in Stages, t # s
  PROVE  Leaves(t)
<1>1. /\ req[c] = Idle /\ req'[c] # Idle /\ req'[c].id = s
      /\ \A e \in Clients \ {c} : req'[e] = req[e]
      /\ UNCHANGED <<docs, stage, file, proc, bins, route, job, mishaps>>
  BY BeginFact
<1>2. KeepsWork(t)
  BY <1>1 DEF KeepsWork, Asks, Serves
<1> QED
  BY <1>1, <1>2 DEF Leaves, KeepsDoc, KeepsRoute, KeepsUnit, Built

\* A polite request enters with the document as it is.
LEMMA BeginCopies ==
  ASSUME CopyInv, Polite, NEW c \in Clients, NEW i, NEW s \in Stages, NEW op \in Ops,
         NEW pc \in RequestPcs, NEW d, Begin(c, i, s, op, pc, d), Enters(s, op, pc, d)
  PROVE  Copies(s)' /\ Provisions(s)'
<1>0. TypeOK /\ docs \in Seq(DocRecs)
  BY DEF CopyInv, PoliteInv, TypeOK
<1>1. /\ req'[c] # Idle
      /\ req'[c].pc = pc /\ req'[c].op = op /\ req'[c].id = s /\ req'[c].dep = d
      /\ \A e \in Clients \ {c} : req'[e] = req[e]
      /\ docs' = docs /\ job' = job
      /\ \A e \in Clients : req[e] # Idle => req[e].id # s
      /\ \A k \in Jobs : job[k] # Idle => job[k].id # s
  BY <1>0, BeginFact DEF Quiet
<1>2. TrueCopy(req[c])'
  <2>1. CASE pc = "replace"
    <3>1. FindOne(docs, s) \in DocRecs
      BY <1>0, <2>1, FindOneFact DEF Enters
    <3>2. d.port = FindOne(docs, s).port /\ d.status = FindOne(docs, s).status
      BY <2>1, <3>1 DEF Enters, DocRecs
    <3> QED
      BY <1>1, <2>1, <3>2 DEF Enters, TrueCopy, Revises, ReadPcs
  <2>2. CASE pc # "replace"
    BY <1>1, <2>2 DEF Enters, TrueCopy, ReadPcs, NewDoc
  <2> QED
    BY <2>1, <2>2
<1>3. Copies(s)'
  BY <1>1, <1>2 DEF Copies, Asks
<1>4. Provisions(s)'
  BY <1>1 DEF Provisions, Serves
<1> QED
  BY <1>3, <1>4

\* The facts about copies are inductive, given PoliteInv.
LEMMA CopyStep ==
  ASSUME Polite, CopyInv, [Next]_vars, PoliteInv'
  PROVE  CopyInv'
<1>0. PoliteInv /\ TypeOK
  BY DEF CopyInv, PoliteInv
<1> SUFFICES ASSUME NEW t \in Stages PROVE Copies(t)' /\ Provisions(t)'
  BY DEF CopyInv
<1>1. Copies(t) /\ Provisions(t)
  BY DEF CopyInv
<1>2. ASSUME Leaves(t) PROVE Copies(t)' /\ Provisions(t)'
  BY <1>1, <1>2, CopiesFrame DEF Leaves, KeepsWork
<1>3. ASSUME NEW c \in Clients, Request(c) PROVE Copies(t)' /\ Provisions(t)'
  <2>0. PICK i \in Instances, s \in Stages, op \in Ops, pc \in RequestPcs : \E d :
          Begin(c, i, s, op, pc, d) /\ Enters(s, op, pc, d)
    BY <1>3, RequestEnters
  <2>1. PICK d : Begin(c, i, s, op, pc, d) /\ Enters(s, op, pc, d)
    BY <2>0
  <2> QED
    BY <1>0, <1>2, <2>1, BeginLeaves, BeginCopies
<1>4. ASSUME NEW c \in Clients, Handle(c) PROVE Copies(t)' /\ Provisions(t)'
  BY <1>0, <1>2, <1>4, HandleLeaves, HandleCopies
<1>5. ASSUME NEW k \in Jobs, ProvisionDeployment(k) PROVE Copies(t)' /\ Provisions(t)'
  BY <1>0, <1>2, <1>5, ProvisionLeaves, ProvisionCopies
<1>6. ASSUME docs' = docs,
             \A c \in Clients : req'[c] = Idle \/ req'[c] = req[c],
             \A k \in Jobs : job'[k] = Idle \/ job'[k] = job[k]
      PROVE  Copies(t)' /\ Provisions(t)'
  <2>1. /\ \A c \in Clients : Asks(c, t)' => Asks(c, t) /\ req'[c] = req[c]
        /\ \A k \in Jobs : Serves(k, t)' => Serves(k, t) /\ job'[k] = job[k]
    BY <1>6 DEF Asks, Serves
  <2> QED
    BY <1>1, <1>6, <2>1, CopiesFrame DEF KeepsDoc
<1>7. ASSUME NEW s \in Stages, StageChanges(s) PROVE Copies(t)' /\ Provisions(t)'
  BY <1>6, <1>7 DEF StageChanges
<1>8. ASSUME NEW i \in Instances, Restart(i) PROVE Copies(t)' /\ Provisions(t)'
  BY <1>6, <1>8 DEF Restart
<1>9. CASE UNCHANGED vars
  BY <1>6, <1>9 DEF vars
<1> QED
  BY <1>3, <1>4, <1>5, <1>7, <1>8, <1>9 DEF Next

\* CopyInv holds in every reachable state.
LEMMA CopyInvariant ==
  ASSUME Polite
  PROVE  Spec => []CopyInv
<1>1. Init => \A s \in Stages : Copies(s) /\ Provisions(s)
  BY DEF Init, Copies, Provisions, Asks, Serves
<1>2. Init /\ PoliteInv => CopyInv
  BY <1>1 DEF CopyInv
<1>3. CopyInv /\ [Next]_vars /\ PoliteInv' => CopyInv'
  BY CopyStep
<1> QED
  BY <1>2, <1>3, PoliteInvariant, PTL DEF Spec

-----------------------------------------------------------------------------
(* What a table says and what the collection says.                         *)

\* There is one daemon, and so one table.
OneDaemon == \A i, j \in Instances : i = j

\* No table leads to s, not even as the main deployment.
Unrouted(s) == \A i \in Instances : route[i].dep[s] = NoPort /\ route[i].main # s

\* A handler has changed the document of s and is about to tell its table.
Telling(s) == \E c \in Clients : Asks(c, s) /\ req[c].pc = "route" /\ req[c].op # "deploy"

\* Tables agree with the collection but for what a handler is about to tell,
\* and lead nowhere while a deployment is deleted, created or provisioned.
RouteFacts(s) ==
  /\ \A i \in Instances : route[i].dep[s] # NoPort =>
       /\ Found(docs, s)
       /\ FindOne(docs, s).port = route[i].dep[s]
       /\ FindOne(docs, s).status = "ready" \/ Telling(s)
  /\ \A i \in Instances : route[i].main = s =>
       Telling(s) \/ (Found(docs, s) /\ FindOne(docs, s).promoted)
  /\ \A c \in Clients :
       Asks(c, s) /\ req[c].pc \in AbsentPcs \cup {"deldoc"} => Unrouted(s)
  /\ \A k \in Jobs : Serves(k, s) => Unrouted(s)

\* The layer about tables.
RouteInv == CopyInv /\ \A s \in Stages : RouteFacts(s)

\* The entry of the deployment itself.
LEMMA TableEntry ==
  ASSUME NEW rm \in RouteMaps, NEW d \in DocRecs
  PROVE  /\ UpdateRoute(rm, d).dep[d.id] = IF d.status = "ready" THEN d.port ELSE NoPort
         /\ UpdateRoute(rm, d).main = d.id => d.promoted
  BY NoStageAssumption DEF UpdateRoute, RouteMaps, DocRecs

\* A removed deployment has no entry and is not main.
LEMMA TableDropEntry ==
  ASSUME NEW rm \in RouteMaps, NEW s \in Stages
  PROVE  RemoveRoute(rm, s).dep[s] = NoPort /\ RemoveRoute(rm, s).main # s
  BY NoStageAssumption DEF RemoveRoute, RouteMaps

\* A table loaded from a collection with unique ids tells what it holds.
LEMMA LoadedTable ==
  ASSUME docs \in Seq(DocRecs), UniqueIds(docs), NEW s \in Stages
  PROVE  /\ LoadRoutes(docs).dep[s] # NoPort =>
              /\ Found(docs, s)
              /\ FindOne(docs, s).port = LoadRoutes(docs).dep[s]
              /\ FindOne(docs, s).status = "ready"
         /\ LoadRoutes(docs).main = s => Found(docs, s) /\ FindOne(docs, s).promoted
<1>1. ASSUME LoadRoutes(docs).dep[s] # NoPort
      PROVE  /\ Found(docs, s)
             /\ FindOne(docs, s).port = LoadRoutes(docs).dep[s]
             /\ FindOne(docs, s).status = "ready"
  <2> DEFINE n == CHOOSE i \in LastReady(docs, s) : TRUE
  <2>1. LoadRoutes(docs).dep[s] = IF LastReady(docs, s) = {} THEN NoPort ELSE docs[n].port
    BY DEF LoadRoutes
  <2>2. LastReady(docs, s) # {}
    BY <1>1, <2>1
  <2>3. n \in LastReady(docs, s)
    BY <2>2
  <2>4. n \in DOMAIN docs /\ docs[n].id = s /\ docs[n].status = "ready"
    BY <2>3 DEF LastReady
  <2> HIDE DEF n
  <2> QED
    BY <2>1, <2>2, <2>4, UniqueFinds
<1>2. ASSUME LoadRoutes(docs).main = s
      PROVE  Found(docs, s) /\ FindOne(docs, s).promoted
  <2> DEFINE n == CHOOSE i \in LastPromoted(docs) : TRUE
  <2>1. LoadRoutes(docs).main = IF LastPromoted(docs) = {} THEN NoStage ELSE docs[n].id
    BY DEF LoadRoutes
  <2>2. LastPromoted(docs) # {}
    BY <1>2, <2>1, NoStageAssumption
  <2>3. n \in LastPromoted(docs)
    BY <2>2
  <2>4. n \in DOMAIN docs /\ docs[n].promoted
    BY <2>3 DEF LastPromoted
  <2> HIDE DEF n
  <2> QED
    BY <1>2, <2>1, <2>2, <2>4, UniqueFinds
<1> QED
  BY <1>1, <1>2

\* Nothing that RouteFacts speaks of changes for the worse.
LEMMA RoutesFrame ==
  ASSUME NEW s \in Stages, RouteFacts(s), KeepsDoc(s), KeepsRoute(s),
         Telling(s) => Telling(s)',
         \A c \in Clients : (Asks(c, s) /\ req[c].pc \in AbsentPcs \cup {"deldoc"})'
                              => Asks(c, s) /\ req[c].pc \in AbsentPcs \cup {"deldoc"},
         \A k \in Jobs : Serves(k, s)' => Serves(k, s)
  PROVE  RouteFacts(s)'
<1> DEFINE D(c) == Asks(c, s) /\ req[c].pc \in AbsentPcs \cup {"deldoc"}
<1>1. Unrouted(s) => Unrouted(s)'
  BY DEF Unrouted, KeepsRoute
<1>2. ASSUME NEW i \in Instances, route'[i].dep[s] # NoPort
      PROVE  /\ Found(docs, s)'
             /\ FindOne(docs, s)'.port = route'[i].dep[s]
             /\ FindOne(docs, s)'.status = "ready" \/ Telling(s)'
  BY <1>2 DEF RouteFacts, KeepsRoute, KeepsDoc
<1>3. ASSUME NEW i \in Instances, route'[i].main = s
      PROVE  Telling(s)' \/ (Found(docs, s)' /\ FindOne(docs, s)'.promoted)
  BY <1>3 DEF RouteFacts, KeepsRoute, KeepsDoc
<1>4. \A c \in Clients : D(c)' => Unrouted(s)'
  BY <1>1 DEF RouteFacts
<1>5. \A k \in Jobs : Serves(k, s)' => Unrouted(s)'
  BY <1>1 DEF RouteFacts
<1> QED
  BY <1>2, <1>3, <1>4, <1>5 DEF RouteFacts

\* A deployment no table leads to.
LEMMA RoutesNone ==
  ASSUME NEW s \in Stages, Unrouted(s)'
  PROVE  RouteFacts(s)'
  BY DEF RouteFacts, Unrouted

\* A step about another stage keeps the facts about s.
LEMMA LeavesRoutes ==
  ASSUME NEW s \in Stages, RouteFacts(s), Leaves(s)
  PROVE  RouteFacts(s)'
<1>1. Telling(s) => Telling(s)'
  BY DEF Telling, Leaves, KeepsWork, Asks
<1>2. \A c \in Clients : (Asks(c, s) /\ req[c].pc \in AbsentPcs \cup {"deldoc"})'
                           => Asks(c, s) /\ req[c].pc \in AbsentPcs \cup {"deldoc"}
  BY DEF Leaves, KeepsWork
<1>3. \A k \in Jobs : Serves(k, s)' => Serves(k, s)
  BY DEF Leaves, KeepsWork
<1> QED
  BY <1>1, <1>2, <1>3, RoutesFrame DEF Leaves

\* A call of a handler keeps the facts about its own stage.
LEMMA HandleRoutes ==
  ASSUME RouteInv, OneDaemon, NEW c \in Clients, Handle(c),
         NEW s \in Stages, req[c].id = s
  PROVE  RouteFacts(s)'
<1> DEFINE d == req[c].dep
           a == req[c].at
           Gone(pc) == pc \in AbsentPcs \cup {"deldoc"}
<1>0. PoliteInv /\ TypeOK /\ RouteFacts(s) /\ Copies(s) /\ Provisions(s)
  BY DEF RouteInv, CopyInv, PoliteInv
<1>1. /\ req[c] # Idle
      /\ Moves(c, After(req[c].pc, req[c].op))
  BY <1>0, HandleMoves
<1>2. /\ d \in DocRecs /\ d.id = s /\ a \in Instances /\ req[c].pc \in RequestPcs
      /\ docs \in Seq(DocRecs) /\ UniqueIds(docs)
      /\ route \in [Instances -> RouteMaps]
  BY <1>0, <1>1, InFlight, UniqueDocs DEF PoliteInv, TypeOK, Requests, OwnCopy
<1>3. /\ \A e \in Clients : Asks(e, s) => e = c
      /\ \A e \in Clients : Asks(e, s)' => e = c /\ req'[c].pc \in After(req[c].pc, req[c].op)
  BY <1>0, <1>1 DEF PoliteInv, Exclusive, Moves, Asks
<1>4. Asks(c, s) /\ TrueCopy(req[c])
  BY <1>0, <1>1 DEF Copies, Asks
<1>5. (req[c].pc # "route" \/ req[c].op # "deploy") => \A k \in Jobs : ~Serves(k, s)
  BY <1>0, <1>4 DEF Provisions
<1>6. Gone(req[c].pc) => Unrouted(s)
  BY <1>0, <1>4 DEF RouteFacts
<1>7. PcOps
  BY <1>0 DEF PoliteInv
<1> HIDE DEF d, a
<1>8. Unrouted(s) /\ route' = route => RouteFacts(s)'
  BY RoutesNone DEF Unrouted
<1>9. CASE RemoveDeployment(c)
  <2>1. route' = [route EXCEPT ![a] = RemoveRoute(route[a], s)]
    BY <1>9 DEF RemoveDeployment, a
  <2>2. Unrouted(s)'
    BY <1>2, <2>1, TableDropEntry DEF Unrouted, OneDaemon
  <2> QED
    BY <2>2, RoutesNone
<1>10. CASE UpdateProxy(c)
  <2>1. /\ req[c].pc = "route" /\ docs' = docs /\ job' = job
        /\ route' = [route EXCEPT ![a] = UpdateRoute(route[a], d)]
        /\ Finish(c)
    BY <1>10 DEF UpdateProxy, At, a, d
  <2>2. \A i \in Instances : route'[i] = UpdateRoute(route[i], d)
    BY <1>2, <2>1 DEF OneDaemon
  <2>3. \A i \in Instances : /\ route'[i].dep[s] = IF d.status = "ready" THEN d.port ELSE NoPort
                             /\ route'[i].main = s => d.promoted
    BY <1>2, <2>2, TableEntry
  <2>4. CASE req[c].op = "deploy"
    <3>1. d.status = "provisioning" /\ ~d.promoted
      BY <1>4, <2>1, <2>4 DEF TrueCopy, d
    <3>2. Unrouted(s)'
      BY <2>3, <3>1 DEF Unrouted
    <3> QED
      BY <3>2, RoutesNone
  <2>5. CASE req[c].op # "deploy"
    <3>1. Found(docs, s) /\ d = FindOne(docs, s)
      BY <1>4, <2>1, <2>5 DEF TrueCopy, d
    <3>2. \A k \in Jobs : ~Serves(k, s)'
      BY <1>5, <2>1, <2>5 DEF Serves
    <3>3. req'[c] = Idle
      BY <1>0, <2>1 DEF Finish, TypeOK
    <3>4. \A e \in Clients : ~Asks(e, s)'
      BY <1>3, <3>3 DEF Asks
    <3>5. Found(docs', s) /\ FindOne(docs', s) = d
      BY <2>1, <3>1
    <3> QED
      BY <2>3, <3>2, <3>4, <3>5 DEF RouteFacts
  <2> QED
    BY <2>4, <2>5
<1>11. CASE DeleteDeployment(c) \/ CreateDeployment(c)
  <2>1. Gone(req[c].pc) /\ route' = route
    BY <1>11 DEF DeleteDeployment, CreateDeployment, At, AbsentPcs
  <2> QED
    BY <1>6, <1>8, <2>1
<1>12. CASE UpdateDeployment(c)
  <2>1. /\ req[c].pc = "replace" /\ docs' = ReplaceOne(docs, d)
        /\ Goto(c, "route") /\ job' = job /\ route' = route
    BY <1>12 DEF UpdateDeployment, At, d
  <2>2. Advances(c, "route", d)
    BY <1>0, <1>1, <2>1, GotoAdvances DEF RequestPcs, d
  <2>3. req[c].op # "deploy" /\ Found(docs, s) /\ d.port = FindOne(docs, s).port
    BY <1>1, <1>4, <1>7, <2>1 DEF PcOps, TrueCopy, Revises, d
  <2>4. Found(docs', s) /\ FindOne(docs', s) = d
    BY <1>2, <2>1, <2>3, ReplaceFinds
  <2>5. Telling(s)'
    BY <2>2, <2>3 DEF Telling, Asks, Advances
  <2>6. \A k \in Jobs : ~Serves(k, s)'
    BY <1>5, <2>1 DEF Serves
  <2>7. \A e \in Clients : Asks(e, s)' => req'[e].pc = "route"
    BY <1>3, <2>2 DEF Advances
  <2>8. \A i \in Instances : route'[i].dep[s] # NoPort => d.port = route'[i].dep[s]
    BY <1>0, <2>1, <2>3 DEF RouteFacts
  <2> QED
    BY <2>4, <2>5, <2>6, <2>7, <2>8 DEF RouteFacts, AbsentPcs
<1>13. ASSUME docs' = docs, route' = route, job' = job, req[c].pc \notin {"route", "unroute"}
       PROVE  RouteFacts(s)'
  <2>1. ~Telling(s)
    BY <1>3, <1>13 DEF Telling
  <2>2. \A e \in Clients : (Asks(e, s) /\ req[e].pc \in AbsentPcs \cup {"deldoc"})'
                             => Asks(e, s) /\ req[e].pc \in AbsentPcs \cup {"deldoc"}
    BY <1>2, <1>3, <1>4, <1>13, BeforeFact
  <2>3. \A k \in Jobs : Serves(k, s)' => Serves(k, s)
    BY <1>13 DEF Serves
  <2>4. KeepsDoc(s) /\ KeepsRoute(s)
    BY <1>13 DEF KeepsDoc, KeepsRoute
  <2> QED
    BY <1>0, <2>1, <2>2, <2>3, <2>4, RoutesFrame
<1>14. CASE CallFails(c)
  BY <1>13, <1>14 DEF CallFails
<1> QED
  BY <1>9, <1>10, <1>11, <1>12, <1>13, <1>14 DEF Handle, StopBackendService,
     StartBackendService, DisableBackendService, RemoveBackendServiceFile, RemoveBinary,
     ResetStage, GetReadyStage, AllocatePort, At

\* So does a step of a goroutine.
LEMMA ProvisionRoutes ==
  ASSUME RouteInv, OneDaemon, NEW k \in Jobs, ProvisionDeployment(k),
         NEW s \in Stages, job[k].id = s
  PROVE  RouteFacts(s)'
<1> DEFINE a == job[k].at
           d == JobDoc(k, "ready")
<1>0. PoliteInv /\ TypeOK /\ RouteFacts(s) /\ Provisions(s)
  BY DEF RouteInv, CopyInv, PoliteInv
<1>1. /\ job[k] # Idle /\ req' = req
      /\ \A j \in Jobs \ {k} : job'[j] = job[j]
  BY <1>0, ProvisionMoves
<1>2. /\ a \in Instances /\ route \in [Instances -> RouteMaps]
      /\ d \in DocRecs /\ d.id = s
  BY <1>0, <1>1, InFlight, JobDocType DEF TypeOK, JobRecs, JobDoc, Statuses
<1>3. Serves(k, s)
  BY <1>1 DEF Serves
<1>4. /\ Found(docs, s)
      /\ FindOne(docs, s) = JobDoc(k, IF job[k].pc = "route" THEN "ready" ELSE "provisioning")
      /\ \A j \in Jobs : Serves(j, s) => j = k
      /\ \A c \in Clients : Asks(c, s) => req[c].pc = "route"
  BY <1>0, <1>3 DEF Provisions
<1>5. CASE route' = route
  <2>1. Unrouted(s)'
    BY <1>0, <1>3, <1>5 DEF RouteFacts, Unrouted
  <2> QED
    BY <2>1, RoutesNone
<1>6. CASE PublishRoute(k)
  <2>1. /\ job[k].pc = "route" /\ docs' = docs /\ JobEnd(k)
        /\ route' = [route EXCEPT ![a] = UpdateRoute(route[a], d)]
    BY <1>6 DEF PublishRoute, JobAt
  <2>2. Found(docs', s) /\ FindOne(docs', s) = d
    BY <1>4, <2>1
  <2>3. d.status = "ready" /\ ~d.promoted
    BY DEF JobDoc
  <2> HIDE DEF d, a
  <2>4. \A i \in Instances : route'[i] = UpdateRoute(route[i], d)
    BY <1>2, <2>1 DEF OneDaemon
  <2>5. \A i \in Instances : route'[i].dep[s] = d.port /\ route'[i].main # s
    BY <1>2, <2>3, <2>4, TableEntry
  <2>6. \A j \in Jobs : ~Serves(j, s)'
    BY <1>0, <1>1, <1>4, <2>1, JobEndFact DEF Serves
  <2>7. \A c \in Clients : Asks(c, s)' => req'[c].pc = "route"
    BY <1>1, <1>4 DEF Asks
  <2> QED
    BY <2>2, <2>3, <2>5, <2>6, <2>7 DEF RouteFacts, AbsentPcs
<1> QED
  BY <1>5, <1>6 DEF ProvisionDeployment, BuildBackend, WriteBackendUnit,
     EnableBackendUnit, RestartBackendUnit, ProvisionFails, RecordFailure, RecordReady

\* And so does a request that begins.
LEMMA BeginRoutes ==
  ASSUME RouteInv, Polite, NEW c \in Clients, NEW i, NEW s \in Stages, NEW op \in Ops,
         NEW pc \in RequestPcs, NEW d, Begin(c, i, s, op, pc, d), Enters(s, op, pc, d)
  PROVE  RouteFacts(s)'
<1>0. TypeOK /\ RouteFacts(s)
  BY DEF RouteInv, CopyInv, PoliteInv
<1>1. /\ req'[c] # Idle
      /\ req'[c].pc = pc /\ req'[c].id = s
      /\ \A e \in Clients \ {c} : req'[e] = req[e]
      /\ docs' = docs /\ job' = job /\ route' = route
      /\ \A e \in Clients : req[e] # Idle => req[e].id # s
  BY <1>0, BeginFact DEF Quiet
<1>2. ~Telling(s) /\ \A e \in Clients : Asks(e, s)' => req'[e].pc = pc
  BY <1>1 DEF Telling, Asks
<1>3. CASE pc = "getstage"
  <2>1. ~Found(docs, s)
    BY <1>3 DEF Enters
  <2>2. Unrouted(s)'
    BY <1>0, <1>1, <1>2, <2>1 DEF RouteFacts, Unrouted
  <2> QED
    BY <2>2, RoutesNone
<1>4. CASE pc # "getstage"
  <2>1. pc \notin AbsentPcs \cup {"deldoc"}
    BY <1>4 DEF Enters, AbsentPcs
  <2>2. \A e \in Clients : ~(Asks(e, s) /\ req[e].pc \in AbsentPcs \cup {"deldoc"})'
    BY <1>2, <2>1
  <2>3. \A k \in Jobs : Serves(k, s)' => Serves(k, s)
    BY <1>1 DEF Serves
  <2>4. KeepsDoc(s) /\ KeepsRoute(s)
    BY <1>1 DEF KeepsDoc, KeepsRoute
  <2> QED
    BY <1>0, <1>2, <2>2, <2>3, <2>4, RoutesFrame
<1> QED
  BY <1>3, <1>4

\* The one daemon restarts: nobody works on anything and the table is new.
LEMMA RestartRoutes ==
  ASSUME RouteInv, OneDaemon, NEW i \in Instances, Restart(i), NEW s \in Stages
  PROVE  RouteFacts(s)'
<1>0. TypeOK /\ docs \in Seq(DocRecs) /\ UniqueIds(docs)
  BY UniqueDocs DEF RouteInv, CopyInv, PoliteInv
<1>1. /\ \A c \in Clients : req'[c] = Idle
      /\ \A k \in Jobs : job'[k] = Idle
  <2>1. /\ \A c \in Clients : req[c] # Idle => req[c].at = i
        /\ \A k \in Jobs : job[k] # Idle => job[k].at = i
    BY <1>0, InFlight DEF Requests, JobRecs, OneDaemon
  <2> QED
    BY <2>1 DEF Restart
<1>2. \A j \in Instances : route'[j] = LoadRoutes(docs)
  BY <1>0 DEF Restart, TypeOK, OneDaemon
<1>3. docs' = docs
  BY DEF Restart
<1> QED
  BY <1>0, <1>1, <1>2, <1>3, LoadedTable DEF RouteFacts, Asks, Serves

\* RouteFacts is inductive with one daemon, given CopyInv.
LEMMA RouteStep ==
  ASSUME Polite, OneDaemon, RouteInv, [Next]_vars, CopyInv'
  PROVE  RouteInv'
<1>0. CopyInv /\ PoliteInv /\ TypeOK
  BY DEF RouteInv, CopyInv, PoliteInv
<1> SUFFICES ASSUME NEW t \in Stages PROVE RouteFacts(t)'
  BY DEF RouteInv
<1>1. RouteFacts(t)
  BY DEF RouteInv
<1>2. ASSUME Leaves(t) PROVE RouteFacts(t)'
  BY <1>1, <1>2, LeavesRoutes
<1>3. ASSUME NEW c \in Clients, Request(c) PROVE RouteFacts(t)'
  <2>0. PICK i \in Instances, s \in Stages, op \in Ops, pc \in RequestPcs : \E d :
          Begin(c, i, s, op, pc, d) /\ Enters(s, op, pc, d)
    BY <1>3, RequestEnters
  <2>1. PICK d : Begin(c, i, s, op, pc, d) /\ Enters(s, op, pc, d)
    BY <2>0
  <2> QED
    BY <1>0, <1>2, <2>1, BeginLeaves, BeginRoutes
<1>4. ASSUME NEW c \in Clients, Handle(c) PROVE RouteFacts(t)'
  BY <1>0, <1>2, <1>4, HandleLeaves, HandleRoutes
<1>5. ASSUME NEW k \in Jobs, ProvisionDeployment(k) PROVE RouteFacts(t)'
  BY <1>0, <1>2, <1>5, ProvisionLeaves, ProvisionRoutes
<1>6. ASSUME UNCHANGED <<docs, route, req, job>> PROVE RouteFacts(t)'
  BY <1>1, <1>6 DEF RouteFacts, Unrouted, Telling, Asks, Serves
<1>7. ASSUME NEW s \in Stages, StageChanges(s) PROVE RouteFacts(t)'
  BY <1>6, <1>7 DEF StageChanges
<1>8. ASSUME NEW i \in Instances, Restart(i) PROVE RouteFacts(t)'
  BY <1>8, RestartRoutes
<1>9. CASE UNCHANGED vars
  BY <1>6, <1>9 DEF vars
<1> QED
  BY <1>3, <1>4, <1>5, <1>7, <1>8, <1>9 DEF Next

\* RouteInv holds in every reachable state.
LEMMA RouteInvariant ==
  ASSUME Polite, OneDaemon
  PROVE  Spec => []RouteInv
<1>1. Init => \A s \in Stages : RouteFacts(s)
  <2> SUFFICES ASSUME Init, NEW s \in Stages PROVE RouteFacts(s)
    OBVIOUS
  <2>1. \A i \in Instances : route[i].dep[s] = NoPort /\ route[i].main # s
    BY NoStageAssumption DEF Init, NewRouteMap
  <2> QED
    BY <2>1 DEF RouteFacts, Unrouted
<1>2. Init /\ CopyInv => RouteInv
  BY <1>1 DEF RouteInv
<1>3. RouteInv /\ [Next]_vars /\ CopyInv' => RouteInv'
  BY RouteStep
<1> QED
  BY <1>2, <1>3, CopyInvariant, PTL DEF Spec

\* With one daemon and polite operators, a table that nobody is about to
\* change routes a stage only to the deployment recorded as ready, on the
\* port recorded there, across any number of redeploys and restarts.
THEOREM RoutesAgree ==
  ASSUME Polite, OneDaemon
  PROVE  Spec => []RoutesMatchDocs
<1>1. RouteInv => RoutesMatchDocs
  BY DEF RouteInv, RouteFacts, RoutesMatchDocs, Telling, Quiet, Asks
<1> QED
  BY <1>1, RouteInvariant, PTL

\* Under the same conditions the main deployment of a table is one that the
\* collection holds as promoted.
THEOREM MainAgrees ==
  ASSUME Polite, OneDaemon
  PROVE  Spec => []MainIsPromoted
<1>1. RouteInv => MainIsPromoted
  BY DEF RouteInv, RouteFacts, MainIsPromoted, Telling, Quiet, Asks
<1> QED
  BY <1>1, RouteInvariant, PTL

-----------------------------------------------------------------------------
(* What units and services have to do with the collection, as long as      *)
(* nothing went wrong.                                                     *)

\* The unit file, if there is one, runs the built release on the recorded port.
FileFits(s) == file[s] # NoPort => file[s] = FindOne(docs, s).port /\ Built(s)

\* Unit file and service of s are what the collection says.
Settled(s) ==
  IF Found(docs, s)
    THEN /\ FileFits(s)
         /\ IF FindOne(docs, s).status = "ready"
              THEN file[s] # NoPort /\ proc[s] = FindOne(docs, s).port
              ELSE proc[s] = NoPort
    ELSE file[s] = NoPort /\ proc[s] = NoPort

\* Requests that have not touched anything yet, or have nothing left to touch.
Harmless(r) == r.pc \in {"stop", "start", "route"} \/ (r.pc = "replace" /\ r.op = "promote")

\* They are while nobody has touched them.
AtRest(s) ==
  (\A c \in Clients : Asks(c, s) => Harmless(req[c])) /\ (\A k \in Jobs : ~Serves(k, s))
    => Settled(s)

\* What a request that is under way has done so far.
Handled(r) ==
  /\ r.pc \in {"disable", "rmunit"} \/ (r.pc = "replace" /\ r.op = "shutdown")
       => proc[r.id] = NoPort /\ FileFits(r.id)
  /\ r.pc = "disable" /\ FindOne(docs, r.id).status = "ready" => file[r.id] # NoPort
  /\ r.pc = "replace" /\ r.op = "start"
       => file[r.id] # NoPort /\ proc[r.id] = file[r.id] /\ FileFits(r.id)
  /\ r.pc \in AbsentPcs \cup {"unroute", "deldoc"}
       => file[r.id] = NoPort /\ proc[r.id] = NoPort

\* How far a goroutine has got.
Provisioned(j) ==
  /\ j.pc # "provision_failed"
  /\ file[j.id] = IF j.pc \in {"build", "build_failed", "unit"} THEN NoPort ELSE j.port
  /\ proc[j.id] = IF j.pc \in {"ready", "route"} THEN j.port ELSE NoPort
  /\ j.pc \in {"build", "build_failed"} \/ Built(j.id)

\* What holds of unit and service of s at every point of the work on it.
UnitFacts(s) ==
  /\ AtRest(s)
  /\ \A c \in Clients : Asks(c, s) => Handled(req[c])
  /\ \A k \in Jobs : Serves(k, s) => Provisioned(job[k])

\* The layer about units.
UnitInv == CopyInv /\ (mishaps = 0 => \A s \in Stages : UnitFacts(s))

\* A step that leaves s, its binary and the work on it alone.
LEMMA UnitsFrame ==
  ASSUME NEW s \in Stages, UnitFacts(s), Copies(s), KeepsDoc(s), KeepsWork(s),
         file'[s] = file[s], proc'[s] = proc[s], Built(s)' <=> Built(s)
  PROVE  UnitFacts(s)'
<1>1. /\ \A c \in Clients : Asks(c, s)' => Asks(c, s) /\ req'[c] = req[c]
      /\ \A c \in Clients : Asks(c, s) => Asks(c, s)' /\ req'[c] = req[c]
      /\ \A k \in Jobs : Serves(k, s)' => Serves(k, s) /\ job'[k] = job[k]
      /\ \A k \in Jobs : Serves(k, s) => Serves(k, s)' /\ job'[k] = job[k]
  BY DEF KeepsWork, Asks, Serves
<1>2. Settled(s) => Settled(s)'
  BY DEF Settled, FileFits, KeepsDoc
<1>3. AtRest(s)'
  BY <1>1, <1>2 DEF UnitFacts, AtRest, Harmless
<1>4. ASSUME NEW c \in Clients, Asks(c, s)' PROVE Handled(req[c])'
  <2>1. Handled(req[c]) /\ TrueCopy(req[c]) /\ req'[c] = req[c] /\ req[c].id = s
    BY <1>1, <1>4 DEF UnitFacts, Copies, Asks
  <2>2. req[c].pc \in {"disable", "rmunit", "replace"} => FindOne(docs', s) = FindOne(docs, s)
    BY <2>1 DEF TrueCopy, ReadPcs, KeepsDoc
  <2> QED
    BY <2>1, <2>2 DEF Handled, FileFits
<1>5. ASSUME NEW k \in Jobs, Serves(k, s)' PROVE Provisioned(job[k])'
  <2>1. Provisioned(job[k]) /\ job'[k] = job[k] /\ job[k].id = s
    BY <1>1, <1>5 DEF UnitFacts, Serves
  <2> QED
    BY <2>1 DEF Provisioned
<1> QED
  BY <1>3, <1>4, <1>5 DEF UnitFacts

\* A step about another stage is one.
LEMMA LeavesUnits ==
  ASSUME OwnBinaries, NEW s \in Stages, UnitFacts(s), Copies(s), Leaves(s)
  PROVE  UnitFacts(s)'
  BY UnitsFrame DEF Leaves, KeepsUnit

\* A call of a handler keeps the facts about its own stage.
LEMMA HandleUnits ==
  ASSUME CopyInv, NEW c \in Clients, Handle(c), mishaps' = mishaps,
         NEW s \in Stages, req[c].id = s, UnitFacts(s)
  PROVE  UnitFacts(s)'
<1> DEFINE d == req[c].dep
           doc == FindOne(docs, s)
<1>0. PoliteInv /\ TypeOK /\ Copies(s) /\ Provisions(s)
  BY DEF CopyInv, PoliteInv
<1>1. /\ req[c] # Idle
      /\ Moves(c, After(req[c].pc, req[c].op))
  BY <1>0, HandleMoves
<1>2. /\ d \in DocRecs /\ d.id = s /\ req[c].pc \in RequestPcs
      /\ docs \in Seq(DocRecs) /\ UniqueIds(docs)
      /\ file \in [Stages -> Ports \cup {NoPort}] /\ proc \in [Stages -> Ports \cup {NoPort}]
  BY <1>0, <1>1, InFlight, UniqueDocs DEF PoliteInv, TypeOK, Requests, OwnCopy
<1>3. /\ \A e \in Clients : Asks(e, s) => e = c
      /\ \A e \in Clients : Asks(e, s)' => e = c
  BY <1>0, <1>1 DEF PoliteInv, Exclusive, Moves, Asks
<1>4. Asks(c, s) /\ TrueCopy(req[c]) /\ Handled(req[c])
  BY <1>0, <1>1 DEF Copies, Asks, UnitFacts
<1>5. (req[c].pc # "route" \/ req[c].op # "deploy") => \A k \in Jobs : ~Serves(k, s)
  BY <1>0, <1>4 DEF Provisions
<1>6. Harmless(req[c]) /\ (\A k \in Jobs : ~Serves(k, s)) => Settled(s)
  BY <1>3 DEF UnitFacts, AtRest
<1>7. PcOps
  BY <1>0 DEF PoliteInv
<1> HIDE DEF d
\* Unless a goroutine runs, one of three things is to be shown.
<1>8. ASSUME \A k \in Jobs : ~Serves(k, s)', Settled(s)',
             req'[c] # Idle => Harmless(req[c])' /\ req'[c].id = s
      PROVE  UnitFacts(s)'
  BY <1>3, <1>8 DEF UnitFacts, AtRest, Harmless, Handled, AbsentPcs, Asks
<1>9. ASSUME \A k \in Jobs : ~Serves(k, s)', req'[c] # Idle, req'[c].id = s,
             ~Harmless(req[c])', Handled(req[c])'
      PROVE  UnitFacts(s)'
  BY <1>3, <1>9 DEF UnitFacts, AtRest, Asks
<1>10. ASSUME Finish(c), UNCHANGED <<docs, file, proc, bins, job>>,
              (\A k \in Jobs : ~Serves(k, s)) => Settled(s)
       PROVE  UnitFacts(s)'
  <2>1. req'[c] = Idle
    BY <1>0, <1>10 DEF Finish, TypeOK
  <2>2. /\ Settled(s) => Settled(s)'
        /\ \A k \in Jobs : (Serves(k, s)' <=> Serves(k, s))
    BY <1>10 DEF Settled, FileFits, Built, Serves
  <2>3. \A e \in Clients : ~Asks(e, s)'
    BY <1>3, <2>1 DEF Asks
  <2>4. \A k \in Jobs : Serves(k, s) => Provisioned(job[k])'
    BY <1>10 DEF UnitFacts, Provisioned, Built
  <2> QED
    BY <1>10, <2>2, <2>3, <2>4 DEF UnitFacts, AtRest
<1>11. ASSUME job' = job, req[c].pc # "route" PROVE \A k \in Jobs : ~Serves(k, s)'
  BY <1>5, <1>11 DEF Serves
<1>12. CASE StopBackendService(c)
  <2>1. /\ req[c].pc = "stop" /\ docs' = docs /\ job' = job /\ file' = file /\ bins' = bins
        /\ proc'[s] = NoPort
    BY <1>2, <1>12 DEF StopBackendService, At
  <2>2. Settled(s) /\ Found(docs, s)
    BY <1>4, <1>5, <1>6, <2>1 DEF Harmless, TrueCopy, ReadPcs
  <2>3. FileFits(s)' /\ (doc.status = "ready" => file'[s] # NoPort)
    BY <2>1, <2>2 DEF Settled, FileFits, Built
  <2>4. PICK pc \in {"disable", "replace"} :
          (\E e : Advances(c, pc, e)) /\ (pc = "replace" => req[c].op = "shutdown")
    <3>1. CASE req[c].op = "shutdown"
      BY <1>0, <1>1, <1>12, <3>1, GotoWithAdvances DEF StopBackendService, RequestPcs
    <3>2. CASE req[c].op # "shutdown"
      BY <1>0, <1>1, <1>12, <3>2, GotoAdvances DEF StopBackendService, RequestPcs
    <3> QED
      BY <3>1, <3>2
  <2> QED
    BY <1>9, <1>11, <2>1, <2>3, <2>4 DEF Advances, Harmless, Handled, AbsentPcs
<1>13. CASE StartBackendService(c)
  <2>1. /\ req[c].pc = "start" /\ docs' = docs /\ job' = job /\ file' = file /\ bins' = bins
        /\ req[c].op = "start"
    BY <1>1, <1>7, <1>13 DEF StartBackendService, At, PcOps
  <2>2. Settled(s) /\ Found(docs, s)
    BY <1>4, <1>5, <1>6, <2>1 DEF Harmless, TrueCopy, ReadPcs
  <2>3. CASE Finish(c) /\ UNCHANGED proc
    BY <1>10, <2>1, <2>2, <2>3
  <2>4. CASE /\ file[s] # NoPort
             /\ proc' = [proc EXCEPT ![s] = IF @ # NoPort THEN @ ELSE Runs(s, file[s])]
             /\ GotoWith(c, "replace", [d EXCEPT !.status = "ready"])
    <3>1. Advances(c, "replace", [d EXCEPT !.status = "ready"])
      BY <1>0, <1>1, <2>4, GotoWithAdvances DEF RequestPcs
    <3>2. Built(s) /\ file[s] = doc.port /\ (proc[s] # NoPort => proc[s] = doc.port)
      BY <2>2, <2>4 DEF Settled, FileFits
    <3>3. proc'[s] = file'[s]
      BY <1>2, <2>1, <2>4, <3>2 DEF Runs, Built
    <3>4. FileFits(s)'
      BY <2>1, <3>2 DEF FileFits, Built
    <3> QED
      BY <1>9, <1>11, <2>1, <2>4, <3>1, <3>3, <3>4
         DEF Advances, Harmless, Handled, AbsentPcs
  <2> QED
    BY <1>13, <2>3, <2>4 DEF StartBackendService, d
<1>14. CASE DisableBackendService(c)
  <2>1. /\ req[c].pc = "disable" /\ UNCHANGED <<docs, job, file, proc, bins>>
    BY <1>14 DEF DisableBackendService, At
  <2>2. Found(docs, s) /\ proc[s] = NoPort /\ FileFits(s)
        /\ (doc.status = "ready" => file[s] # NoPort)
    BY <1>4, <2>1 DEF TrueCopy, ReadPcs, Handled
  <2>3. CASE Finish(c) /\ file[s] = NoPort
    <3>1. Settled(s)
      BY <2>2, <2>3 DEF Settled
    <3> QED
      BY <1>10, <2>1, <2>3, <3>1
  <2>4. CASE Goto(c, "rmunit")
    <3>1. Advances(c, "rmunit", d)
      BY <1>0, <1>1, <2>4, GotoAdvances DEF RequestPcs, d
    <3>2. FileFits(s)'
      BY <2>1, <2>2 DEF FileFits, Built
    <3> QED
      BY <1>9, <1>11, <2>1, <2>2, <3>1, <3>2 DEF Advances, Harmless, Handled, AbsentPcs
  <2> QED
    BY <1>14, <2>3, <2>4 DEF DisableBackendService
<1>15. CASE RemoveBackendServiceFile(c)
  <2>1. /\ req[c].pc = "rmunit" /\ job' = job /\ proc' = proc /\ file'[s] = NoPort
        /\ Goto(c, "unroute")
    BY <1>2, <1>15 DEF RemoveBackendServiceFile, At
  <2>2. Advances(c, "unroute", d)
    BY <1>0, <1>1, <2>1, GotoAdvances DEF RequestPcs, d
  <2>3. proc[s] = NoPort
    BY <1>4, <2>1 DEF Handled
  <2> QED
    BY <1>9, <1>11, <2>1, <2>2, <2>3 DEF Advances, Harmless, Handled, AbsentPcs
<1>16. ASSUME req[c].pc \in (AbsentPcs \ {"insert"}) \cup {"unroute", "deldoc"},
              UNCHANGED <<file, proc, job>>,
              NEW pc \in {"deldoc", "rmbin", "resetstage", "getstage", "port", "insert"},
              NEW e, Advances(c, pc, e)
       PROVE  UnitFacts(s)'
  <2>1. file'[s] = NoPort /\ proc'[s] = NoPort
    BY <1>4, <1>16 DEF Handled
  <2> QED
    BY <1>9, <1>11, <1>16, <2>1 DEF Advances, Harmless, Handled, AbsentPcs
<1>17. CASE RemoveDeployment(c) \/ DeleteDeployment(c) \/ RemoveBinary(c)
  <2>1. /\ req[c].pc \in {"unroute", "deldoc", "rmbin"} /\ UNCHANGED <<file, proc, job>>
        /\ \E pc \in {"deldoc", "rmbin", "resetstage"} : Goto(c, pc)
    BY <1>17 DEF RemoveDeployment, DeleteDeployment, RemoveBinary, At
  <2> QED
    BY <1>0, <1>1, <1>16, <2>1, GotoAdvances DEF RequestPcs, AbsentPcs
<1>18. CASE ResetStage(c) \/ GetReadyStage(c) \/ AllocatePort(c)
  <2>1. /\ req[c].pc \in {"resetstage", "getstage", "port"}
        /\ UNCHANGED <<docs, file, proc, bins, job>>
    BY <1>18 DEF ResetStage, GetReadyStage, AllocatePort, At
  <2>2. CASE Finish(c)
    <3>1. Settled(s)
      BY <1>0, <1>1, <1>4, <2>1 DEF PoliteInv, Absent, AbsentPcs, Handled, Settled
    <3> QED
      BY <1>10, <2>1, <2>2, <3>1
  <2>3. Finish(c) \/ \E pc \in {"getstage", "port", "insert"} : \E e : Advances(c, pc, e)
    <3>1. Finish(c) \/ \E pc \in {"getstage", "port", "insert"} :
                          Goto(c, pc) \/ \E e : GotoWith(c, pc, e)
      BY <1>18 DEF ResetStage, GetReadyStage, AllocatePort
    <3> QED
      BY <1>0, <1>1, <3>1, GotoAdvances, GotoWithAdvances DEF RequestPcs
  <2> QED
    BY <1>16, <2>1, <2>2, <2>3 DEF AbsentPcs
<1>19. CASE CreateDeployment(c)
  <2>1. /\ req[c].pc = "insert" /\ UNCHANGED <<file, proc>> /\ Goto(c, "route")
    BY <1>19 DEF CreateDeployment, At
  <2>2. PICK k \in Jobs :
          /\ job[k] = Idle
          /\ job' = [job EXCEPT ![k] = [pc |-> "build", id |-> req[c].id,
                                        at |-> req[c].at, port |-> req[c].dep.port]]
    BY <1>19 DEF CreateDeployment
  <2>3. /\ job'[k].pc = "build" /\ job'[k].id = s /\ job'[k] # Idle
        /\ \A j \in Jobs \ {k} : job'[j] = job[j]
    BY <1>0, <2>2 DEF TypeOK, Idle
  <2>4. Serves(k, s)' /\ \A j \in Jobs : Serves(j, s)' => j = k
    BY <1>5, <2>1, <2>3 DEF Serves
  <2>5. Advances(c, "route", d)
    BY <1>0, <1>1, <2>1, GotoAdvances DEF RequestPcs, d
  <2>6. file'[s] = NoPort /\ proc'[s] = NoPort
    BY <1>4, <2>1 DEF Handled, AbsentPcs
  <2>7. Provisioned(job[k])'
    BY <2>3, <2>6 DEF Provisioned
  <2>8. \A e \in Clients : Asks(e, s)' => Handled(req[e])'
    BY <1>3, <2>5 DEF Advances, Handled, AbsentPcs
  <2> QED
    BY <2>4, <2>7, <2>8 DEF UnitFacts, AtRest
<1>20. CASE UpdateDeployment(c)
  <2>1. /\ req[c].pc = "replace" /\ docs' = ReplaceOne(docs, d) /\ Goto(c, "route")
        /\ UNCHANGED <<job, file, proc, bins>>
    BY <1>20 DEF UpdateDeployment, At, d
  <2>2. Advances(c, "route", d)
    BY <1>0, <1>1, <2>1, GotoAdvances DEF RequestPcs, d
  <2>3. Found(docs, s) /\ Revises(req[c], doc) /\ req[c].op \in {"promote", "shutdown", "start"}
    BY <1>1, <1>4, <1>7, <2>1 DEF PcOps, TrueCopy
  <2>4. Found(docs', s) /\ FindOne(docs', s) = d
    BY <1>2, <2>1, <2>3, ReplaceFinds
  <2>5. Settled(s)'
    <3>1. CASE req[c].op = "promote"
      <4>1. Settled(s)
        BY <1>5, <1>6, <2>1, <3>1 DEF Harmless
      <4>2. d.port = doc.port /\ d.status = doc.status
        BY <2>3, <3>1 DEF Revises, d
      <4> QED
        BY <2>1, <2>3, <2>4, <4>1, <4>2 DEF Settled, FileFits, Built
    <3>2. CASE req[c].op = "shutdown"
      <4>1. d.port = doc.port /\ d.status = "stopped" /\ proc[s] = NoPort /\ FileFits(s)
        BY <1>4, <2>1, <2>3, <3>2 DEF Revises, Handled, d
      <4> QED
        BY <2>1, <2>4, <4>1 DEF Settled, FileFits, Built
    <3>3. CASE req[c].op = "start"
      <4>1. /\ d.port = doc.port /\ d.status = "ready"
            /\ file[s] # NoPort /\ proc[s] = file[s] /\ FileFits(s)
        BY <1>4, <2>1, <2>3, <3>3 DEF Revises, Handled, d
      <4> QED
        BY <2>1, <2>4, <4>1 DEF Settled, FileFits, Built
    <3> QED
      BY <2>3, <3>1, <3>2, <3>3
  <2> QED
    BY <1>8, <1>11, <2>1, <2>2, <2>5 DEF Advances, Harmless
<1>21. CASE UpdateProxy(c)
  <2>1. req[c].pc = "route" /\ Finish(c) /\ UNCHANGED <<docs, job, file, proc, bins>>
    BY <1>21 DEF UpdateProxy, At
  <2> QED
    BY <1>6, <1>10, <2>1 DEF Harmless
<1>22. ~CallFails(c)
  BY <1>0 DEF CallFails, Mishap, TypeOK
<1> QED
  BY <1>12, <1>13, <1>14, <1>15, <1>17, <1>18, <1>19, <1>20, <1>21, <1>22 DEF Handle

\* So does a step of a goroutine.
LEMMA ProvisionUnits ==
  ASSUME CopyInv, NEW k \in Jobs, ProvisionDeployment(k), mishaps' = mishaps,
         NEW s \in Stages, job[k].id = s, UnitFacts(s)
  PROVE  UnitFacts(s)'
<1>0. PoliteInv /\ TypeOK /\ Provisions(s)
  BY DEF CopyInv, PoliteInv
<1>1. /\ job[k] # Idle /\ req' = req
      /\ \A j \in Jobs \ {k} : job'[j] = job[j]
      /\ job'[k] # Idle => job'[k].id = s
  BY <1>0, ProvisionMoves
<1>2. /\ Serves(k, s) /\ Provisioned(job[k])
      /\ job[k].pc \in JobPcs
      /\ docs \in Seq(DocRecs) /\ file \in [Stages -> Ports \cup {NoPort}]
      /\ proc \in [Stages -> Ports \cup {NoPort}]
      /\ \A st \in Statuses : JobDoc(k, st) \in DocRecs /\ JobDoc(k, st).id = s
  BY <1>0, <1>1, InFlight, JobDocType DEF UnitFacts, Serves, TypeOK, JobRecs, JobDoc
<1>3. /\ job[k].port \in Ports /\ Found(docs, s)
      /\ FindOne(docs, s) = JobDoc(k, IF job[k].pc = "route" THEN "ready" ELSE "provisioning")
      /\ \A j \in Jobs : Serves(j, s) => j = k
      /\ \A c \in Clients : Asks(c, s) => req[c].pc = "route" /\ req[c].op = "deploy"
  BY <1>0, <1>2 DEF Provisions
<1>4. job[k].port # NoPort
  BY <1>3, NoPortOutside
<1>5. \A j \in Jobs : Serves(j, s)' => j = k
  BY <1>1, <1>3 DEF Serves
<1>6. \A c \in Clients : Asks(c, s)' => Handled(req[c])'
  BY <1>1, <1>3 DEF Asks, Handled, AbsentPcs
<1>7. ASSUME NEW pc, JobAdvances(k, pc), Provisioned(job[k])'
      PROVE  UnitFacts(s)'
  <2>1. Serves(k, s)'
    BY <1>7 DEF Serves, JobAdvances
  <2> QED
    BY <1>5, <1>6, <1>7, <2>1 DEF UnitFacts, AtRest
<1>8. ASSUME JobEnd(k), Settled(s)' PROVE UnitFacts(s)'
  <2>1. \A j \in Jobs : ~Serves(j, s)'
    BY <1>0, <1>5, <1>8, JobEndFact DEF Serves
  <2> QED
    BY <1>6, <1>8, <2>1 DEF UnitFacts, AtRest
<1>9. CASE BuildBackend(k)
  <2>1. job[k].pc = "build" /\ UNCHANGED <<file, proc>>
    BY <1>9 DEF BuildBackend, JobAt
  <2>2. CASE JobGoto(k, "unit") /\ Built(s)'
    <3>1. JobAdvances(k, "unit")
      BY <1>0, <1>1, <2>2, JobGotoAdvances DEF JobPcs
    <3> QED
      BY <1>2, <1>7, <2>1, <2>2, <3>1 DEF JobAdvances, Provisioned
  <2>3. CASE JobGoto(k, "build_failed")
    <3>1. JobAdvances(k, "build_failed")
      BY <1>0, <1>1, <2>3, JobGotoAdvances DEF JobPcs
    <3> QED
      BY <1>2, <1>7, <2>1, <3>1 DEF JobAdvances, Provisioned
  <2> QED
    BY <1>9, <2>2, <2>3 DEF BuildBackend, Built
<1>10. CASE WriteBackendUnit(k)
  <2>1. /\ job[k].pc = "unit" /\ UNCHANGED <<proc, bins>> /\ file'[s] = job[k].port
        /\ JobGoto(k, "enable")
    BY <1>2, <1>10 DEF WriteBackendUnit, JobAt
  <2>2. JobAdvances(k, "enable")
    BY <1>0, <1>1, <2>1, JobGotoAdvances DEF JobPcs
  <2> QED
    BY <1>2, <1>7, <2>1, <2>2 DEF JobAdvances, Provisioned, Built
<1>11. CASE EnableBackendUnit(k)
  <2>1. /\ job[k].pc = "enable" /\ UNCHANGED <<file, proc, bins>>
        /\ JobGoto(k, IF file[s] = NoPort THEN "provision_failed" ELSE "restart")
    BY <1>11 DEF EnableBackendUnit, JobAt
  <2>2. file[s] = job[k].port
    BY <1>2, <2>1 DEF Provisioned
  <2>3. JobAdvances(k, "restart")
    BY <1>0, <1>1, <1>4, <2>1, <2>2, JobGotoAdvances DEF JobPcs
  <2> QED
    BY <1>2, <1>7, <2>1, <2>3 DEF JobAdvances, Provisioned, Built
<1>12. CASE RestartBackendUnit(k)
  <2>1. job[k].pc = "restart" /\ UNCHANGED <<file, bins>>
    BY <1>12 DEF RestartBackendUnit, JobAt
  <2>2. file[s] = job[k].port /\ Built(s)
    BY <1>2, <2>1 DEF Provisioned
  <2>3. proc' = [proc EXCEPT ![s] = Runs(s, file[s])] /\ JobGoto(k, "ready")
    BY <1>4, <1>12, <2>2 DEF RestartBackendUnit
  <2>4. proc'[s] = job[k].port
    BY <1>2, <2>2, <2>3 DEF Runs, Built
  <2>5. JobAdvances(k, "ready")
    BY <1>0, <1>1, <2>3, JobGotoAdvances DEF JobPcs
  <2> QED
    BY <1>7, <2>1, <2>2, <2>4, <2>5 DEF JobAdvances, Provisioned, Built
<1>13. ASSUME NEW st \in Statuses, docs' = ReplaceOne(docs, JobDoc(k, st))
       PROVE  Found(docs', s) /\ FindOne(docs', s) = JobDoc(k, st)
  BY <1>2, <1>3, <1>13, ReplaceFinds
<1>14. CASE RecordFailure(k)
  <2>1. job[k].pc \in {"build_failed", "provision_failed"} /\ UNCHANGED <<file, proc, bins>>
        /\ docs' = ReplaceOne(docs, JobDoc(k, job[k].pc)) /\ JobEnd(k)
    BY <1>0, <1>14 DEF RecordFailure, Mishap, TypeOK
  <2>2. job[k].pc = "build_failed"
    BY <1>2, <2>1 DEF Provisioned
  <2>3. Found(docs', s) /\ FindOne(docs', s).status = "build_failed"
    BY <1>13, <2>1, <2>2 DEF Statuses, JobDoc
  <2>4. Settled(s)'
    BY <1>2, <2>1, <2>2, <2>3 DEF Provisioned, Settled, FileFits
  <2> QED
    BY <1>8, <2>1, <2>4
<1>15. CASE RecordReady(k)
  <2>1. job[k].pc = "ready" /\ UNCHANGED <<file, proc, bins>> /\ JobGoto(k, "route")
    BY <1>0, <1>15 DEF RecordReady, JobAt, Mishap, TypeOK
  <2>2. JobAdvances(k, "route")
    BY <1>0, <1>1, <2>1, JobGotoAdvances DEF JobPcs
  <2> QED
    BY <1>2, <1>7, <2>1, <2>2 DEF JobAdvances, Provisioned, Built
<1>16. CASE PublishRoute(k)
  <2>1. job[k].pc = "route" /\ UNCHANGED <<docs, file, proc, bins>> /\ JobEnd(k)
    BY <1>16 DEF PublishRoute, JobAt
  <2>2. FindOne(docs, s).status = "ready" /\ FindOne(docs, s).port = job[k].port
    BY <1>3, <2>1 DEF JobDoc
  <2>3. Settled(s)'
    BY <1>2, <1>3, <1>4, <2>1, <2>2 DEF Provisioned, Settled, FileFits, Built
  <2> QED
    BY <1>8, <2>1, <2>3
<1>17. ~ProvisionFails(k)
  BY <1>0 DEF ProvisionFails, Mishap, TypeOK
<1> QED
  BY <1>9, <1>10, <1>11, <1>12, <1>14, <1>15, <1>16, <1>17 DEF ProvisionDeployment

\* And so does a request that begins.
LEMMA BeginUnits ==
  ASSUME TypeOK, Polite, NEW c \in Clients, NEW i, NEW s \in Stages, NEW op \in Ops,
         NEW pc \in RequestPcs, NEW d, Begin(c, i, s, op, pc, d), Enters(s, op, pc, d),
         UnitFacts(s)
  PROVE  UnitFacts(s)'
<1>1. /\ req'[c] # Idle
      /\ req'[c].pc = pc /\ req'[c].op = op /\ req'[c].id = s
      /\ \A e \in Clients \ {c} : req'[e] = req[e]
      /\ UNCHANGED <<docs, file, proc, bins, job>>
      /\ \A e \in Clients : req[e] # Idle => req[e].id # s
      /\ \A k \in Jobs : job[k] # Idle => job[k].id # s
  BY BeginFact DEF Quiet
<1>2. Settled(s)
  BY <1>1 DEF UnitFacts, AtRest, Asks, Serves
<1>3. Settled(s)'
  BY <1>1, <1>2 DEF Settled, FileFits, Built
<1>4. Handled(req[c])'
  BY <1>1, <1>2 DEF Handled, Enters, Settled, FileFits, Built, AbsentPcs
<1>5. \A k \in Jobs : ~Serves(k, s)'
  BY <1>1 DEF Serves
<1>6. \A e \in Clients : Asks(e, s)' => e = c
  BY <1>1 DEF Asks
<1> QED
  BY <1>3, <1>4, <1>5, <1>6 DEF UnitFacts, AtRest

\* UnitFacts is inductive while nothing goes wrong, given CopyInv.
LEMMA UnitStep ==
  ASSUME Polite, OwnBinaries, UnitInv, [Next]_vars, CopyInv'
  PROVE  UnitInv'
<1>0. CopyInv /\ PoliteInv /\ TypeOK
  BY DEF UnitInv, CopyInv, PoliteInv
<1> SUFFICES ASSUME mishaps' = 0, NEW t \in Stages PROVE UnitFacts(t)'
  BY DEF UnitInv
<1>1. ASSUME mishaps = 0 PROVE UnitFacts(t) /\ Copies(t) /\ mishaps' = mishaps
  BY <1>1 DEF UnitInv, CopyInv
<1>2. ASSUME Leaves(t) PROVE UnitFacts(t)'
  BY <1>1, <1>2, LeavesUnits DEF Leaves, KeepsUnit
<1>3. ASSUME NEW c \in Clients, Request(c) PROVE UnitFacts(t)'
  <2>0. PICK i \in Instances, s \in Stages, op \in Ops, pc \in RequestPcs : \E d :
          Begin(c, i, s, op, pc, d) /\ Enters(s, op, pc, d)
    BY <1>3, RequestEnters
  <2>1. PICK d : Begin(c, i, s, op, pc, d) /\ Enters(s, op, pc, d)
    BY <2>0
  <2>2. mishaps = 0
    BY <2>1 DEF Begin
  <2> QED
    BY <1>0, <1>1, <1>2, <2>1, <2>2, BeginLeaves, BeginUnits
<1>4. ASSUME mishaps' = mishaps \/ Mishap PROVE mishaps = 0
  BY <1>0, <1>4, MishapAssumption DEF Mishap, TypeOK
<1>5. ASSUME NEW c \in Clients, Handle(c) PROVE UnitFacts(t)'
  <2>1. mishaps = 0
    BY <1>4, <1>5 DEF Handle, StopBackendService, StartBackendService,
       DisableBackendService, RemoveBackendServiceFile, RemoveDeployment,
       DeleteDeployment, RemoveBinary, ResetStage, GetReadyStage, AllocatePort,
       CreateDeployment, UpdateDeployment, UpdateProxy, CallFails
  <2> QED
    BY <1>0, <1>1, <1>2, <1>5, <2>1, HandleLeaves, HandleUnits
<1>6. ASSUME NEW k \in Jobs, ProvisionDeployment(k) PROVE UnitFacts(t)'
  <2>1. mishaps = 0
    BY <1>4, <1>6 DEF ProvisionDeployment, BuildBackend, WriteBackendUnit,
       EnableBackendUnit, RestartBackendUnit, ProvisionFails, RecordFailure, RecordReady,
       PublishRoute
  <2> QED
    BY <1>0, <1>1, <1>2, <1>6, <2>1, ProvisionLeaves, ProvisionUnits
<1>7. ASSUME UNCHANGED <<docs, file, proc, bins, req, job, mishaps>> PROVE UnitFacts(t)'
  <2>1. mishaps = 0 /\ KeepsDoc(t) /\ KeepsWork(t) /\ (Built(t)' <=> Built(t))
    BY <1>7 DEF KeepsDoc, KeepsWork, Asks, Serves, Built
  <2> QED
    BY <1>1, <1>7, <2>1, UnitsFrame
<1>8. ASSUME NEW s \in Stages, StageChanges(s) PROVE UnitFacts(t)'
  BY <1>7, <1>8 DEF StageChanges
<1>9. ASSUME NEW i \in Instances, Restart(i) PROVE FALSE
  BY <1>0, <1>9, MishapAssumption DEF Restart, Mishap, TypeOK
<1>10. CASE UNCHANGED vars
  BY <1>7, <1>10 DEF vars
<1> QED
  BY <1>3, <1>5, <1>6, <1>8, <1>9, <1>10 DEF Next

\* UnitInv holds in every reachable state.
LEMMA UnitInvariant ==
  ASSUME Polite, OwnBinaries
  PROVE  Spec => []UnitInv
<1>1. Init => \A s \in Stages : UnitFacts(s)
  BY DEF Init, UnitFacts, AtRest, Settled, Found, Asks, Serves
<1>2. Init /\ CopyInv => UnitInv
  BY <1>1 DEF UnitInv
<1>3. UnitInv /\ [Next]_vars /\ CopyInv' => UnitInv'
  BY UnitStep
<1> QED
  BY <1>2, <1>3, CopyInvariant, PTL DEF Spec

\* With polite operators and one binary per stage, and as long as nothing
\* went wrong, a deployment that nobody works on is what the collection says
\* it is: running on its port when ready, not running otherwise, and without
\* a unit file when it is gone.
THEOREM UnitsAgree ==
  ASSUME Polite, OwnBinaries
  PROVE  Spec => []UnitsMatchDocs
<1>1. UnitInv => UnitsMatchDocs
  <2> SUFFICES ASSUME UnitInv, NEW s \in Stages, mishaps = 0, Quiet(s) PROVE Settled(s)
    BY DEF UnitsMatchDocs, Settled, FileFits
  <2> QED
    BY DEF UnitInv, UnitFacts, AtRest, Quiet, Asks, Serves
<1> QED
  BY <1>1, UnitInvariant, PTL

-----------------------------------------------------------------------------
(* Ports.  A port is free as long as no document has it, so that between   *)
(* its allocation and the insert of the document that takes it nothing     *)
(* else may be inserted.                                                   *)

\* At most one create request is in flight; all other requests, goroutines,
\* restarts and failures may come in between its calls.
OneCreation ==
  \A c, e \in Clients :
    /\ req[c] # Idle /\ req[c].op = "deploy"
    /\ req[e] # Idle /\ req[e].op = "deploy"
    => c = e

\* The port a handler is about to insert a document with is still free.
PortFacts ==
  /\ PortsDistinct
  /\ \A c \in Clients : req[c] # Idle /\ req[c].pc = "insert" =>
       \A j \in DOMAIN docs : docs[j].port # req[c].dep.port

\* The layer about ports.
PortInv == CopyInv /\ PortFacts

\* Replacing a document by one with the same port moves no port.
LEMMA ReplaceKeepsPorts ==
  ASSUME PoliteInv, NEW d \in DocRecs, docs' = ReplaceOne(docs, d),
         Found(docs, d.id), d.port = FindOne(docs, d.id).port
  PROVE  DOMAIN docs' = DOMAIN docs /\ \A i \in DOMAIN docs : docs'[i].port = docs[i].port
<1>1. docs \in Seq(DocRecs) /\ UniqueIds(docs)
  BY UniqueDocs
<1>2. /\ DOMAIN docs' = DOMAIN docs
      /\ \A i \in DOMAIN docs : docs'[i].id = docs[i].id /\ docs'[i] \in {docs[i], d}
  BY <1>1, ReplaceOneShape
<1>3. \A i \in DOMAIN docs : docs'[i] = d => FindOne(docs, d.id) = docs[i]
  BY <1>1, <1>2, UniqueFinds
<1> QED
  BY <1>2, <1>3

\* A step that moves no port and allocates none.
LEMMA PortsFrame ==
  ASSUME PortFacts, DOMAIN docs' = DOMAIN docs,
         \A i \in DOMAIN docs : docs'[i].port = docs[i].port,
         \A c \in Clients : req'[c] # Idle /\ req'[c].pc = "insert" => req'[c] = req[c]
  PROVE  PortFacts'
<1>1. PortsDistinct'
  BY DEF PortFacts, PortsDistinct
<1>2. ASSUME NEW c \in Clients, req'[c] # Idle, req'[c].pc = "insert"
      PROVE  \A j \in DOMAIN docs' : docs'[j].port # req'[c].dep.port
  BY <1>2 DEF PortFacts
<1> QED
  BY <1>1, <1>2 DEF PortFacts

\* A call of a handler keeps ports apart: the port is allocated from the
\* documents, and nothing is inserted before the document that takes it.
LEMMA HandlePorts ==
  ASSUME PortInv, OneCreation, NEW c \in Clients, Handle(c)
  PROVE  PortFacts'
<1> DEFINE d == req[c].dep
           s == req[c].id
<1>0. PoliteInv /\ TypeOK /\ PortFacts
  BY DEF PortInv, CopyInv, PoliteInv
<1>1. /\ req[c] # Idle
      /\ Moves(c, After(req[c].pc, req[c].op))
  BY <1>0, HandleMoves
<1>2. /\ d \in DocRecs /\ d.id = s /\ s \in Stages /\ req[c].pc \in RequestPcs
      /\ docs \in Seq(DocRecs) /\ UniqueIds(docs)
  BY <1>0, <1>1, InFlight, UniqueDocs DEF PoliteInv, TypeOK, Requests, OwnCopy
<1>3. TrueCopy(req[c])
  BY <1>1, <1>2 DEF PortInv, CopyInv, Copies, Asks
<1> HIDE DEF d
<1>4. req[c].pc \in {"port", "insert"} =>
        \A e \in Clients \ {c} : ~(req[e] # Idle /\ req[e].pc = "insert")
  BY <1>0, <1>1 DEF OneCreation, PoliteInv, PcOps
<1>5. req'[c] # Idle /\ req'[c].pc = "insert" => req[c].pc = "port"
  BY <1>1, <1>2, BeforeFact DEF Moves
<1>6. /\ \A e \in Clients \ {c} : req'[e] = req[e]
      /\ req[c].pc # "port" =>
           \A e \in Clients : req'[e] # Idle /\ req'[e].pc = "insert" => e # c /\ req'[e] = req[e]
  BY <1>1, <1>5 DEF Moves
<1>7. CASE docs' = docs /\ req[c].pc # "port"
  BY <1>0, <1>6, <1>7, PortsFrame
<1>8. CASE AllocatePort(c)
  <2>1. docs' = docs /\ req[c].pc = "port"
    BY <1>8 DEF AllocatePort, At
  <2>2. CASE Finish(c)
    <3>1. req'[c] = Idle
      BY <1>0, <2>2 DEF Finish, TypeOK
    <3> QED
      BY <1>0, <1>6, <2>1, <3>1, PortsFrame
  <2>3. ASSUME NEW p \in FreePorts, GotoWith(c, "insert", [d EXCEPT !.port = p])
        PROVE  PortFacts'
    <3> DEFINE f == [d EXCEPT !.port = p]
    <3>1. f.port = p /\ GotoWith(c, "insert", f)
      BY <1>2, <2>3 DEF DocRecs
    <3> HIDE DEF f
    <3>2. Advances(c, "insert", f)
      BY <1>0, <1>1, <3>1, GotoWithAdvances DEF RequestPcs
    <3>3. \A j \in DOMAIN docs' : docs'[j].port # p
      BY <2>1 DEF FreePorts
    <3>4. PortsDistinct'
      BY <1>0, <2>1 DEF PortFacts, PortsDistinct
    <3>5. \A e \in Clients \ {c} : ~(req'[e] # Idle /\ req'[e].pc = "insert")
      BY <1>4, <1>6, <2>1
    <3> QED
      BY <3>1, <3>2, <3>3, <3>4, <3>5 DEF PortFacts, Advances
  <2> QED
    BY <1>8, <2>2, <2>3 DEF AllocatePort, d
<1>9. CASE req[c].pc = "insert" /\ docs' = InsertOne(docs, d)
  <2>1. \A j \in DOMAIN docs : docs[j].port # d.port
    BY <1>0, <1>1, <1>9 DEF PortFacts, d
  <2>2. /\ DOMAIN docs' = 1 .. Len(docs) + 1 /\ DOMAIN docs = 1 .. Len(docs)
        /\ docs'[Len(docs) + 1] = d /\ \A i \in 1 .. Len(docs) : docs'[i] = docs[i]
    BY <1>2, <1>9 DEF InsertOne
  <2>3. PortsDistinct'
    BY <1>0, <2>1, <2>2 DEF PortFacts, PortsDistinct
  <2>4. \A e \in Clients : ~(req'[e] # Idle /\ req'[e].pc = "insert")
    BY <1>4, <1>6, <1>9
  <2> QED
    BY <2>3, <2>4 DEF PortFacts
<1>10. CASE req[c].pc = "replace" /\ docs' = ReplaceOne(docs, d)
  <2>1. Found(docs, d.id) /\ d.port = FindOne(docs, d.id).port
    BY <1>2, <1>3, <1>10 DEF TrueCopy, Revises, d
  <2> QED
    BY <1>0, <1>2, <1>6, <1>10, <2>1, ReplaceKeepsPorts, PortsFrame
<1>11. CASE req[c].pc = "deldoc" /\ docs' = DeleteOne(docs, s)
  <2>1. \A j \in DOMAIN docs' : \E i \in DOMAIN docs : docs'[j] = docs[i]
    BY <1>2, <1>11, DeleteOneFact
  <2>2. UniqueIds(docs')
    BY <1>2, <1>11, DeleteOneUnique
  <2>3. PortsDistinct'
    BY <1>0, <2>1, <2>2 DEF PortFacts, PortsDistinct, UniqueIds
  <2>4. ASSUME NEW e \in Clients, req'[e] # Idle, req'[e].pc = "insert", NEW j \in DOMAIN docs'
        PROVE  docs'[j].port # req'[e].dep.port
    BY <1>0, <1>6, <1>11, <2>1, <2>4 DEF PortFacts
  <2> QED
    BY <2>3, <2>4 DEF PortFacts
<1>12. CASE CallFails(c)
  <2>1. docs' = docs /\ req'[c] = Idle
    BY <1>0, <1>12 DEF CallFails, Finish, TypeOK
  <2> QED
    BY <1>0, <1>6, <2>1, PortsFrame
<1>13. AllocatePort(c) \/ CallFails(c) \/ req[c].pc # "port"
  BY DEF Handle, StopBackendService, StartBackendService, DisableBackendService,
     RemoveBackendServiceFile, RemoveDeployment, DeleteDeployment, RemoveBinary, ResetStage,
     GetReadyStage, CreateDeployment, UpdateDeployment, UpdateProxy, At
<1> QED
  BY <1>0, <1>7, <1>8, <1>9, <1>10, <1>11, <1>12, <1>13, HandleDocs DEF d

\* A goroutine writes the port its document has already.
LEMMA ProvisionPorts ==
  ASSUME PortInv, NEW k \in Jobs, ProvisionDeployment(k)
  PROVE  PortFacts'
<1>0. PoliteInv /\ TypeOK /\ PortFacts
  BY DEF PortInv, CopyInv, PoliteInv
<1>1. job[k] # Idle /\ req' = req
  BY <1>0, ProvisionMoves
<1>2. job[k].id \in Stages /\ \A st \in Statuses : JobDoc(k, st) \in DocRecs
  BY <1>0, <1>1, InFlight, JobDocType DEF JobRecs
<1>3. Found(docs, job[k].id) /\ FindOne(docs, job[k].id).port = job[k].port
  BY <1>1, <1>2 DEF PortInv, CopyInv, Provisions, Serves, JobDoc
<1>4. docs' = docs \/ \E st \in Statuses : docs' = ReplaceOne(docs, JobDoc(k, st))
  BY DEF ProvisionDeployment, BuildBackend, WriteBackendUnit, EnableBackendUnit,
     RestartBackendUnit, ProvisionFails, RecordFailure, RecordReady, PublishRoute, Statuses
<1>5. ASSUME NEW st \in Statuses, docs' = ReplaceOne(docs, JobDoc(k, st))
      PROVE  /\ DOMAIN docs' = DOMAIN docs
             /\ \A i \in DOMAIN docs : docs'[i].port = docs[i].port
  <2>1. JobDoc(k, st).id = job[k].id /\ JobDoc(k, st).port = job[k].port
    BY DEF JobDoc
  <2> QED
    BY <1>0, <1>2, <1>3, <1>5, <2>1, ReplaceKeepsPorts
<1> QED
  BY <1>0, <1>1, <1>4, <1>5, PortsFrame

\* PortInv holds in every state of a behaviour with one creation at once.
LEMMA PortInvariant ==
  ASSUME Polite
  PROVE  Spec /\ []OneCreation => []PortInv
<1>1. Init => PortFacts
  BY DEF Init, PortFacts, PortsDistinct
<1>2. PortInv /\ OneCreation /\ [Next]_vars => PortFacts'
  <2> SUFFICES ASSUME PortInv, OneCreation, [Next]_vars PROVE PortFacts'
    OBVIOUS
  <2>0. PortFacts /\ TypeOK
    BY DEF PortInv, CopyInv, PoliteInv
  <2>1. ASSUME NEW c \in Clients, Request(c) PROVE PortFacts'
    <3>1. PICK i \in Instances, s \in Stages, op \in Ops, pc \in RequestPcs :
            \E d : Begin(c, i, s, op, pc, d) /\ Enters(s, op, pc, d)
      BY <2>0, <2>1, RequestEnters
    <3>2. PICK d : Begin(c, i, s, op, pc, d) /\ Enters(s, op, pc, d)
      BY <3>1
    <3>3. /\ req'[c].pc = pc /\ docs' = docs
          /\ \A e \in Clients \ {c} : req'[e] = req[e]
      BY <2>0, <3>2, BeginFact
    <3>4. pc # "insert"
      BY <3>2 DEF Enters
    <3> QED
      BY <2>0, <3>3, <3>4, PortsFrame
  <2>2. ASSUME NEW c \in Clients, Handle(c) PROVE PortFacts'
    BY <2>2, HandlePorts
  <2>3. ASSUME NEW k \in Jobs, ProvisionDeployment(k) PROVE PortFacts'
    BY <2>3, ProvisionPorts
  <2>4. ASSUME docs' = docs, \A c \in Clients : req'[c] = Idle \/ req'[c] = req[c]
        PROVE  PortFacts'
    BY <2>0, <2>4, PortsFrame
  <2>5. (\E s \in Stages : StageChanges(s)) \/ (\E i \in Instances : Restart(i))
        \/ UNCHANGED vars => PortFacts'
    BY <2>4 DEF StageChanges, Restart, vars
  <2> QED
    BY <2>1, <2>2, <2>3, <2>5 DEF Next
<1>3. Init /\ CopyInv => PortInv
  BY <1>1 DEF PortInv
<1>4. PortInv /\ OneCreation /\ [Next]_vars /\ CopyInv' => PortInv'
  BY <1>2 DEF PortInv
<1> QED
  BY <1>3, <1>4, CopyInvariant, PTL DEF Spec

\* In a behaviour in which creations do not overlap, no two deployments get
\* one port, whatever promotions, starts, stops, deletes, goroutines, restarts
\* and failed calls come between the calls of a creation.
THEOREM PortsApart ==
  ASSUME Polite
  PROVE  Spec /\ []OneCreation => []PortsDistinct
<1>1. PortInv => PortsDistinct
  BY DEF PortInv, PortFacts
<1> QED
  BY <1>1, PortInvariant, PTL

-----------------------------------------------------------------------------
(* Where requests for a deployment end up.                                 *)

\* A running service is on the port that the collection records for it.
LEMMA RunsOnItsPort ==
  ASSUME UnitInv, mishaps = 0, NEW t \in Stages, proc[t] # NoPort
  PROVE  Found(docs, t) /\ FindOne(docs, t).port = proc[t]
<1>1. UnitFacts(t) /\ Copies(t) /\ Provisions(t) /\ PcOps /\ TypeOK
  BY DEF UnitInv, CopyInv, PoliteInv
<1>2. ASSUME NEW k \in Jobs, Serves(k, t)
      PROVE  Found(docs, t) /\ FindOne(docs, t).port = proc[t]
  <2>1. Found(docs, t) /\ FindOne(docs, t).port = job[k].port
    BY <1>1, <1>2 DEF Provisions, JobDoc
  <2>2. proc[t] = IF job[k].pc \in {"ready", "route"} THEN job[k].port ELSE NoPort
    BY <1>1, <1>2 DEF UnitFacts, Serves, Provisioned
  <2> QED
    BY <2>1, <2>2
<1>3. ASSUME NEW c \in Clients, Asks(c, t), ~Harmless(req[c])
      PROVE  Found(docs, t) /\ FindOne(docs, t).port = proc[t]
  <2>1. /\ req[c].pc \in RequestPcs /\ Handled(req[c]) /\ TrueCopy(req[c])
        /\ req[c].id = t
    BY <1>1, <1>3, InFlight DEF UnitFacts, Copies, Asks, Requests
  <2>2. req[c].pc = "replace" => req[c].op \in {"promote", "shutdown", "start"}
    BY <1>1, <1>3 DEF PcOps, Asks
  <2>3. req[c].pc = "replace" /\ req[c].op = "start"
    BY <1>3, <2>1, <2>2 DEF Harmless, Handled, RequestPcs, AbsentPcs
  <2> QED
    BY <2>1, <2>3 DEF Handled, FileFits, TrueCopy
<1>4. CASE Settled(t)
  BY <1>4 DEF Settled
<1> QED
  BY <1>1, <1>2, <1>3, <1>4 DEF UnitFacts, AtRest

\* A stage's URL leads to its own process or, when the table has no entry
\* for the stage, to the main deployment's, if creations do not overlap:
\* routes go before documents, documents hold the ports of running services,
\* and no two documents hold one port.
THEOREM NobodyMisrouted ==
  ASSUME Polite, OneDaemon, OwnBinaries
  PROVE  Spec /\ []OneCreation => []NoMisroute
<1>1. RouteInv /\ UnitInv /\ PortInv => NoMisroute
  <2> SUFFICES ASSUME RouteInv, UnitInv, PortInv, mishaps = 0,
                      NEW i \in Instances, NEW s \in Stages, NEW t \in Stages,
                      StageTarget(route[i], s) # NoPort,
                      proc[t] = StageTarget(route[i], s)
               PROVE  t = s \/ (route[i].dep[s] = NoPort /\ t = route[i].main)
    BY DEF NoMisroute
  <2>1. docs \in Seq(DocRecs) /\ PortsDistinct
    BY UniqueDocs DEF PortInv, PortFacts, CopyInv
  <2>2. ASSUME NEW u \in Stages, route[i].dep[u] # NoPort, proc[t] = route[i].dep[u]
        PROVE  t = u
    <3>1. Found(docs, u) /\ FindOne(docs, u).port = route[i].dep[u]
      BY <2>2 DEF RouteInv, RouteFacts
    <3>2. Found(docs, t) /\ FindOne(docs, t).port = proc[t]
      BY <2>2, RunsOnItsPort
    <3>3. FirstIndex(docs, u) = FirstIndex(docs, t)
      BY <2>1, <2>2, <3>1, <3>2, FirstIndexFact DEF PortsDistinct, FindOne
    <3> QED
      BY <2>1, <3>1, <3>2, <3>3, FirstIndexFact
  <2>3. CASE route[i].dep[s] # NoPort
    BY <2>2, <2>3 DEF StageTarget
  <2>4. CASE route[i].dep[s] = NoPort
    <3>1. /\ route[i].main # NoStage
          /\ StageTarget(route[i], s) = route[i].dep[route[i].main]
      BY <2>4 DEF StageTarget, RootTarget
    <3>2. route[i].main \in Stages
      BY <3>1, UniqueDocs DEF PortInv, CopyInv, PoliteInv, TypeOK, RouteMaps
    <3> QED
      BY <2>2, <2>4, <3>1, <3>2
  <2> QED
    BY <2>3, <2>4
<1> QED
  BY <1>1, RouteInvariant, UnitInvariant, PortInvariant, PTL
=============================================================================
