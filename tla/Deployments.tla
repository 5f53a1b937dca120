---------------------------- MODULE Deployments ----------------------------
(***************************************************************************)
(* The deployment lifecycle of the hypervisor daemon: the HTTP handlers of *)
(* internal/api/deployments.go, core.PromoteStage, core.AllocatePort, the  *)
(* goroutine core.ProvisionDeployment and the start-up of the proxy, over  *)
(* a shared "deployments" collection, shared systemd units and binaries,   *)
(* and one in-memory RouteMap per running daemon.                          *)
(*                                                                         *)
(* Every call that leaves the process (MongoDB, systemctl, the file        *)
(* system) and every call of the RouteMap is a step of its own, because    *)
(* nothing is held across them: a handler works on the copy of the         *)
(* document it read at its start, and so does the goroutine.               *)
(***************************************************************************)
EXTENDS Collection, RouteMap

CONSTANTS
  Clients,      \* operators of the API, each with one request at a time
  Instances,    \* running daemons: one, or the blue and the green service
  Jobs,         \* slots for provisioning goroutines (a bound on their number)
  VersionOf,    \* stage id -> the release's tag without its v: the binary's name
  PortStart,    \* PORT_RANGE_START
  PortEnd,      \* PORT_RANGE_END
  MaxMishaps,   \* bound on mishaps: a daemon restarted, a call that failed
  Polite        \* TRUE: nobody asks for a deployment that is being worked on

ASSUME PortAssumption == PortStart \in Nat \ {0} /\ PortEnd \in Nat
ASSUME MishapAssumption == MaxMishaps \in Nat
ASSUME PoliteAssumption == Polite \in BOOLEAN

Ports == PortStart .. PortEnd
Versions == {VersionOf[s] : s \in Stages}
Idle == [pc |-> "idle"]

Ops == {"deploy", "promote", "shutdown", "start", "delete", "force_delete"}

\* Where a request stands: the call it makes next.
RequestPcs == {"stop", "start", "disable", "rmunit", "unroute", "deldoc", "rmbin",
               "resetstage", "getstage", "port", "insert", "replace", "route"}

\* Where a provisioning goroutine stands; the last two are error paths,
\* named for the status they record.
JobPcs == {"build", "unit", "enable", "restart", "ready", "route",
           "build_failed", "provision_failed"}

Statuses == {"provisioning", "ready", "stopped", "build_failed", "provision_failed"}

VARIABLES
  docs,      \* the deployments collection
  stage,     \* status of each stage document, "none" when there is none
  file,      \* port in the unit file of a deployment, NoPort without a file
  proc,      \* port on which the service of a deployment runs, or NoPort
  bins,      \* the binaries in the builds directory, by version
  route,     \* the RouteMap of each daemon
  req,       \* the request each client has in flight
  job,       \* the provisioning goroutines
  mishaps    \* restarts and failed calls so far

vars == <<docs, stage, file, proc, bins, route, req, job, mishaps>>

\* The document PromoteStage makes of a stage, before and after AllocatePort.
NewDoc(s) == [id |-> s, port |-> NoPort, status |-> "provisioning", promoted |-> FALSE]

Init ==
  /\ docs = <<>>
  /\ stage \in [Stages -> {"none", "ready"}]
  /\ file = [s \in Stages |-> NoPort]
  /\ proc = [s \in Stages |-> NoPort]
  /\ bins = {}
  /\ route = [i \in Instances |-> NewRouteMap]
  /\ req = [c \in Clients |-> Idle]
  /\ job = [k \in Jobs |-> Idle]
  /\ mishaps = 0

-----------------------------------------------------------------------------
(* Requests: what they have in common.                                     *)

\* One more thing goes wrong.
Mishap == mishaps < MaxMishaps /\ mishaps' = mishaps + 1

\* No request is in flight for s and no goroutine provisions it.
Quiet(s) ==
  /\ \A c \in Clients : req[c] # Idle => req[c].id # s
  /\ \A k \in Jobs : job[k] # Idle => job[k].id # s

\* A client sends a request for s to daemon i: the handler has read its
\* document (d is its private copy from here on) and goes on at pc.
Begin(c, i, s, op, pc, d) ==
  /\ req[c] = Idle
  /\ Polite => Quiet(s)
  /\ req' = [req EXCEPT ![c] = [pc |-> pc, op |-> op, id |-> s, at |-> i, dep |-> d]]
  /\ UNCHANGED <<docs, stage, file, proc, bins, route, job, mishaps>>

At(c, pc) == req[c] # Idle /\ req[c].pc = pc
Goto(c, pc) == req' = [req EXCEPT ![c].pc = pc]
GotoWith(c, pc, d) == req' = [req EXCEPT ![c].pc = pc, ![c].dep = d]
Finish(c) == req' = [req EXCEPT ![c] = Idle]

\* Mutant: nothing is stopped before it is removed.
TeardownWithoutStop(d) == "disable"

\* Tearing a deployment down starts with a stop only if it was seen ready.
TeardownPc(d) == IF d.status = "ready" THEN "stop" ELSE "disable"

-----------------------------------------------------------------------------
(* The handlers' first step.  One that finds no document, or a promoted    *)
(* one it must not delete, answers an error and changes nothing: no action. *)

\* Mutant: only a ready deployment counts as an existing one.
CreateUnlessReady(c, i, s) ==
  \/ /\ Found(docs, s)
     /\ FindOne(docs, s).status = "ready"
     /\ Begin(c, i, s, "deploy", "stop", FindOne(docs, s))
  \/ /\ ~(Found(docs, s) /\ FindOne(docs, s).status = "ready")
     /\ Begin(c, i, s, "deploy", "getstage", NewDoc(s))

CreateDeploymentHandler(c, i, s) ==
  \/ /\ Found(docs, s)
     /\ Begin(c, i, s, "deploy", TeardownPc(FindOne(docs, s)), FindOne(docs, s))
  \/ /\ ~Found(docs, s)
     /\ Begin(c, i, s, "deploy", "getstage", NewDoc(s))

PromoteDeploymentHandler(c, i, s) ==
  /\ Found(docs, s)
  /\ Begin(c, i, s, "promote", "replace", [FindOne(docs, s) EXCEPT !.promoted = TRUE])

ShutdownDeploymentHandler(c, i, s) ==
  /\ Found(docs, s)
  /\ Begin(c, i, s, "shutdown", "stop", FindOne(docs, s))

StartDeploymentHandler(c, i, s) ==
  /\ Found(docs, s)
  /\ Begin(c, i, s, "start", "start", FindOne(docs, s))

DeleteDeploymentHandler(c, i, s, op) ==
  /\ Found(docs, s)
  /\ FindOne(docs, s).promoted => op = "force_delete"
  /\ Begin(c, i, s, op, TeardownPc(FindOne(docs, s)), FindOne(docs, s))

-----------------------------------------------------------------------------
(* The calls the handlers make.                                            *)

\* A unit whose binary is gone starts (Type=simple) and dies at once.
Runs(s, p) == IF VersionOf[s] \in bins THEN p ELSE NoPort

\* systemctl stop; an unknown unit (exit status 5) is not an error.
StopBackendService(c) ==
  /\ At(c, "stop")
  /\ proc' = [proc EXCEPT ![req[c].id] = NoPort]
  /\ IF req[c].op = "shutdown"
       THEN GotoWith(c, "replace",
                     [req[c].dep EXCEPT !.status = "stopped", !.promoted = FALSE])
       ELSE Goto(c, "disable")
  /\ UNCHANGED <<docs, stage, file, bins, route, job, mishaps>>

\* Mutant: the handler records a status the models do not know.
StartAsRunning(c) ==
  /\ At(c, "start")
  /\ file[req[c].id] # NoPort
  /\ proc' = [proc EXCEPT ![req[c].id] = Runs(req[c].id, file[req[c].id])]
  /\ GotoWith(c, "replace", [req[c].dep EXCEPT !.status = "running"])
  /\ UNCHANGED <<docs, stage, file, bins, route, job, mishaps>>

\* systemctl start: an error when there is no unit file, no change when the
\* service runs already.
StartBackendService(c) ==
  /\ At(c, "start")
  /\ \/ /\ file[req[c].id] = NoPort
        /\ Finish(c)
        /\ UNCHANGED proc
     \/ /\ file[req[c].id] # NoPort
        /\ proc' = [proc EXCEPT ![req[c].id] =
                      IF @ # NoPort THEN @ ELSE Runs(req[c].id, file[req[c].id])]
        /\ GotoWith(c, "replace", [req[c].dep EXCEPT !.status = "ready"])
  /\ UNCHANGED <<docs, stage, file, bins, route, job, mishaps>>

\* systemctl disable: an error when there is no unit file.
DisableBackendService(c) ==
  /\ At(c, "disable")
  /\ IF file[req[c].id] = NoPort THEN Finish(c) ELSE Goto(c, "rmunit")
  /\ UNCHANGED <<docs, stage, file, proc, bins, route, job, mishaps>>

\* Mutant: the route is left behind.
RemoveFileOnly(c) ==
  /\ At(c, "rmunit")
  /\ file' = [file EXCEPT ![req[c].id] = NoPort]
  /\ Goto(c, "deldoc")
  /\ UNCHANGED <<docs, stage, proc, bins, route, job, mishaps>>

RemoveBackendServiceFile(c) ==
  /\ At(c, "rmunit")
  /\ file' = [file EXCEPT ![req[c].id] = NoPort]
  /\ Goto(c, "unroute")
  /\ UNCHANGED <<docs, stage, proc, bins, route, job, mishaps>>

RemoveDeployment(c) ==
  /\ At(c, "unroute")
  /\ route' = [route EXCEPT ![req[c].at] = RemoveRoute(@, req[c].id)]
  /\ Goto(c, "deldoc")
  /\ UNCHANGED <<docs, stage, file, proc, bins, job, mishaps>>

DeleteDeployment(c) ==
  /\ At(c, "deldoc")
  /\ docs' = DeleteOne(docs, req[c].id)
  /\ Goto(c, "rmbin")
  /\ UNCHANGED <<stage, file, proc, bins, route, job, mishaps>>

\* Best effort: a failure is logged and the handler goes on.
RemoveBinary(c) ==
  /\ At(c, "rmbin")
  /\ \/ /\ bins' = bins \ {VersionOf[req[c].id]}
        /\ UNCHANGED mishaps
     \/ Mishap /\ UNCHANGED bins
  /\ Goto(c, "resetstage")
  /\ UNCHANGED <<docs, stage, file, proc, route, job>>

\* GetStageByID and UpdateStage, both with their errors ignored.  A redeploy
\* goes on as if there had been no deployment.
ResetStage(c) ==
  /\ At(c, "resetstage")
  /\ \/ /\ stage' = [stage EXCEPT ![req[c].id] = IF @ = "none" THEN @ ELSE "ready"]
        /\ UNCHANGED mishaps
     \/ Mishap /\ UNCHANGED stage
  /\ IF req[c].op = "deploy"
       THEN GotoWith(c, "getstage", NewDoc(req[c].id))
       ELSE Finish(c)
  /\ UNCHANGED <<docs, file, proc, bins, route, job>>

\* PromoteStage: the stage must exist and be ready (StageNotFound,
\* StageMissingEnv).
GetReadyStage(c) ==
  /\ At(c, "getstage")
  /\ IF stage[req[c].id] = "ready" THEN Goto(c, "port") ELSE Finish(c)
  /\ UNCHANGED <<docs, stage, file, proc, bins, route, job, mishaps>>

\* Mutant: a port is in use only while its deployment is ready.
PortsNotReady ==
  {p \in Ports : \A j \in DOMAIN docs : docs[j].status = "ready" => docs[j].port # p}

\* Ports no document of the collection holds.
FreePorts == {p \in Ports : \A j \in DOMAIN docs : docs[j].port # p}

\* The lowest free port, or an error when the range is exhausted.
AllocatePort(c) ==
  /\ At(c, "port")
  /\ \/ /\ FreePorts = {}
        /\ Finish(c)
     \/ \E p \in FreePorts :
          /\ \A q \in FreePorts : p <= q
          /\ GotoWith(c, "insert", [req[c].dep EXCEPT !.port = p])
  /\ UNCHANGED <<docs, stage, file, proc, bins, route, job, mishaps>>

\* CreateDeployment, then the goroutine is launched with its own copy.
CreateDeployment(c) ==
  /\ At(c, "insert")
  /\ docs' = InsertOne(docs, req[c].dep)
  /\ \E k \in Jobs :
       /\ job[k] = Idle
       /\ job' = [job EXCEPT ![k] = [pc |-> "build", id |-> req[c].id,
                                     at |-> req[c].at, port |-> req[c].dep.port]]
  /\ Goto(c, "route")
  /\ UNCHANGED <<stage, file, proc, bins, route, mishaps>>

\* models.UpdateDeployment: the whole copy replaces the document.
UpdateDeployment(c) ==
  /\ At(c, "replace")
  /\ docs' = ReplaceOne(docs, req[c].dep)
  /\ Goto(c, "route")
  /\ UNCHANGED <<stage, file, proc, bins, route, job, mishaps>>

\* GlobalRouteMap.UpdateDeployment with the handler's copy, and the answer.
UpdateProxy(c) ==
  /\ At(c, "route")
  /\ route' = [route EXCEPT ![req[c].at] = UpdateRoute(@, req[c].dep)]
  /\ Finish(c)
  /\ UNCHANGED <<docs, stage, file, proc, bins, job, mishaps>>

\* Any other call that returns an error ends the request where it stands:
\* nothing that was done is undone.
CallFails(c) ==
  /\ Mishap
  /\ req[c] # Idle
  /\ req[c].pc \in RequestPcs \ {"unroute", "rmbin", "resetstage", "route"}
  /\ Finish(c)
  /\ UNCHANGED <<docs, stage, file, proc, bins, route, job>>

-----------------------------------------------------------------------------
(* ProvisionDeployment.                                                    *)

JobAt(k, pc) == job[k] # Idle /\ job[k].pc = pc
JobGoto(k, pc) == job' = [job EXCEPT ![k].pc = pc]
JobEnd(k) == job' = [job EXCEPT ![k] = Idle]

\* The goroutine's copy of the document, with the status it is to get.
JobDoc(k, status) ==
  [id |-> job[k].id, port |-> job[k].port, status |-> status, promoted |-> FALSE]

\* buildBackend: an existing binary is used as it is; otherwise BUILD.sh,
\* which needs the stage's checkout, makes it or fails.
BuildBackend(k) ==
  /\ JobAt(k, "build")
  /\ \/ /\ VersionOf[job[k].id] \in bins
        /\ JobGoto(k, "unit")
        /\ UNCHANGED bins
     \/ /\ VersionOf[job[k].id] \notin bins
        /\ stage[job[k].id] # "none"
        /\ bins' = bins \cup {VersionOf[job[k].id]}
        /\ JobGoto(k, "unit")
     \/ /\ VersionOf[job[k].id] \notin bins
        /\ JobGoto(k, "build_failed")
        /\ UNCHANGED bins
  /\ UNCHANGED <<docs, stage, file, proc, route, req, mishaps>>

\* InstallBackendService, in three calls: write the unit file ...
WriteBackendUnit(k) ==
  /\ JobAt(k, "unit")
  /\ file' = [file EXCEPT ![job[k].id] = job[k].port]
  /\ JobGoto(k, "enable")
  /\ UNCHANGED <<docs, stage, proc, bins, route, req, mishaps>>

\* ... daemon-reload and enable, which need the file to be there ...
EnableBackendUnit(k) ==
  /\ JobAt(k, "enable")
  /\ JobGoto(k, IF file[job[k].id] = NoPort THEN "provision_failed" ELSE "restart")
  /\ UNCHANGED <<docs, stage, file, proc, bins, route, req, mishaps>>

\* ... and restart, which runs what the file says.
RestartBackendUnit(k) ==
  /\ JobAt(k, "restart")
  /\ \/ /\ file[job[k].id] = NoPort
        /\ JobGoto(k, "provision_failed")
        /\ UNCHANGED proc
     \/ /\ file[job[k].id] # NoPort
        /\ proc' = [proc EXCEPT ![job[k].id] = Runs(job[k].id, file[job[k].id])]
        /\ JobGoto(k, "ready")
  /\ UNCHANGED <<docs, stage, file, bins, route, req, mishaps>>

\* The log file cannot be opened, or a step of the installation fails.
ProvisionFails(k) ==
  /\ Mishap
  /\ job[k] # Idle
  /\ job[k].pc \in {"build", "unit", "enable", "restart"}
  /\ JobGoto(k, "provision_failed")
  /\ UNCHANGED <<docs, stage, file, proc, bins, route, req>>

\* Mutant: the failure is only logged.
DropFailure(k) ==
  /\ job[k] # Idle
  /\ job[k].pc \in {"build_failed", "provision_failed"}
  /\ JobEnd(k)
  /\ UNCHANGED <<docs, stage, file, proc, bins, route, req, mishaps>>

\* The failure is recorded with the goroutine's copy (an error is ignored).
RecordFailure(k) ==
  /\ job[k] # Idle
  /\ job[k].pc \in {"build_failed", "provision_failed"}
  /\ \/ docs' = ReplaceOne(docs, JobDoc(k, job[k].pc)) /\ UNCHANGED mishaps
     \/ Mishap /\ UNCHANGED docs
  /\ JobEnd(k)
  /\ UNCHANGED <<stage, file, proc, bins, route, req>>

\* Ready is recorded; when that fails the goroutine returns without routing.
RecordReady(k) ==
  /\ JobAt(k, "ready")
  /\ \/ /\ docs' = ReplaceOne(docs, JobDoc(k, "ready"))
        /\ JobGoto(k, "route")
        /\ UNCHANGED mishaps
     \/ /\ Mishap
        /\ JobEnd(k)
        /\ UNCHANGED docs
  /\ UNCHANGED <<stage, file, proc, bins, route, req>>

\* The deployment becomes routable at /<stageId>/*.
PublishRoute(k) ==
  /\ JobAt(k, "route")
  /\ route' = [route EXCEPT ![job[k].at] = UpdateRoute(@, JobDoc(k, "ready"))]
  /\ JobEnd(k)
  /\ UNCHANGED <<docs, stage, file, proc, bins, req, mishaps>>

-----------------------------------------------------------------------------
(* Around the handlers.                                                    *)

\* What the stage and test handlers do to the one field of a stage this
\* module reads: PrepareStage, UpdateStageEnv or a passed test, StartTest,
\* DeleteStage.
StageChanges(s) ==
  /\ \/ stage[s] = "none" /\ stage' = [stage EXCEPT ![s] = "pre"]
     \/ stage[s] = "pre" /\ stage' = [stage EXCEPT ![s] = "ready"]
     \/ stage[s] = "ready" /\ stage' = [stage EXCEPT ![s] = "pre"]
     \/ stage[s] # "none" /\ stage' = [stage EXCEPT ![s] = "none"]
  /\ UNCHANGED <<docs, file, proc, bins, route, req, job, mishaps>>

\* A daemon stops, by a signal or a crash, and starts again: its requests
\* and goroutines are gone, its table is loaded anew, the services it
\* manages run on.
Restart(i) ==
  /\ Mishap
  /\ req' = [c \in Clients |-> IF req[c] # Idle /\ req[c].at = i THEN Idle ELSE req[c]]
  /\ job' = [k \in Jobs |-> IF job[k] # Idle /\ job[k].at = i THEN Idle ELSE job[k]]
  /\ route' = [route EXCEPT ![i] = LoadRoutes(docs)]
  /\ UNCHANGED <<docs, stage, file, proc, bins>>

Request(c) ==
  \E i \in Instances, s \in Stages :
    \/ CreateDeploymentHandler(c, i, s)
    \/ PromoteDeploymentHandler(c, i, s)
    \/ ShutdownDeploymentHandler(c, i, s)
    \/ StartDeploymentHandler(c, i, s)
    \/ \E op \in {"delete", "force_delete"} : DeleteDeploymentHandler(c, i, s, op)

Handle(c) ==
  \/ StopBackendService(c)
  \/ StartBackendService(c)
  \/ DisableBackendService(c)
  \/ RemoveBackendServiceFile(c)
  \/ RemoveDeployment(c)
  \/ DeleteDeployment(c)
  \/ RemoveBinary(c)
  \/ ResetStage(c)
  \/ GetReadyStage(c)
  \/ AllocatePort(c)
  \/ CreateDeployment(c)
  \/ UpdateDeployment(c)
  \/ UpdateProxy(c)
  \/ CallFails(c)

ProvisionDeployment(k) ==
  \/ BuildBackend(k)
  \/ WriteBackendUnit(k)
  \/ EnableBackendUnit(k)
  \/ RestartBackendUnit(k)
  \/ ProvisionFails(k)
  \/ RecordFailure(k)
  \/ RecordReady(k)
  \/ PublishRoute(k)

Next ==
  \/ \E c \in Clients : Request(c) \/ Handle(c)
  \/ \E k \in Jobs : ProvisionDeployment(k)
  \/ \E s \in Stages : StageChanges(s)
  \/ \E i \in Instances : Restart(i)

\* A handler and a goroutine, once started, run on: each call returns.
\* Nobody is obliged to send a request, touch a stage or restart a daemon.
Fairness ==
  /\ \A c \in Clients : WF_vars(Handle(c))
  /\ \A k \in Jobs : WF_vars(ProvisionDeployment(k))

Spec == Init /\ [][Next]_vars
FairSpec == Spec /\ Fairness
-----------------------------------------------------------------------------
(* Properties.                                                             *)

DocRecs ==
  [id : Stages, port : Ports \cup {NoPort}, status : Statuses, promoted : BOOLEAN]

Requests ==
  [pc : RequestPcs, op : Ops, id : Stages, at : Instances, dep : DocRecs]

JobRecs == [pc : JobPcs, id : Stages, at : Instances, port : Ports \cup {NoPort}]

RouteMaps == [dep : [Stages -> Ports \cup {NoPort}], main : Stages \cup {NoStage}]

\* Type invariant: every document, copy, table entry and unit holds a port
\* of the configured range or none, a known status and a known id.
TypeOK ==
  /\ docs \in Seq(DocRecs)
  /\ stage \in [Stages -> {"none", "pre", "ready"}]
  /\ file \in [Stages -> Ports \cup {NoPort}]
  /\ proc \in [Stages -> Ports \cup {NoPort}]
  /\ bins \subseteq Versions
  /\ route \in [Instances -> RouteMaps]
  /\ req \in [Clients -> Requests \cup {Idle}]
  /\ job \in [Jobs -> JobRecs \cup {Idle}]
  /\ mishaps \in 0 .. MaxMishaps

\* A deployment has one document, whatever redeploys and restarts did,
\* although the collection has no unique index and creation is a read
\* followed, several calls later, by an insert.
OneDocPerId ==
  \A i, j \in DOMAIN docs : docs[i].id = docs[j].id => i = j

\* AllocatePort hands out an available port: no two deployments hold one.
PortsDistinct ==
  \A i, j \in DOMAIN docs : docs[i].port = docs[j].port => i = j

\* A table that nobody is about to change routes a stage only to the
\* deployment the collection records as ready, on the port recorded there:
\* what the handlers and the goroutine tell the table agrees with what they
\* wrote, and a restart rebuilds no route that was taken away.
RoutesMatchDocs ==
  \A i \in Instances, s \in Stages :
    Quiet(s) /\ route[i].dep[s] # NoPort =>
      /\ Found(docs, s)
      /\ FindOne(docs, s).status = "ready"
      /\ FindOne(docs, s).port = route[i].dep[s]

\* The main deployment is one the collection still holds as promoted: a
\* shutdown or a delete takes main away with the promotion.
MainIsPromoted ==
  \A i \in Instances, s \in Stages :
    Quiet(s) /\ route[i].main = s =>
      Found(docs, s) /\ FindOne(docs, s).promoted

\* Where SetupRoutes sends a stage's URL runs nobody but the stage itself
\* or, when the stage has no entry and the request falls through, the main
\* deployment.  (README says "the matching ready deployment": there the code
\* does otherwise.)  The handlers take the route away before the document, and
\* with it the port, goes.  (A restart before the goroutine records ready
\* leaves a service nobody stops, so this is claimed only as long as nothing
\* went wrong.)
NoMisroute ==
  mishaps = 0 =>
    \A i \in Instances, s, t \in Stages :
      /\ StageTarget(route[i], s) # NoPort
      /\ proc[t] = StageTarget(route[i], s)
      => t = s \/ (route[i].dep[s] = NoPort /\ t = route[i].main)

\* Once nobody works on a deployment, and unless something went wrong, the
\* collection tells the truth about its service: ready means running on the
\* recorded port under a unit file that says so, anything else means not
\* running, and no document means that neither a service nor a unit file is
\* left behind.
UnitsMatchDocs ==
  \A s \in Stages : mishaps = 0 /\ Quiet(s) =>
    IF Found(docs, s)
      THEN LET d == FindOne(docs, s) IN
           IF d.status = "ready" THEN file[s] = d.port /\ proc[s] = d.port
                                 ELSE proc[s] = NoPort
      ELSE file[s] = NoPort /\ proc[s] = NoPort

\* Provisioning ends: a deployment recorded as provisioning is eventually
\* recorded as something else (or is gone).
ProvisioningEnds ==
  \A s \in Stages :
    (Found(docs, s) /\ FindOne(docs, s).status = "provisioning")
      ~> ~(Found(docs, s) /\ FindOne(docs, s).status = "provisioning")

-----------------------------------------------------------------------------
(* What keeps OneDocPerId true when operators are polite:                  *)
(* the conjuncts below are inductive together (DeploymentsProofs).         *)

\* A deployment is in the hands of at most one handler.
Exclusive ==
  \A c, e \in Clients :
    req[c] # Idle /\ req[e] # Idle /\ req[c].id = req[e].id => c = e

\* A handler's copy is a copy of its own deployment.
OwnCopy == \A c \in Clients : req[c] # Idle => req[c].dep.id = req[c].id

\* Calls between which a handler relies on there being no document: those
\* from the delete, or from the read that found none, to the insert.
AbsentPcs == {"rmbin", "resetstage", "getstage", "port", "insert"}

Absent ==
  \A c \in Clients :
    req[c] # Idle /\ req[c].pc \in AbsentPcs => ~Found(docs, req[c].id)

\* Which requests make which calls.
PcOps ==
  \A c \in Clients : req[c] # Idle =>
    /\ req[c].pc \in {"disable", "rmunit", "unroute", "deldoc"}
         => req[c].op \in {"deploy", "delete", "force_delete"}
    /\ req[c].pc = "stop"
         => req[c].op \in {"deploy", "delete", "force_delete", "shutdown"}
    /\ req[c].pc \in {"getstage", "port", "insert"} => req[c].op = "deploy"
    /\ req[c].pc = "start" => req[c].op = "start"
    /\ req[c].pc = "replace" => req[c].op \in {"promote", "shutdown", "start"}

PoliteInv ==
  /\ TypeOK
  /\ OneDocPerId
  /\ Exclusive
  /\ OwnCopy
  /\ Absent
  /\ PcOps

-----------------------------------------------------------------------------
(* What the documentation says and the code does not do.                   *)

\* README: promotion is always an explicit operator action.  A table that
\* takes up a main deployment does so in a promote request for it.
PromotionExplicit ==
  [][\A i \in Instances :
       /\ route'[i].main # route[i].main
       /\ route'[i].main # NoStage
       => \E c \in Clients : /\ req[c] # Idle /\ req[c].op = "promote"
                             /\ req[c].id = route'[i].main]_vars

\* README: a ready deployment is immediately reachable under its stage id;
\* at the latest it is once the request and the goroutine are both done.
ReadyIsRoutable ==
  \A s \in Stages :
    Quiet(s) /\ Found(docs, s) /\ FindOne(docs, s).status = "ready"
      => \A i \in Instances : route[i].dep[s] = FindOne(docs, s).port
=============================================================================
