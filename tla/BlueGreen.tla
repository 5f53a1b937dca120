----------------------------- MODULE BlueGreen -----------------------------
(***************************************************************************)
(* The two services of the hypervisor and the commands of hyperctl         *)
(* (internal/hyperctl/commands) that install, update, stop and remove      *)
(* them.  `trinity` builds a version, then drains, stops, repoints and     *)
(* starts the blue service, and then the green one; `manhattan` installs   *)
(* a version on both at once; `nagasaki` stops both, and `hiroshima`       *)
(* removes everything.  nginx (internal/hyperctl/nginx/nginx.conf) tries   *)
(* blue and falls back to green; drain mode is a variable of the running   *)
(* daemon (internal/app.go) that makes its ping answer 503 and changes no  *)
(* other answer.                                                           *)
(*                                                                         *)
(* Versions are numbers in the order of isVersionGreater.  One operator    *)
(* runs hyperctl at a time, and the prerequisites of its commands (user,   *)
(* group, systemctl, redis) are there.  A service whose binary or          *)
(* environment is missing when it is started stays down: the retries that  *)
(* systemd makes for it are left out.                                      *)
(***************************************************************************)
EXTENDS Integers

CONSTANTS
  Versions,    \* versions of the hypervisor there are tags for
  Broken,      \* versions that pass their tests but do not answer a ping
  Hanging,     \* those of them that take the connection and leave it open
  MaxMishaps,  \* bound on mishaps: a step that fails, the host rebooted
  Careful      \* TRUE: trinity is run only on an installation that stands,
               \* and while both services answer

ASSUME VersionAssumption == Versions \subseteq Nat \ {0}
ASSUME BrokenAssumption == Broken \subseteq Versions
ASSUME HangingAssumption == Hanging \subseteq Broken
ASSUME BoundAssumption == MaxMishaps \in Nat
ASSUME CarefulAssumption == Careful \in BOOLEAN

Services == {"blue", "green"}
Other(s) == IF s = "blue" THEN "green" ELSE "blue"
None == 0                       \* no version: no unit file, or not running
Idle == [pc |-> "idle"]

\* The step each command takes next.
TrinityPcs == {"build", "compile", "check", "drain", "stop", "binary", "start",
               "recheck", "undrain", "verify", "final"}
ManhattanPcs == {"layout", "build", "compile", "write", "enable", "restart", "health"}
NagasakiPcs == {"halt"}
HiroshimaPcs == {"halt", "disable", "rmunit", "rmdirs"}

VARIABLES
  builds,    \* versions with a binary in the builds directory
  lost,      \* versions whose binary a build removed and did not replace
  env,       \* the hypervisor's environment file exists
  unit,      \* version in the ExecStart line of each unit file, or None
  enabled,   \* the service is started when the host boots
  up,        \* version each service runs, or None
  drain,     \* DRAIN_MODE of each running daemon
  run,       \* the command in progress
  standing,  \* an installation has completed and was not taken down (history)
  mishaps    \* steps that failed and reboots so far

vars == <<builds, lost, env, unit, enabled, up, drain, run, standing, mishaps>>

\* A host with nothing installed.
Init ==
  /\ builds = {} /\ lost = {} /\ env = FALSE
  /\ unit = [s \in Services |-> None]
  /\ enabled = [s \in Services |-> FALSE]
  /\ up = [s \in Services |-> None]
  /\ drain = [s \in Services |-> FALSE]
  /\ run = Idle
  /\ standing = FALSE
  /\ mishaps = 0

\* The daemon that runs answers requests, draining or not.
Answers(s) == up[s] \notin Broken \cup {None}

\* health.CheckHost: GET meta/ping, answered 200 unless the daemon drains.
CheckHost(s) == Answers(s) /\ ~drain[s]

\* http.Get has no timeout: CheckHost does not return from a service that
\* takes the connection and never answers.
Hangs(s) == up[s] \in Hanging

\* Blue checked, and then green if blue answered: one of the two hangs.
EitherHangs == Hangs("blue") \/ (CheckHost("blue") /\ Hangs("green"))

\* Where nginx sends a request: to blue, and to green on a 502 or 504 of its
\* own making, which is to say when blue does not answer, or not in time.  error_page does
\* not apply to a 503 that blue answers: proxy_intercept_errors is not on.
Upstream == IF Answers("blue") THEN "blue" ELSE "green"

\* The highest version in the builds directory.
Latest(v) == v \in builds /\ \A w \in builds : w <= v

\* What a service runs once systemd has started it.
Started(s) == IF env /\ unit[s] \in builds THEN unit[s] ELSE None

Mishap == mishaps < MaxMishaps /\ mishaps' = mishaps + 1

-----------------------------------------------------------------------------
At(op, pc) == run # Idle /\ run.op = op /\ run.pc = pc
Goto(pc) == run' = [run EXCEPT !.pc = pc]
Return == run' = Idle

\* The same step for green, and what follows once both have taken it.
Advance(then) ==
  run' = IF run.svc = "blue" THEN [run EXCEPT !.svc = "green"]
                             ELSE [run EXCEPT !.svc = "blue", !.pc = then]

Run(op, pc, v) ==
  /\ run = Idle
  /\ run' = [op |-> op, pc |-> pc, svc |-> "blue", want |-> v]
  /\ UNCHANGED <<builds, lost, env, unit, enabled, up, drain, standing, mishaps>>

\* `hyperctl trinity apply v`, or the latest version.
RunTrinity(v) ==
  /\ Careful => standing /\ \A s \in Services : CheckHost(s)
  /\ Run("trinity", "build", v)

\* `hyperctl manhattan`, with v in the VERSION file of the main branch.
RunManhattan(v) == Run("manhattan", "layout", v)

RunNagasaki == Run("nagasaki", "halt", None)
RunHiroshima == Run("hiroshima", "halt", None)

-----------------------------------------------------------------------------
(* build.Run, in trinity and in manhattan.                                 *)

\* The old binary of that version is removed before the new one is built,
\* so that a build that fails or is interrupted leaves none.
RemoveBinary ==
  /\ At("trinity", "build") \/ At("manhattan", "build")
  /\ builds' = builds \ {run.want}
  /\ lost' = lost \cup {run.want}
  /\ Goto("compile")
  /\ UNCHANGED <<env, unit, enabled, up, drain, standing, mishaps>>

\* Mutant: older binaries are cleared away.
CleanBuild ==
  /\ At("trinity", "compile") \/ At("manhattan", "compile")
  /\ builds' = {run.want}
  /\ lost' = lost \ {run.want}
  /\ Goto(IF run.op = "trinity" THEN "check" ELSE "write")
  /\ UNCHANGED <<env, unit, enabled, up, drain, standing, mishaps>>

BuildBinary ==
  /\ At("trinity", "compile") \/ At("manhattan", "compile")
  /\ builds' = builds \cup {run.want}
  /\ lost' = lost \ {run.want}
  /\ Goto(IF run.op = "trinity" THEN "check" ELSE "write")
  /\ UNCHANGED <<env, unit, enabled, up, drain, standing, mishaps>>

-----------------------------------------------------------------------------
(* trinity: updateService for blue and then for green.                     *)

CheckBefore ==
  /\ At("trinity", "check") /\ ~Hangs(run.svc)
  /\ IF CheckHost(run.svc) THEN Goto("drain") ELSE Return
  /\ UNCHANGED <<builds, lost, env, unit, enabled, up, drain, standing, mishaps>>

EnableDrainMode ==
  /\ At("trinity", "drain")
  /\ drain' = [drain EXCEPT ![run.svc] = TRUE]
  /\ Goto("stop")
  /\ UNCHANGED <<builds, lost, env, unit, enabled, up, standing, mishaps>>

\* systemctl stop; the drain mode goes with the process.
StopService ==
  /\ At("trinity", "stop")
  /\ up' = [up EXCEPT ![run.svc] = None]
  /\ drain' = [drain EXCEPT ![run.svc] = FALSE]
  /\ Goto("binary")
  /\ UNCHANGED <<builds, lost, env, unit, enabled, standing, mishaps>>

\* Mutant: the unit of blue, whichever service is updated.
UpdateBlueBinary ==
  /\ At("trinity", "binary")
  /\ \E v \in builds : Latest(v) /\ unit' = [unit EXCEPT !["blue"] = v]
  /\ Goto("start")
  /\ UNCHANGED <<builds, lost, env, enabled, up, drain, standing, mishaps>>

\* The highest version in the builds directory, whatever was asked for; an
\* error if a hiroshima that could not stop the service, or a manhattan that
\* could not write it, has left no unit.
UpdateServiceBinary ==
  /\ At("trinity", "binary")
  /\ IF unit[run.svc] = None
       THEN Return /\ UNCHANGED unit
       ELSE /\ \E v \in builds : Latest(v) /\ unit' = [unit EXCEPT ![run.svc] = v]
            /\ Goto("start")
  /\ UNCHANGED <<builds, lost, env, enabled, up, drain, standing, mishaps>>

StartService ==
  /\ At("trinity", "start")
  /\ up' = [up EXCEPT ![run.svc] = Started(run.svc)]
  /\ Goto("recheck")
  /\ UNCHANGED <<builds, lost, env, unit, enabled, drain, standing, mishaps>>

\* Mutant: green is updated whatever became of blue.
RecheckIgnored ==
  /\ At("trinity", "recheck")
  /\ Goto("undrain")
  /\ UNCHANGED <<builds, lost, env, unit, enabled, up, drain, standing, mishaps>>

CheckAfter ==
  /\ At("trinity", "recheck") /\ ~Hangs(run.svc)
  /\ IF CheckHost(run.svc) THEN Goto("undrain") ELSE Return
  /\ UNCHANGED <<builds, lost, env, unit, enabled, up, drain, standing, mishaps>>

DisableDrainMode ==
  /\ At("trinity", "undrain")
  /\ drain' = [drain EXCEPT ![run.svc] = FALSE]
  /\ Goto("verify")
  /\ UNCHANGED <<builds, lost, env, unit, enabled, up, standing, mishaps>>

\* systemctl is-active, then on to green, or to the final checks.
VerifyServiceHealth ==
  /\ At("trinity", "verify")
  /\ IF up[run.svc] = None
       THEN Return
       ELSE run' = IF run.svc = "blue"
                     THEN [run EXCEPT !.pc = "check", !.svc = "green"]
                     ELSE [run EXCEPT !.pc = "final"]
  /\ UNCHANGED <<builds, lost, env, unit, enabled, up, drain, standing, mishaps>>

\* The last health checks decide the message only.
FinalChecks ==
  /\ At("trinity", "final") /\ ~EitherHangs
  /\ Return
  /\ UNCHANGED <<builds, lost, env, unit, enabled, up, drain, standing, mishaps>>

-----------------------------------------------------------------------------
(* manhattan: InstallHypervisorService for blue and then for green, with   *)
(* no check before both have been restarted.                               *)

\* EnsureLayout, and EditEnvFileIfMissing: the operator writes the file.
EnsureLayout ==
  /\ At("manhattan", "layout")
  /\ env' = TRUE
  /\ Goto("build")
  /\ UNCHANGED <<builds, lost, unit, enabled, up, drain, standing, mishaps>>

\* From here on the installation is being taken apart.
WriteUnit ==
  /\ At("manhattan", "write")
  /\ unit' = [unit EXCEPT ![run.svc] = run.want]
  /\ standing' = FALSE
  /\ Goto("enable")
  /\ UNCHANGED <<builds, lost, env, enabled, up, drain, mishaps>>

\* The old unit file is removed first: a write that fails leaves none.
WriteFails ==
  /\ At("manhattan", "write")
  /\ Mishap
  /\ unit' = [unit EXCEPT ![run.svc] = None]
  /\ standing' = FALSE
  /\ Return
  /\ UNCHANGED <<builds, lost, env, enabled, up, drain>>

EnableService ==
  /\ At("manhattan", "enable")
  /\ enabled' = [enabled EXCEPT ![run.svc] = TRUE]
  /\ Goto("restart")
  /\ UNCHANGED <<builds, lost, env, unit, up, drain, standing, mishaps>>

RestartService ==
  /\ At("manhattan", "restart")
  /\ up' = [up EXCEPT ![run.svc] = Started(run.svc)]
  /\ drain' = [drain EXCEPT ![run.svc] = FALSE]
  /\ run' = IF run.svc = "blue" THEN [run EXCEPT !.pc = "write", !.svc = "green"]
                                ELSE [run EXCEPT !.pc = "health"]
  /\ UNCHANGED <<builds, lost, env, unit, enabled, standing, mishaps>>

\* Mutant: the health checks decide the message only, as in trinity.
HealthIgnored ==
  /\ At("manhattan", "health")
  /\ standing' = TRUE
  /\ Return
  /\ UNCHANGED <<builds, lost, env, unit, enabled, up, drain, mishaps>>

\* CheckServiceStatus of both, which has to find them active, and CheckHost
\* of both: the setup has completed.
HealthChecks ==
  /\ At("manhattan", "health")
  /\ (\A s \in Services : up[s] # None) => ~EitherHangs
  /\ standing' = \A s \in Services : CheckHost(s)
  /\ Return
  /\ UNCHANGED <<builds, lost, env, unit, enabled, up, drain, mishaps>>

-----------------------------------------------------------------------------
(* nagasaki and hiroshima.                                                 *)

\* systemctl stop, of blue and of green.
HaltService ==
  /\ At("nagasaki", "halt") \/ At("hiroshima", "halt")
  /\ up' = [up EXCEPT ![run.svc] = None]
  /\ drain' = [drain EXCEPT ![run.svc] = FALSE]
  /\ standing' = FALSE
  /\ IF run.op = "nagasaki" /\ run.svc = "green" THEN Return ELSE Advance("disable")
  /\ UNCHANGED <<builds, lost, env, unit, enabled, mishaps>>

DisableService ==
  /\ At("hiroshima", "disable")
  /\ enabled' = [enabled EXCEPT ![run.svc] = FALSE]
  /\ Advance("rmunit")
  /\ UNCHANGED <<builds, lost, env, unit, up, drain, standing, mishaps>>

RemoveUnit ==
  /\ At("hiroshima", "rmunit")
  /\ unit' = [unit EXCEPT ![run.svc] = None]
  /\ Advance("rmdirs")
  /\ UNCHANGED <<builds, lost, env, enabled, up, drain, standing, mishaps>>

\* Until the directories hiroshima only warns of what fails.
StepWarns ==
  /\ Mishap
  /\ \/ At("hiroshima", "halt") /\ Advance("disable")
     \/ At("hiroshima", "disable") /\ Advance("rmunit")
     \/ At("hiroshima", "rmunit") /\ Advance("rmdirs")
  /\ standing' = FALSE
  /\ UNCHANGED <<builds, lost, env, unit, enabled, up, drain>>

RemoveDirs ==
  /\ At("hiroshima", "rmdirs")
  /\ builds' = {} /\ lost' = {} /\ env' = FALSE
  /\ Return
  /\ UNCHANGED <<unit, enabled, up, drain, standing, mishaps>>

-----------------------------------------------------------------------------
\* A step returns an error, or hyperctl is killed: the command stops where
\* it is and undoes nothing.
StepFails ==
  /\ run # Idle
  /\ Mishap
  /\ Return
  /\ UNCHANGED <<builds, lost, env, unit, enabled, up, drain, standing>>

\* A health check that does not return: the operator gives up waiting, and
\* the command has done what it has done.
Interrupt ==
  /\ \/ (At("trinity", "check") \/ At("trinity", "recheck")) /\ Hangs(run.svc)
     \/ (At("trinity", "final") \/ At("manhattan", "health")) /\ EitherHangs
  /\ Return
  /\ UNCHANGED <<builds, lost, env, unit, enabled, up, drain, standing, mishaps>>

\* The host reboots: what is enabled starts.  An installation a build has
\* lost a binary of no longer stands.
Reboot ==
  /\ Mishap
  /\ up' = [s \in Services |-> IF enabled[s] THEN Started(s) ELSE None]
  /\ drain' = [s \in Services |-> FALSE]
  /\ standing' = (standing /\ \A s \in Services : unit[s] \notin lost)
  /\ Return
  /\ UNCHANGED <<builds, lost, env, unit, enabled>>

\* The operator brings an installed service back by hand: a restart, after
\* building a version that works and pointing the unit at it if need be.
RepairService(s) ==
  /\ run = Idle
  /\ ~CheckHost(s)
  /\ unit[s] # None /\ env
  /\ \E v \in Versions \ Broken :
       /\ builds' = builds \cup {v}
       /\ lost' = lost \ {v}
       /\ unit' = [unit EXCEPT ![s] = v]
       /\ up' = [up EXCEPT ![s] = v]
  /\ drain' = [drain EXCEPT ![s] = FALSE]
  /\ UNCHANGED <<env, enabled, run, standing, mishaps>>

UpdateService ==
  \/ CheckBefore
  \/ EnableDrainMode
  \/ StopService
  \/ UpdateServiceBinary
  \/ StartService
  \/ CheckAfter
  \/ DisableDrainMode
  \/ VerifyServiceHealth

Build == RemoveBinary \/ BuildBinary
Trinity == UpdateService \/ FinalChecks
Manhattan == EnsureLayout \/ WriteUnit \/ EnableService \/ RestartService \/ HealthChecks
Removal == HaltService \/ DisableService \/ RemoveUnit \/ RemoveDirs

Command == Build \/ Trinity \/ Manhattan \/ Removal

Next ==
  \/ \E v \in Versions : RunTrinity(v) \/ RunManhattan(v)
  \/ RunNagasaki
  \/ RunHiroshima
  \/ Command
  \/ StepWarns
  \/ WriteFails
  \/ StepFails
  \/ Interrupt
  \/ Reboot
  \/ \E s \in Services : RepairService(s)

Spec == Init /\ [][Next]_vars
-----------------------------------------------------------------------------
(* Properties.                                                             *)

Runs ==
  [op : {"trinity"}, pc : TrinityPcs, svc : Services, want : Versions]
    \cup [op : {"manhattan"}, pc : ManhattanPcs, svc : Services, want : Versions]
    \cup [op : {"nagasaki"}, pc : NagasakiPcs, svc : Services, want : {None}]
    \cup [op : {"hiroshima"}, pc : HiroshimaPcs, svc : Services, want : {None}]

Updating == run # Idle /\ run.op = "trinity"

\* Type invariant; what stands has its binaries, but for those a build lost.
TypeOK ==
  /\ builds \subseteq Versions
  /\ lost \subseteq Versions \ builds
  /\ env \in BOOLEAN
  /\ unit \in [Services -> Versions \cup {None}]
  /\ enabled \in [Services -> BOOLEAN]
  /\ up \in [Services -> Versions \cup {None}]
  /\ drain \in [Services -> BOOLEAN]
  /\ run \in Runs \cup {Idle}
  /\ standing \in BOOLEAN
  /\ mishaps \in 0 .. MaxMishaps
  /\ standing => \A s \in Services : unit[s] \in builds \cup lost

\* nginx.conf: when blue restarts, traffic falls to green.  From the end of
\* an installation until manhattan, nagasaki or hiroshima takes it down, the
\* service nginx turns to answers: at every moment of every update,
\* whichever step fails, whatever was built, and after a reboot in the midst
\* of it, unless a build had lost the binary of a service.
AlwaysServed == standing => Answers(Upstream)

\* A broken build reaches blue at most: the update stops there.
GreenSpared ==
  standing => up["green"] \notin Broken /\ unit["green"] \notin Broken

\* trinity.go: "Both services are now running the updated version." When an
\* update says so, both answer and run what their units name, the highest
\* version that was built, whatever failed before it and whoever ran it.
\* (That need not be the version trinity apply was asked for.)
BothUpdated ==
  At("trinity", "final") =>
    \A s \in Services : CheckHost(s) /\ up[s] = unit[s] /\ Latest(unit[s])

-----------------------------------------------------------------------------
(* What every installation keeps.                                          *)

\* Commands that take an installation down have done so by their first
\* change.
Ground ==
  run # Idle =>
    /\ run.op = "manhattan" /\ (run.svc = "green" \/ run.pc \in {"enable", "restart", "health"})
         => ~standing
    /\ run.op = "nagasaki" /\ run.svc = "green" => ~standing
    /\ run.op = "hiroshima" /\ (run.svc = "green" \/ run.pc # "halt") => ~standing

\* What stands has its environment and is enabled; manhattan has the
\* environment from its step on.
Sound ==
  /\ standing => env /\ \A s \in Services : enabled[s]
  /\ run # Idle /\ run.op = "manhattan" /\ run.pc # "layout" => env

\* manhattan has each unit enabled, and naming the version it built, when
\* it comes to the health checks.
Assembled ==
  run # Idle /\ run.op = "manhattan" =>
    /\ run.pc \in {"write", "enable", "restart", "health"} => run.want \in builds
    /\ run.pc \in {"enable", "restart", "health"} => unit[run.svc] = run.want
    /\ run.pc \in {"restart", "health"} => enabled[run.svc]
    /\ run.pc = "health" => run.svc = "green" /\ up["green"] = run.want
    /\ run.svc = "green" => enabled["blue"] /\ unit["blue"] = run.want
    /\ run.pc \in {"layout", "build", "compile"} => run.svc = "blue"

InstallInv == TypeOK /\ Ground /\ Sound /\ Assembled

-----------------------------------------------------------------------------
(* What keeps BothUpdated true, whoever runs what.                         *)

\* The service at its turn has the highest build in its unit once that is
\* written, starts it or nothing, and answers on it from the second check on.
\* Nothing is built once blue is done.
TurnTaken ==
  Updating =>
    /\ run.pc \in {"build", "compile"} => run.svc = "blue"
    /\ run.pc \in {"start", "recheck", "undrain", "verify", "final"} => Latest(unit[run.svc])
    /\ run.pc = "recheck" => up[run.svc] \in {unit[run.svc], None}
    /\ run.pc \in {"undrain", "verify", "final"} =>
         CheckHost(run.svc) /\ up[run.svc] = unit[run.svc]
    /\ run.pc = "final" => run.svc = "green"

\* Green has its turn once blue answers on the highest build.
BlueDone ==
  Updating /\ run.svc = "green" =>
    CheckHost("blue") /\ up["blue"] = unit["blue"] /\ Latest(unit["blue"])

UpdateInv == InstallInv /\ TurnTaken /\ BlueDone

-----------------------------------------------------------------------------
(* What keeps AlwaysServed and GreenSpared true for careful operators.     *)

OnlyStanding == Updating => standing

\* While one service is being updated the other one answers; both do while
\* nothing has been touched yet.
OtherServes == Updating => CheckHost(Other(run.svc))

\* Until it is drained the service itself answers, and again from the
\* health check after its start.
SelfServes ==
  Updating /\ run.pc \in {"build", "compile", "drain", "undrain", "verify", "final"}
    => CheckHost(run.svc)

\* Nothing is built once blue is done; the highest build is in the unit once
\* that is written, and runs once the service is started.
Installed ==
  Updating =>
    /\ run.pc \in {"build", "compile"} => run.svc = "blue"
    /\ run.pc \in {"start", "recheck", "undrain", "verify", "final"}
         => Latest(unit[run.svc])
    /\ run.pc \in {"recheck", "undrain", "verify", "final"}
         => up[run.svc] = unit[run.svc]

\* With green at its turn, the highest build is the one blue runs: it works.
HighestWorks ==
  Updating /\ run.svc = "green" =>
    \A v \in builds : Latest(v) => v \notin Broken

CarefulInv ==
  /\ InstallInv
  /\ AlwaysServed
  /\ GreenSpared
  /\ OnlyStanding
  /\ OtherServes
  /\ SelfServes
  /\ Installed
  /\ HighestWorks
=============================================================================
