-------------------------- MODULE BlueGreenProofs --------------------------
(***************************************************************************)
(* Proofs about BlueGreen, in layers.  InstallInv is inductive for every   *)
(* operator: what stands has its units, binaries and environment.  So is   *)
(* UpdateInv on top of it: green has its turn only once blue answers on    *)
(* the highest build (BlueDone), which needs what is known of the service  *)
(* at its turn step by step (TurnTaken).                                   *)
(* For operators who run trinity only on an installation that stands and   *)
(* while both services answer, CarefulInv is: at every point of an update  *)
(* the service that is not being updated answers (OtherServes); to carry   *)
(* that over from blue to green, blue must be known to answer after its    *)
(* update (SelfServes), and to keep a broken build away from green, the    *)
(* build blue answers with must be known to be the one green will get      *)
(* (Installed, HighestWorks).                                              *)
(***************************************************************************)
EXTENDS BlueGreen, TLAPS

USE DEF Services, None, Idle, Runs, TrinityPcs, ManhattanPcs, NagasakiPcs, HiroshimaPcs, Latest

(* A command in progress is never mistaken for its absence. *)
LEMMA RunShape ==
  ASSUME TypeOK, run # Idle
  PROVE  /\ run \in Runs /\ run.svc \in Services
         /\ run.op \in {"trinity", "manhattan"} => run.want \in Versions
  BY DEF TypeOK

(* Every command takes its steps while it is in progress. *)
LEMMA CommandRuns == Command => run # Idle
  BY DEF Command, Build, Trinity, UpdateService, Manhattan, Removal, At,
     RemoveBinary, BuildBinary, CheckBefore, EnableDrainMode, StopService,
     UpdateServiceBinary, StartService, CheckAfter, DisableDrainMode, VerifyServiceHealth,
     FinalChecks, EnsureLayout, WriteUnit, EnableService, RestartService, HealthChecks,
     HaltService, DisableService, RemoveUnit, RemoveDirs

(* A mishap is counted. *)
LEMMA MishapCounted == ASSUME TypeOK, Mishap PROVE mishaps' \in 0 .. MaxMishaps
  BY BoundAssumption DEF TypeOK, Mishap

-----------------------------------------------------------------------------
(* The invariant of every installation.                                    *)

LEMMA InstallInit == Init => InstallInv
  <1> SUFFICES ASSUME Init PROVE InstallInv
    OBVIOUS
  <1>1. TypeOK
    <2>1. /\ unit \in [Services -> Versions \cup {None}]
          /\ up \in [Services -> Versions \cup {None}]
          /\ enabled \in [Services -> BOOLEAN] /\ drain \in [Services -> BOOLEAN]
      BY DEF Init
    <2>2. mishaps \in 0 .. MaxMishaps
      BY BoundAssumption DEF Init
    <2>3. run \in Runs \cup {Idle}
      BY DEF Init
    <2> QED
      BY <2>1, <2>2, <2>3 DEF Init, TypeOK
  <1>2. Ground /\ Sound /\ Assembled
    BY DEF Init, Ground, Sound, Assembled
  <1> QED
    BY <1>1, <1>2 DEF InstallInv

(* A command that begins. *)
LEMMA BeginInstall ==
  ASSUME InstallInv, NEW v \in Versions, RunTrinity(v) \/ RunManhattan(v)
  PROVE  InstallInv'
  BY DEF RunTrinity, RunManhattan, Run, InstallInv, TypeOK, Ground, Sound, Assembled

(* A step of a command. *)
LEMMA CommandInstall ==
  ASSUME InstallInv, Command
  PROVE  InstallInv'
  <1> USE VersionAssumption, BoundAssumption
  <1>0. /\ run \in Runs /\ run.svc \in Services /\ run # Idle
        /\ run.op \in {"trinity", "manhattan"} => run.want \in Versions
    BY RunShape, CommandRuns DEF InstallInv
  <1>1. CASE RemoveBinary
    BY <1>0, <1>1 DEF RemoveBinary, At, Goto, Return, InstallInv, TypeOK, Ground,
       Sound, Assembled
  <1>2. CASE BuildBinary
    BY <1>0, <1>2 DEF BuildBinary, At, Goto, Return, InstallInv, TypeOK, Ground,
       Sound, Assembled
  <1>3. CASE CheckBefore
    BY <1>0, <1>3 DEF CheckBefore, At, Goto, Return, InstallInv, TypeOK, Ground,
       Sound, Assembled
  <1>4. CASE EnableDrainMode
    BY <1>0, <1>4 DEF EnableDrainMode, At, Goto, Return, InstallInv, TypeOK, Ground,
       Sound, Assembled
  <1>5. CASE StopService
    BY <1>0, <1>5 DEF StopService, At, Goto, Return, InstallInv, TypeOK, Ground,
       Sound, Assembled
  <1>6. CASE UpdateServiceBinary
    BY <1>0, <1>6 DEF UpdateServiceBinary, At, Goto, Return, InstallInv, TypeOK, Ground,
       Sound, Assembled
  <1>7. CASE StartService
    BY <1>0, <1>7 DEF StartService, At, Goto, Return, Started, InstallInv, TypeOK, Ground,
       Sound, Assembled
  <1>8. CASE CheckAfter
    BY <1>0, <1>8 DEF CheckAfter, At, Goto, Return, InstallInv, TypeOK, Ground,
       Sound, Assembled
  <1>9. CASE DisableDrainMode
    BY <1>0, <1>9 DEF DisableDrainMode, At, Goto, Return, InstallInv, TypeOK, Ground,
       Sound, Assembled
  <1>10. CASE VerifyServiceHealth
    <2>1. run' \in Runs \cup {Idle}
      BY <1>0, <1>10 DEF VerifyServiceHealth, At, Return
    <2>2. TypeOK'
      BY <1>0, <1>10, <2>1 DEF VerifyServiceHealth, InstallInv, TypeOK
    <2>3. Ground' /\ Sound' /\ Assembled'
      BY <1>0, <1>10 DEF VerifyServiceHealth, At, Return, InstallInv, TypeOK, Ground,
         Sound, Assembled
    <2> QED
      BY <2>2, <2>3 DEF InstallInv
  <1>11. CASE FinalChecks
    BY <1>0, <1>11 DEF FinalChecks, At, Goto, Return, InstallInv, TypeOK, Ground,
       Sound, Assembled
  <1>12. CASE EnsureLayout
    BY <1>0, <1>12 DEF EnsureLayout, At, Goto, Return, InstallInv, TypeOK, Ground,
       Sound, Assembled
  <1>13. CASE WriteUnit
    BY <1>0, <1>13 DEF WriteUnit, At, Goto, Return, InstallInv, TypeOK, Ground,
       Sound, Assembled
  <1>14. CASE EnableService
    BY <1>0, <1>14 DEF EnableService, At, Goto, Return, InstallInv, TypeOK, Ground,
       Sound, Assembled
  <1>15. CASE RestartService
    BY <1>0, <1>15 DEF RestartService, At, Goto, Return, Started, InstallInv, TypeOK, Ground,
       Sound, Assembled
  <1>16. CASE HealthChecks
    BY <1>0, <1>16 DEF HealthChecks, At, Goto, Return, CheckHost, Answers, InstallInv, TypeOK, Ground,
       Sound, Assembled
  <1>17. CASE HaltService
    <2>1. run' \in Runs \cup {Idle}
      BY <1>0, <1>17 DEF HaltService, At, Advance, Return
    <2>2. TypeOK'
      BY <1>0, <1>17, <2>1 DEF HaltService, InstallInv, TypeOK
    <2>3. Ground' /\ Sound' /\ Assembled'
      BY <1>0, <1>17 DEF HaltService, At, Advance, Return, InstallInv, TypeOK, Ground,
         Sound, Assembled
    <2> QED
      BY <2>2, <2>3 DEF InstallInv
  <1>18. CASE DisableService
    BY <1>0, <1>18 DEF DisableService, At, Goto, Return, Advance, InstallInv, TypeOK, Ground,
       Sound, Assembled
  <1>19. CASE RemoveUnit
    BY <1>0, <1>19 DEF RemoveUnit, At, Goto, Return, Advance, InstallInv, TypeOK, Ground,
       Sound, Assembled
  <1>20. CASE RemoveDirs
    BY <1>0, <1>20 DEF RemoveDirs, At, Goto, Return, InstallInv, TypeOK, Ground,
       Sound, Assembled
  <1> QED
    BY <1>1, <1>2, <1>3, <1>4, <1>5, <1>6, <1>7, <1>8, <1>9, <1>10, <1>11,
       <1>12, <1>13, <1>14, <1>15, <1>16, <1>17, <1>18, <1>19, <1>20
    DEF Command, Build, Trinity, UpdateService, Manhattan, Removal

(* What fails, and a reboot. *)
LEMMA MishapInstall ==
  ASSUME InstallInv, StepWarns \/ WriteFails \/ StepFails \/ Interrupt \/ Reboot
  PROVE  InstallInv'
  <1>0. mishaps' \in 0 .. MaxMishaps
    BY MishapCounted DEF InstallInv, TypeOK, StepWarns, WriteFails, StepFails,
       Interrupt, Reboot
  <1>1. CASE StepWarns
    <2>1. run \in Runs /\ run.svc \in Services /\ run # Idle
      BY <1>1, RunShape DEF InstallInv, StepWarns, At
    <2>2. run' \in Runs /\ run'.op = "hiroshima" /\ ~standing'
      BY <1>1, <2>1 DEF StepWarns, At, Advance
    <2>3. TypeOK'
      BY <1>0, <1>1, <2>2 DEF StepWarns, InstallInv, TypeOK
    <2>4. Ground' /\ Sound' /\ Assembled'
      BY <2>2 DEF Ground, Sound, Assembled
    <2> QED
      BY <2>3, <2>4 DEF InstallInv
  <1>2. CASE StepFails
    BY <1>0, <1>2 DEF StepFails, Return, InstallInv, TypeOK, Ground, Sound, Assembled
  <1>3. CASE Interrupt
    BY <1>0, <1>3 DEF Interrupt, Return, InstallInv, TypeOK, Ground, Sound, Assembled
  <1>4. CASE Reboot
    BY <1>0, <1>4 DEF Reboot, Started, Return, InstallInv, TypeOK, Ground, Sound, Assembled
  <1>5. CASE WriteFails
    <2>1. run \in Runs /\ run.svc \in Services
      BY <1>5, RunShape DEF InstallInv, WriteFails, At
    <2> QED
      BY <1>0, <1>5, <2>1 DEF WriteFails, Return, InstallInv, TypeOK, Ground, Sound, Assembled
  <1> QED
    BY <1>1, <1>2, <1>3, <1>4, <1>5

(* Bringing a service back by hand. *)
LEMMA RepairInstall ==
  ASSUME InstallInv, NEW s \in Services, RepairService(s)
  PROVE  InstallInv'
  BY VersionAssumption
  DEF RepairService, InstallInv, TypeOK, Ground, Sound, Assembled

LEMMA InstallStep ==
  ASSUME InstallInv, [Next]_vars
  PROVE  InstallInv'
  <1>1. CASE UNCHANGED vars
    BY <1>1 DEF vars, InstallInv, TypeOK, Ground, Sound, Assembled
  <1>2. CASE RunNagasaki \/ RunHiroshima
    BY <1>2 DEF RunNagasaki, RunHiroshima, Run, InstallInv, TypeOK, Ground, Sound, Assembled
  <1> QED
    BY <1>1, <1>2, BeginInstall, CommandInstall, MishapInstall, RepairInstall DEF Next

(* Units, services and the command in progress keep their types, and what  *)
(* stands has its binaries but for those build.Run removed and did not     *)
(* replace, whoever runs which command when (build.go, trinity.go).        *)
THEOREM BlueGreenTypes == Spec => []TypeOK
  <1>1. InstallInv => TypeOK
    BY DEF InstallInv
  <1> QED
    BY InstallInit, InstallStep, <1>1, PTL DEF Spec

-----------------------------------------------------------------------------
(* What an update that ends has done, whoever runs what.                   *)

(* Without an update there is nothing to keep. *)
LEMMA NoUpdateKeeps ==
  ASSUME InstallInv', ~Updating'
  PROVE  UpdateInv'
  BY DEF UpdateInv, TurnTaken, BlueDone

(* The services, their units and builds as they were, and the same turn.   *)
LEMMA SameTurn ==
  ASSUME UpdateInv, InstallInv', UNCHANGED <<builds, unit, up, drain>>,
         Updating, Updating', run'.svc = run.svc,
         run'.pc \in {"build", "compile"} => run.svc = "blue",
         run'.pc \in {"start", "recheck", "undrain", "verify", "final"} => Latest(unit[run.svc]),
         run'.pc = "recheck" => up[run.svc] \in {unit[run.svc], None},
         run'.pc \in {"undrain", "verify", "final"} =>
           CheckHost(run.svc) /\ up[run.svc] = unit[run.svc],
         run'.pc = "final" => run.svc = "green"
  PROVE  UpdateInv'
  BY DEF UpdateInv, TurnTaken, BlueDone, CheckHost, Answers

(* A step of an update, up to the one that hands over to green. *)
LEMMA TurnKeeps ==
  ASSUME UpdateInv, InstallInv', Command, run.op = "trinity"
  PROVE  UpdateInv'
  <1> USE VersionAssumption, BrokenAssumption
  <1>0. /\ run \in Runs /\ run.svc \in Services /\ run.want \in Versions /\ run # Idle
        /\ Updating /\ TypeOK
    BY RunShape, CommandRuns DEF UpdateInv, InstallInv, Updating
  <1>1. CASE RemoveBinary \/ BuildBinary
    BY <1>0, <1>1 DEF RemoveBinary, BuildBinary, At, Goto, UpdateInv, TurnTaken, BlueDone,
       Updating
  <1>2. CASE CheckBefore
    <2>1. ~Updating' \/ (run' = [run EXCEPT !.pc = "drain"] /\ Updating')
      BY <1>0, <1>2 DEF CheckBefore, Goto, Return, Updating
    <2> QED
      BY <1>0, <1>2, <2>1, NoUpdateKeeps, SameTurn DEF CheckBefore
  <1>3. CASE EnableDrainMode
    BY <1>0, <1>3 DEF EnableDrainMode, At, Goto, UpdateInv, TurnTaken, BlueDone, TypeOK,
       Updating, CheckHost, Answers
  <1>4. CASE StopService
    BY <1>0, <1>4 DEF StopService, At, Goto, UpdateInv, TurnTaken, BlueDone, TypeOK,
       Updating, CheckHost, Answers
  <1>5. CASE UpdateServiceBinary
    BY <1>0, <1>5, NoUpdateKeeps DEF UpdateServiceBinary, At, Goto, Return, UpdateInv,
       TurnTaken, BlueDone, TypeOK, Updating, CheckHost, Answers
  <1>6. CASE StartService
    BY <1>0, <1>6 DEF StartService, At, Goto, Started, UpdateInv, TurnTaken, BlueDone, TypeOK,
       Updating, CheckHost, Answers
  <1>7. CASE CheckAfter
    <2>1. ~Updating' \/ (run' = [run EXCEPT !.pc = "undrain"] /\ Updating' /\ CheckHost(run.svc))
      BY <1>0, <1>7 DEF CheckAfter, Goto, Return, Updating
    <2>2. /\ run.pc = "recheck" /\ Latest(unit[run.svc]) /\ up[run.svc] \in {unit[run.svc], None}
          /\ UNCHANGED <<builds, unit, up, drain>>
      BY <1>0, <1>7 DEF CheckAfter, At, UpdateInv, TurnTaken
    <2>3. CheckHost(run.svc) => up[run.svc] = unit[run.svc]
      BY <2>2 DEF CheckHost, Answers
    <2> QED
      BY <1>0, <2>1, <2>2, <2>3, NoUpdateKeeps, SameTurn
  <1>8. CASE DisableDrainMode
    BY <1>0, <1>8 DEF DisableDrainMode, At, Goto, UpdateInv, TurnTaken, BlueDone, TypeOK,
       Updating, CheckHost, Answers
  <1>9. CASE VerifyServiceHealth
    <2>1. /\ run.pc = "verify" /\ CheckHost(run.svc) /\ up[run.svc] = unit[run.svc]
          /\ Latest(unit[run.svc]) /\ UNCHANGED <<builds, unit, up, drain>>
      BY <1>0, <1>9 DEF VerifyServiceHealth, At, UpdateInv, TurnTaken
    <2>2. CASE run.svc = "blue"
      <3>1. ~Updating' \/ (run' # Idle /\ run'.pc = "check" /\ run'.svc = "green")
        BY <1>0, <1>9, <2>2 DEF VerifyServiceHealth, Return, Updating
      <3> QED
        BY <2>1, <2>2, <3>1, NoUpdateKeeps DEF UpdateInv, TurnTaken, BlueDone, CheckHost, Answers
    <2>3. CASE run.svc = "green"
      <3>1. ~Updating' \/ (run' = [run EXCEPT !.pc = "final"] /\ Updating')
        BY <1>0, <1>9, <2>3 DEF VerifyServiceHealth, Return, Updating
      <3> QED
        BY <1>0, <2>1, <2>3, <3>1, NoUpdateKeeps, SameTurn
    <2> QED
      BY <1>0, <2>2, <2>3
  <1>10. CASE FinalChecks
    BY <1>10, NoUpdateKeeps DEF FinalChecks, Return, Updating
  <1>11. ~(Manhattan \/ Removal)
    BY <1>0 DEF Manhattan, Removal, EnsureLayout, WriteUnit, EnableService, RestartService,
       HealthChecks, HaltService, DisableService, RemoveUnit, RemoveDirs, At
  <1> QED
    BY <1>1, <1>2, <1>3, <1>4, <1>5, <1>6, <1>7, <1>8, <1>9, <1>10, <1>11
    DEF Command, Build, Trinity, UpdateService

(* A step of another command leaves no update behind. *)
LEMMA NoTurn ==
  ASSUME TypeOK, Command, run.op # "trinity"
  PROVE  ~Updating'
  <1>0. run \in Runs /\ run.svc \in Services /\ run # Idle
    BY RunShape, CommandRuns
  <1>1. ~Trinity
    BY <1>0 DEF Trinity, UpdateService, CheckBefore, EnableDrainMode, StopService,
       UpdateServiceBinary, StartService, CheckAfter, DisableDrainMode,
       VerifyServiceHealth, FinalChecks, At
  <1>2. run' = Idle \/ run'.op = run.op
    BY <1>0, <1>1 DEF Command, Build, Manhattan, Removal, RemoveBinary, BuildBinary,
       EnsureLayout, WriteUnit, EnableService, RestartService, HealthChecks, HaltService,
       DisableService, RemoveUnit, RemoveDirs, Goto, Return, Advance
  <1> QED
    BY <1>2 DEF Updating

(* The inductive invariant of updates, whoever runs what.                  *)
THEOREM UpdateInvariant == Spec => []UpdateInv
  <1>1. Init => UpdateInv
    BY InstallInit DEF Init, UpdateInv, TurnTaken, BlueDone, Updating
  <1>2. UpdateInv /\ [Next]_vars => UpdateInv'
    <2> SUFFICES ASSUME UpdateInv, [Next]_vars PROVE UpdateInv'
      OBVIOUS
    <2>0. InstallInv' /\ TypeOK
      BY InstallStep DEF UpdateInv, InstallInv
    <2>1. CASE UNCHANGED vars
      BY <2>0, <2>1 DEF vars, UpdateInv, TurnTaken, BlueDone, Updating, CheckHost, Answers
    <2>2. CASE \E v \in Versions : RunTrinity(v)
      BY <2>0, <2>2 DEF RunTrinity, Run, UpdateInv, TurnTaken, BlueDone, Updating
    <2>3. CASE RunNagasaki \/ RunHiroshima \/ \E v \in Versions : RunManhattan(v)
      BY <2>0, <2>3, NoUpdateKeeps DEF RunNagasaki, RunHiroshima, RunManhattan, Run, Updating
    <2>4. CASE Command
      BY <2>0, <2>4, TurnKeeps, NoTurn, NoUpdateKeeps
    <2>5. CASE StepWarns
      <3>1. run \in Runs /\ run # Idle /\ run.op = "hiroshima"
        BY <2>0, <2>5, RunShape DEF StepWarns, At
      <3> QED
        BY <2>0, <2>5, <3>1, NoUpdateKeeps DEF StepWarns, Advance, Updating
    <2>6. CASE WriteFails \/ StepFails \/ Interrupt \/ Reboot
      BY <2>0, <2>6, NoUpdateKeeps DEF WriteFails, StepFails, Interrupt, Reboot, Return, Updating
    <2>7. CASE \E s \in Services : RepairService(s)
      BY <2>0, <2>7, NoUpdateKeeps DEF RepairService, Updating
    <2> QED
      BY <2>1, <2>2, <2>3, <2>4, <2>5, <2>6, <2>7 DEF Next
  <1> QED
    BY <1>1, <1>2, PTL DEF Spec

(* When an update says that both services run the updated version, both    *)
(* answer and run the highest build (trinity.go).                          *)
THEOREM UpdatesBoth == Spec => []BothUpdated
  <1>1. ASSUME UpdateInv, At("trinity", "final"), NEW s \in Services
        PROVE  CheckHost(s) /\ up[s] = unit[s] /\ Latest(unit[s])
    <2>1. Updating /\ run.pc = "final"
      BY <1>1 DEF At, Updating
    <2> QED
      BY <1>1, <2>1 DEF UpdateInv, TurnTaken, BlueDone
  <1>2. UpdateInv => BothUpdated
    BY <1>1 DEF BothUpdated
  <1> QED
    BY UpdateInvariant, <1>2, PTL

-----------------------------------------------------------------------------
(* The invariant of careful operators.                                     *)

LEMMA CarefulInit == Init => CarefulInv
  BY InstallInit
  DEF Init, CarefulInv, AlwaysServed, GreenSpared, OnlyStanding, Updating, OtherServes,
      SelfServes, Installed, HighestWorks

(* Starting an update: the installation stands, and both services answer.  *)
LEMMA StartKeeps ==
  ASSUME Careful, CarefulInv, InstallInv', NEW v \in Versions, RunTrinity(v)
  PROVE  CarefulInv'
  BY DEF RunTrinity, Run, CarefulInv, AlwaysServed, GreenSpared, OnlyStanding, Updating,
         OtherServes, SelfServes, Installed, HighestWorks, CheckHost, Answers, Upstream,
         Other

(* Whatever is no update: the services keep answering, or do not stand.    *)
LEMMA ElseKeeps ==
  ASSUME CarefulInv, InstallInv', ~Updating', AlwaysServed', GreenSpared'
  PROVE  CarefulInv'
  BY DEF CarefulInv, OnlyStanding, OtherServes, SelfServes, Installed, HighestWorks

(* Services and their units as they were. *)
LEMMA StillServed ==
  ASSUME CarefulInv, UNCHANGED <<unit, up, drain, standing>>
  PROVE  AlwaysServed' /\ GreenSpared'
  BY DEF CarefulInv, AlwaysServed, GreenSpared, Answers, Upstream

(* What does not stand promises nothing. *)
LEMMA NotStanding == ASSUME ~standing' PROVE AlwaysServed' /\ GreenSpared'
  BY DEF AlwaysServed, GreenSpared

(* A step of a command other than an update. *)
LEMMA OtherCommandKeeps ==
  ASSUME CarefulInv, InstallInv', Command, run.op # "trinity"
  PROVE  CarefulInv'
  <1> USE DEF CarefulInv, InstallInv
  <1>0. run \in Runs /\ run.svc \in Services /\ run # Idle
    BY RunShape, CommandRuns
  <1>1. ~Trinity
    BY <1>0 DEF Trinity, UpdateService, CheckBefore, EnableDrainMode, StopService,
       UpdateServiceBinary, StartService, CheckAfter, DisableDrainMode,
       VerifyServiceHealth, FinalChecks, At
  <1>2. ~Updating'
    BY NoTurn
  <1>3. CASE RemoveBinary \/ BuildBinary \/ EnsureLayout
    BY <1>2, <1>3, StillServed, ElseKeeps DEF RemoveBinary, BuildBinary, EnsureLayout
  <1>4. CASE WriteUnit \/ HaltService
    BY <1>2, <1>4, NotStanding, ElseKeeps DEF WriteUnit, HaltService
  <1>5. CASE EnableService \/ RestartService
    <2>1. ~standing'
      BY <1>0, <1>5 DEF EnableService, RestartService, At, Ground
    <2> QED
      BY <1>2, <2>1, NotStanding, ElseKeeps
  <1>6. CASE DisableService \/ RemoveUnit \/ RemoveDirs
    <2>1. ~standing'
      BY <1>0, <1>6 DEF DisableService, RemoveUnit, RemoveDirs, At, Ground
    <2> QED
      BY <1>2, <2>1, NotStanding, ElseKeeps
  <1>7. CASE HealthChecks
    <2>1. unit["green"] = up["green"]
      BY <1>0, <1>7 DEF HealthChecks, At, Assembled
    <2>2. AlwaysServed' /\ GreenSpared'
      BY <1>7, <2>1 DEF HealthChecks, AlwaysServed, GreenSpared, Answers, CheckHost, Upstream
    <2> QED
      BY <1>2, <2>2, ElseKeeps
  <1> QED
    BY <1>1, <1>3, <1>4, <1>5, <1>6, <1>7 DEF Command, Build, Manhattan, Removal

(* A step of an update. *)
LEMMA UpdateKeeps ==
  ASSUME CarefulInv, InstallInv', Command, run.op = "trinity"
  PROVE  CarefulInv'
  <1> USE VersionAssumption, BrokenAssumption
  <1>0. run \in Runs /\ run.svc \in Services /\ run.want \in Versions /\ run # Idle
    BY RunShape, CommandRuns DEF CarefulInv, InstallInv
  <1>00. Updating
    BY <1>0 DEF Updating
  <1>1. CASE RemoveBinary
    BY <1>0, <1>1 DEF RemoveBinary, At, Goto, CarefulInv, InstallInv, TypeOK,
       AlwaysServed, GreenSpared, OnlyStanding, Updating, OtherServes, SelfServes,
       Installed, HighestWorks, CheckHost, Answers, Upstream, Other
  <1>2. CASE BuildBinary
    BY <1>0, <1>2 DEF BuildBinary, At, Goto, CarefulInv, InstallInv, TypeOK,
       AlwaysServed, GreenSpared, OnlyStanding, Updating, OtherServes, SelfServes,
       Installed, HighestWorks, CheckHost, Answers, Upstream, Other
  <1>3. CASE CheckBefore
    BY <1>0, <1>3 DEF CheckBefore, At, Goto, Return, CarefulInv, InstallInv, TypeOK,
       AlwaysServed, GreenSpared, OnlyStanding, Updating, OtherServes, SelfServes,
       Installed, HighestWorks, CheckHost, Answers, Upstream, Other
  <1>4. CASE EnableDrainMode
    BY <1>0, <1>4 DEF EnableDrainMode, At, Goto, CarefulInv, InstallInv, TypeOK,
       AlwaysServed, GreenSpared, OnlyStanding, Updating, OtherServes, SelfServes,
       Installed, HighestWorks, CheckHost, Answers, Upstream, Other
  <1>5. CASE StopService
    BY <1>0, <1>5 DEF StopService, At, Goto, CarefulInv, InstallInv, TypeOK,
       AlwaysServed, GreenSpared, OnlyStanding, Updating, OtherServes, SelfServes,
       Installed, HighestWorks, CheckHost, Answers, Upstream, Other
  <1>6. CASE UpdateServiceBinary
    <2>1. unit[run.svc] # None
      <3>1. standing /\ run.svc \in Services
        BY <1>0, <1>00, <1>6 DEF UpdateServiceBinary, At, CarefulInv, InstallInv, TypeOK,
           OnlyStanding, Updating, Runs
      <3>2. unit[run.svc] \in Versions
        BY <1>0, <3>1 DEF CarefulInv, InstallInv, TypeOK
      <3> QED
        BY <3>2, VersionAssumption DEF None
    <2> QED
      BY <1>0, <1>6, <2>1 DEF UpdateServiceBinary, At, Goto, CarefulInv, InstallInv, TypeOK,
       AlwaysServed, GreenSpared, OnlyStanding, Updating, OtherServes, SelfServes,
       Installed, HighestWorks, CheckHost, Answers, Upstream, Other
  <1>7. CASE StartService
    <2>1. Started(run.svc) = unit[run.svc]
      BY <1>0, <1>00, <1>7 DEF StartService, At, Started, CarefulInv, InstallInv, Sound,
         OnlyStanding, Installed
    <2> QED
      BY <1>0, <1>7, <2>1 DEF StartService, At, Goto, CarefulInv, InstallInv, TypeOK,
         AlwaysServed, GreenSpared, OnlyStanding, Updating, OtherServes, SelfServes,
         Installed, HighestWorks, CheckHost, Answers, Upstream, Other
  <1>8. CASE CheckAfter
    BY <1>0, <1>8 DEF CheckAfter, At, Goto, Return, CarefulInv, InstallInv, TypeOK,
       AlwaysServed, GreenSpared, OnlyStanding, Updating, OtherServes, SelfServes,
       Installed, HighestWorks, CheckHost, Answers, Upstream, Other
  <1>9. CASE DisableDrainMode
    BY <1>0, <1>9 DEF DisableDrainMode, At, Goto, CarefulInv, InstallInv, TypeOK,
       AlwaysServed, GreenSpared, OnlyStanding, Updating, OtherServes, SelfServes,
       Installed, HighestWorks, CheckHost, Answers, Upstream, Other
  <1>10. CASE VerifyServiceHealth
    <2>1. /\ CheckHost(run.svc) /\ up[run.svc] = unit[run.svc]
          /\ unit[run.svc] \in builds /\ \A w \in builds : w <= unit[run.svc]
      BY <1>0, <1>00, <1>10 DEF VerifyServiceHealth, At, CarefulInv, SelfServes, Installed
    <2>2. unit[run.svc] \notin Broken
      BY <2>1 DEF CheckHost, Answers
    <2>3. \A v \in builds : (\A w \in builds : w <= v) => v = unit[run.svc]
      <3>1. builds \subseteq Nat
        BY DEF CarefulInv, InstallInv, TypeOK
      <3>2. \A x, y \in Nat : x <= y /\ y <= x => x = y
        OBVIOUS
      <3> QED
        BY <2>1, <3>1, <3>2
    <2>0. AlwaysServed' /\ GreenSpared'
      BY <1>10, StillServed DEF VerifyServiceHealth
    <2>4. CASE run.svc = "blue"
      <3>1. run' = [run EXCEPT !.pc = "check", !.svc = "green"]
        BY <1>10, <2>1, <2>4 DEF VerifyServiceHealth, CheckHost, Answers
      <3>2. run' # Idle /\ run'.op = "trinity" /\ run'.pc = "check" /\ run'.svc = "green"
        BY <1>0, <3>1
      <3>3. UNCHANGED <<builds, unit, up, drain, standing>>
        BY <1>10 DEF VerifyServiceHealth
      <3>4. OnlyStanding'
        BY <1>00, <3>3 DEF CarefulInv, OnlyStanding
      <3>5. OtherServes'
        BY <2>1, <2>4, <3>2, <3>3 DEF OtherServes, Other, CheckHost, Answers
      <3>6. SelfServes' /\ Installed'
        BY <3>2 DEF SelfServes, Installed
      <3>7. HighestWorks'
        BY <2>2, <2>3, <3>3 DEF HighestWorks
      <3> QED
        BY <2>0, <3>4, <3>5, <3>6, <3>7 DEF CarefulInv
    <2>5. CASE run.svc = "green"
      <3>1. run' = [run EXCEPT !.pc = "final"]
        BY <1>10, <2>1, <2>5 DEF VerifyServiceHealth, CheckHost, Answers
      <3>2. run' # Idle /\ run'.op = "trinity" /\ run'.pc = "final" /\ run'.svc = "green"
        BY <1>0, <1>00, <2>5, <3>1 DEF Updating
      <3>3. UNCHANGED <<builds, unit, up, drain, standing>>
        BY <1>10 DEF VerifyServiceHealth
      <3>4. OnlyStanding' /\ OtherServes' /\ SelfServes'
        BY <1>00, <2>1, <2>5, <3>2, <3>3 DEF CarefulInv, OnlyStanding, OtherServes,
           SelfServes, Other, CheckHost, Answers
      <3>5. Installed' /\ HighestWorks'
        BY <1>00, <2>1, <2>5, <3>2, <3>3 DEF CarefulInv, Installed, HighestWorks
      <3> QED
        BY <2>0, <3>4, <3>5 DEF CarefulInv
    <2> QED
      BY <1>0, <2>4, <2>5
  <1>11. CASE FinalChecks
    BY <1>11, StillServed, ElseKeeps DEF FinalChecks, Return, Updating
  <1>12. ~(Manhattan \/ Removal)
    BY <1>0 DEF Manhattan, Removal, EnsureLayout, WriteUnit, EnableService, RestartService,
       HealthChecks, HaltService, DisableService, RemoveUnit, RemoveDirs, At
  <1> QED
    BY <1>1, <1>2, <1>3, <1>4, <1>5, <1>6, <1>7, <1>8, <1>9, <1>10, <1>11, <1>12
    DEF Command, Build, Trinity, UpdateService

(* A step that fails, or a check given up, ends an update while the other  *)
(* service answers; after a reboot green answers, as its binary is there   *)
(* and works.                                                              *)
LEMMA MishapKeeps ==
  ASSUME CarefulInv, InstallInv', StepWarns \/ WriteFails \/ StepFails \/ Interrupt \/ Reboot
  PROVE  CarefulInv'
  <1>1. CASE StepWarns
    <2>1. run \in Runs /\ run # Idle /\ run.op = "hiroshima"
      BY <1>1, RunShape DEF CarefulInv, InstallInv, StepWarns, At
    <2>2. ~Updating' /\ ~standing'
      BY <1>1, <2>1 DEF StepWarns, Advance, Updating
    <2> QED
      BY <2>2, NotStanding, ElseKeeps
  <1>2. CASE StepFails \/ Interrupt
    BY <1>2, StillServed, ElseKeeps DEF StepFails, Interrupt, Return, Updating
  <1>3. CASE Reboot
    <2>1. ~Updating'
      BY <1>3 DEF Reboot, Return, Updating
    <2>2. CASE ~standing'
      BY <2>1, <2>2, NotStanding, ElseKeeps
    <2>3. CASE standing'
      <3>1. /\ standing /\ env /\ enabled["green"]
            /\ unit["green"] \in builds /\ unit["green"] \notin Broken
        BY <1>3, <2>3 DEF Reboot, CarefulInv, InstallInv, TypeOK, Sound, GreenSpared
      <3>2. up'["green"] = unit["green"] /\ unit' = unit
        BY <1>3, <3>1 DEF Reboot, Started
      <3>3. unit["green"] # None
        BY <3>1, VersionAssumption DEF CarefulInv, InstallInv, TypeOK
      <3>4. AlwaysServed' /\ GreenSpared'
        BY <3>1, <3>2, <3>3 DEF AlwaysServed, GreenSpared, Upstream, Answers
      <3> QED
        BY <2>1, <3>4, ElseKeeps
    <2> QED
      BY <2>2, <2>3
  <1>4. CASE WriteFails
    BY <1>4, NotStanding, ElseKeeps DEF WriteFails, Return, Updating
  <1> QED
    BY <1>1, <1>2, <1>3, <1>4

(* Bringing a service back by hand. *)
LEMMA RepairKeeps ==
  ASSUME CarefulInv, InstallInv', NEW s \in Services, RepairService(s)
  PROVE  CarefulInv'
  <1>1. PICK v \in Versions \ Broken :
          unit' = [unit EXCEPT ![s] = v] /\ up' = [up EXCEPT ![s] = v]
    BY DEF RepairService
  <1>2. v # None
    BY VersionAssumption
  <1>3. AlwaysServed' /\ GreenSpared'
    BY <1>1, <1>2 DEF RepairService, CarefulInv, InstallInv, TypeOK, AlwaysServed,
       GreenSpared, Upstream, Answers
  <1> QED
    BY <1>3, ElseKeeps DEF RepairService, Updating

(* The inductive invariant of updates. *)
THEOREM CarefulInvariant == ASSUME Careful PROVE Spec => []CarefulInv
  <1>1. CarefulInv /\ [Next]_vars => CarefulInv'
    <2> SUFFICES ASSUME CarefulInv, [Next]_vars PROVE CarefulInv'
      OBVIOUS
    <2>0. InstallInv'
      BY InstallStep DEF CarefulInv
    <2>1. CASE UNCHANGED vars
      BY <2>0, <2>1 DEF vars, CarefulInv, AlwaysServed, GreenSpared, OnlyStanding, Updating,
         OtherServes, SelfServes, Installed, HighestWorks, CheckHost, Answers, Upstream
    <2>2. CASE RunNagasaki \/ RunHiroshima \/ \E v \in Versions : RunManhattan(v)
      BY <2>0, <2>2, StillServed, ElseKeeps
      DEF RunNagasaki, RunHiroshima, RunManhattan, Run, Updating
    <2>3. CASE Next
      BY <2>0, <2>2, <2>3, StartKeeps, OtherCommandKeeps, UpdateKeeps, MishapKeeps,
         RepairKeeps
      DEF Next
    <2> QED
      BY <2>1, <2>3
  <1> QED
    BY CarefulInit, <1>1, PTL DEF Spec

(* The service nginx turns to answers at every moment of every update of   *)
(* an installation that stands, whichever step fails, and after a reboot:  *)
(* traffic falls to green and back (nginx.conf).                           *)
THEOREM Served == ASSUME Careful PROVE Spec => []AlwaysServed
  <1>1. CarefulInv => AlwaysServed
    BY DEF CarefulInv
  <1> QED
    BY CarefulInvariant, <1>1, PTL

(* A broken build never reaches green (trinity.go). *)
THEOREM Spared == ASSUME Careful PROVE Spec => []GreenSpared
  <1>1. CarefulInv => GreenSpared
    BY DEF CarefulInv
  <1> QED
    BY CarefulInvariant, <1>1, PTL
=============================================================================
