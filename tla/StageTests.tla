----------------------------- MODULE StageTests -----------------------------
(***************************************************************************)
(* The life of one stage and of its tests: PrepareStage, UpdateStageEnv    *)
(* and DeleteStage of internal/core/stage.go, StartTest, CancelTest and    *)
(* the goroutine runTest of internal/core/tests.go, with the handlers that *)
(* call them.  Stages do not interact: test ids, files and documents carry *)
(* the id of their stage.                                                  *)
(*                                                                         *)
(* Stage documents are [id, status, seq], seq standing for testSequence;   *)
(* test documents are [id, status], named here by the sequence number that *)
(* ends their id.  UpdateStage writes back both the status and the         *)
(* sequence number its caller read some steps earlier.                     *)
(***************************************************************************)
EXTENDS Collection

CONSTANTS
  Stage,        \* the id of the stage, <releaseID>-<envTag>
  Clients,      \* operators of the API, each with one request at a time
  Slots,        \* slots for runTest goroutines (a bound on their number)
  MaxSequence,  \* bound on the tests one stage document sees
  MaxMishaps,   \* bound on mishaps: the daemon restarted, a call that failed
  Polite        \* TRUE: a test is started only when none runs, and only
                \* deletes and cancels overlap other requests

ASSUME BoundAssumption == MaxSequence \in Nat /\ MaxMishaps \in Nat
ASSUME PoliteAssumption == Polite \in BOOLEAN

Idle == [pc |-> "idle"]
None == 0                  \* no test: sequence numbers start at 1
Finals == {"passed", "failed", "canceled", "error"}

\* Where a request stands: the call it makes next.
RequestPcs == {"insert", "seed", "reread", "write", "save", "demote", "next",
               "create", "spawn", "cancel", "forget", "rmenv", "rmtests", "rmstage"}

\* Where a runTest goroutine stands.
RunPcs == {"start", "exec", "log_error", "record", "reread", "raise", "done"}

VARIABLES
  stages,    \* the stages collection, as far as it concerns this stage
  tests,     \* the tests collection, as far as it concerns this stage
  env,       \* whether the stage's .env file exists
  cancels,   \* testCancels: entries [id, slot]
  run,       \* the runTest goroutines
  req,       \* the request each client has in flight
  mishaps    \* restarts and failed calls so far

vars == <<stages, tests, env, cancels, run, req, mishaps>>

Init ==
  /\ stages = <<>>
  /\ tests = <<>>
  /\ env = FALSE
  /\ cancels = {}
  /\ run = [k \in Slots |-> Idle]
  /\ req = [c \in Clients |-> Idle]
  /\ mishaps = 0

TheStage == FindOne(stages, Stage)
Mishap == mishaps < MaxMishaps /\ mishaps' = mishaps + 1

\* delete(testCancels, id).
Forget(id) == {e \in cancels : e.id # id}
CancelOf(id) == {e \in cancels : e.id = id}

-----------------------------------------------------------------------------
(* Requests.  One that is refused before it changes anything is no action. *)

\* Requests polite operators do not mind having in flight at once.
Overlap(op, other) ==
  \/ "cancel" \in {op, other}
  \/ "delete" \in {op, other} /\ "start" \notin {op, other}

\* A request enters, having read d; test is the sequence number it is about.
Begin(c, op, pc, d, test) ==
  /\ req[c] = Idle
  /\ Polite => \A e \in Clients : req[e] # Idle => Overlap(op, req[e].op)
  /\ req' = [req EXCEPT ![c] = [pc |-> pc, op |-> op, dep |-> d, test |-> test]]
  /\ UNCHANGED <<stages, tests, env, cancels, run, mishaps>>

At(c, pc) == req[c] # Idle /\ req[c].pc = pc
Goto(c, pc) == req' = [req EXCEPT ![c].pc = pc]
GotoWith(c, pc, d) == req' = [req EXCEPT ![c].pc = pc, ![c].dep = d]
Finish(c) == req' = [req EXCEPT ![c] = Idle]

\* PrepareStage found no document; the checkout is replaced and the
\* template read before the document is inserted.
PrepareStage(c) ==
  /\ ~Found(stages, Stage)
  /\ Begin(c, "create", "insert", [id |-> Stage, status |-> "pre", seq |-> 0], None)

UpdateStageEnv(c) ==
  /\ Found(stages, Stage)
  /\ Begin(c, "env", "write", [TheStage EXCEPT !.status = "ready"], None)

\* What the deployment handlers do to a stage when its deployment goes.
ResetStage(c) ==
  /\ Found(stages, Stage)
  /\ Begin(c, "reset", "save", [TheStage EXCEPT !.status = "ready"], None)

StartTest(c) ==
  /\ Found(stages, Stage)
  /\ TheStage.seq < MaxSequence
  /\ Polite => \A k \in Slots : run[k] = Idle
  /\ IF TheStage.status = "ready"
       THEN Begin(c, "start", "demote", [TheStage EXCEPT !.status = "pre"], None)
       ELSE Begin(c, "start", "next", TheStage, None)

\* CancelTestHandler answers a conflict unless the test is running.
CancelTestHandler(c, n) ==
  /\ Found(tests, n)
  /\ FindOne(tests, n).status = "running"
  /\ Begin(c, "cancel", "cancel", [id |-> Stage, status |-> "pre", seq |-> 0], n)

DeleteStage(c) ==
  /\ Found(stages, Stage)
  /\ Begin(c, "delete", "rmenv", TheStage, None)

-----------------------------------------------------------------------------
(* The calls the requests make.                                            *)

CreateStage(c) ==
  /\ At(c, "insert")
  /\ stages' = InsertOne(stages, req[c].dep)
  /\ Goto(c, "seed")
  /\ UNCHANGED <<tests, env, cancels, run, mishaps>>

\* The template becomes the .env file; a request that brought an
\* environment of its own goes on with UpdateStageEnv.
SeedEnv(c) ==
  /\ At(c, "seed")
  /\ env' = TRUE
  /\ Finish(c) \/ Goto(c, "reread")
  /\ UNCHANGED <<stages, tests, cancels, run, mishaps>>

RereadStage(c) ==
  /\ At(c, "reread")
  /\ IF Found(stages, Stage)
       THEN GotoWith(c, "write", [TheStage EXCEPT !.status = "ready"])
       ELSE Finish(c)
  /\ UNCHANGED <<stages, tests, env, cancels, run, mishaps>>

WriteEnv(c) ==
  /\ At(c, "write")
  /\ env' = TRUE
  /\ Goto(c, "save")
  /\ UNCHANGED <<stages, tests, cancels, run, mishaps>>

\* UpdateStage: $set of status and testSequence from the caller's copy.
SaveStage(c) ==
  /\ At(c, "save")
  /\ stages' = ReplaceOne(stages, req[c].dep)
  /\ Finish(c)
  /\ UNCHANGED <<tests, env, cancels, run, mishaps>>

\* "mark as pre until test passes".
DemoteStage(c) ==
  /\ At(c, "demote")
  /\ stages' = ReplaceOne(stages, req[c].dep)
  /\ Goto(c, "next")
  /\ UNCHANGED <<tests, env, cancels, run, mishaps>>

\* Mutant: the number comes from the copy, and the copy is written back.
NextFromCopy(c) ==
  /\ At(c, "next")
  /\ req' = [req EXCEPT ![c].pc = "create", ![c].test = req[c].dep.seq + 1]
  /\ UNCHANGED <<stages, tests, env, cancels, run, mishaps>>

\* $inc in the server; an error when the document is gone.
NextTestSequence(c) ==
  /\ At(c, "next")
  /\ IF Found(stages, Stage)
       THEN /\ stages' = ReplaceOne(stages, [TheStage EXCEPT !.seq = @ + 1])
            /\ req' = [req EXCEPT ![c].pc = "create", ![c].test = TheStage.seq + 1]
       ELSE /\ Finish(c)
            /\ UNCHANGED stages
  /\ UNCHANGED <<tests, env, cancels, run, mishaps>>

\* Mutant: a status the models do not know.
CreateQueued(c) ==
  /\ At(c, "create")
  /\ tests' = InsertOne(tests, [id |-> req[c].test, status |-> "queued"])
  /\ Goto(c, "spawn")
  /\ UNCHANGED <<stages, env, cancels, run, mishaps>>

CreateTest(c) ==
  /\ At(c, "create")
  /\ tests' = InsertOne(tests, [id |-> req[c].test, status |-> "running"])
  /\ Goto(c, "spawn")
  /\ UNCHANGED <<stages, env, cancels, run, mishaps>>

\* The cancel function is registered and the goroutine launched.
SpawnTest(c) ==
  /\ At(c, "spawn")
  /\ \E k \in Slots :
       /\ run[k] = Idle
       /\ run' = [run EXCEPT ![k] = [pc |-> "start", id |-> req[c].test,
                                     killed |-> FALSE, result |-> "running",
                                     dep |-> req[c].dep]]
       /\ cancels' = Forget(req[c].test) \cup {[id |-> req[c].test, slot |-> k]}
  /\ Finish(c)
  /\ UNCHANGED <<stages, tests, env, mishaps>>

\* CancelTest: the context is cancelled, and some time later the entry goes.
CancelTest(c) ==
  /\ At(c, "cancel")
  /\ IF CancelOf(req[c].test) = {}
       THEN Finish(c) /\ UNCHANGED run
       ELSE /\ run' = [k \in Slots |->
                         IF [id |-> req[c].test, slot |-> k] \in cancels
                           THEN [run[k] EXCEPT !.killed = TRUE] ELSE run[k]]
            /\ Goto(c, "forget")
  /\ UNCHANGED <<stages, tests, env, cancels, mishaps>>

ForgetCancel(c) ==
  /\ At(c, "forget")
  /\ cancels' = Forget(req[c].test)
  /\ Finish(c)
  /\ UNCHANGED <<stages, tests, env, run, mishaps>>

\* The checkout and the directory of the .env file.
RemoveFiles(c) ==
  /\ At(c, "rmenv")
  /\ env' = FALSE
  /\ Goto(c, "rmtests")
  /\ UNCHANGED <<stages, tests, cancels, run, mishaps>>

DeleteTestsByStageID(c) ==
  /\ At(c, "rmtests")
  /\ tests' = <<>>
  /\ Goto(c, "rmstage")
  /\ UNCHANGED <<stages, env, cancels, run, mishaps>>

\* Mutant: the document goes only if it is still the one that was read.
RemoveIfUnchanged(c) ==
  /\ At(c, "rmstage")
  /\ stages' = IF Found(stages, Stage) /\ TheStage = req[c].dep
               THEN DeleteOne(stages, Stage) ELSE stages
  /\ Finish(c)
  /\ UNCHANGED <<tests, env, cancels, run, mishaps>>

\* After the log files.
RemoveStage(c) ==
  /\ At(c, "rmstage")
  /\ stages' = DeleteOne(stages, Stage)
  /\ Finish(c)
  /\ UNCHANGED <<tests, env, cancels, run, mishaps>>

\* A call that returns an error ends the request where it stands.
CallFails(c) ==
  /\ Mishap
  /\ req[c] # Idle
  /\ req[c].pc \in RequestPcs \ {"spawn", "cancel", "forget"}
  /\ Finish(c)
  /\ UNCHANGED <<stages, tests, env, cancels, run>>

-----------------------------------------------------------------------------
(* runTest.                                                                *)

RunAt(k, pc) == run[k] # Idle /\ run[k].pc = pc
RunGoto(k, pc) == run' = [run EXCEPT ![k].pc = pc]
RunResult(k, r) == run' = [run EXCEPT ![k].pc = "record", ![k].result = r]

\* The log file is opened and TEST.sh started; a context that is cancelled
\* by now is reported as such.
OpenAndStart(k) ==
  /\ RunAt(k, "start")
  /\ \/ /\ IF run[k].killed THEN RunResult(k, "canceled") ELSE RunGoto(k, "exec")
        /\ UNCHANGED mishaps
     \/ Mishap /\ RunGoto(k, "log_error")
  /\ UNCHANGED <<stages, tests, env, cancels, req>>

\* TEST.sh ends.  A cancelled run is usually reported as failed, since the
\* killed process yields an exit error; only when the process had succeeded
\* and was not yet reaped does Wait report the cancellation.
RunEnds(k) ==
  /\ RunAt(k, "exec")
  /\ \/ RunResult(k, "passed")
     \/ RunResult(k, "failed")
     \/ run[k].killed /\ RunResult(k, "canceled")
  /\ UNCHANGED <<stages, tests, env, cancels, req, mishaps>>

SetTest(n, status) == ReplaceOne(tests, [id |-> n, status |-> status])

\* The error is recorded with the run's own context, in vain if that was
\* cancelled; whether it was recorded is not looked at.
RecordLogError(k) ==
  /\ RunAt(k, "log_error")
  /\ \/ ~run[k].killed /\ tests' = SetTest(run[k].id, "error")
     \/ UNCHANGED tests
  /\ RunGoto(k, "done")
  /\ UNCHANGED <<stages, env, cancels, req, mishaps>>

\* Mutant: a failed run is not recorded.
RecordPassedOnly(k) ==
  /\ RunAt(k, "record")
  /\ tests' = IF run[k].result = "passed" THEN SetTest(run[k].id, "passed") ELSE tests
  /\ RunGoto(k, IF run[k].result = "passed" THEN "reread" ELSE "done")
  /\ UNCHANGED <<stages, env, cancels, req, mishaps>>

UpdateTestStatus(k) ==
  /\ RunAt(k, "record")
  /\ \/ /\ tests' = SetTest(run[k].id, run[k].result)
        /\ RunGoto(k, IF run[k].result = "passed" THEN "reread" ELSE "done")
        /\ UNCHANGED mishaps
     \/ /\ Mishap
        /\ RunGoto(k, "done")
        /\ UNCHANGED tests
  /\ UNCHANGED <<stages, env, cancels, req>>

RereadPassed(k) ==
  /\ RunAt(k, "reread")
  /\ IF Found(stages, Stage) /\ TheStage.status = "pre"
       THEN run' = [run EXCEPT ![k].pc = "raise",
                               ![k].dep = [TheStage EXCEPT !.status = "ready"]]
       ELSE RunGoto(k, "done")
  /\ UNCHANGED <<stages, tests, env, cancels, req, mishaps>>

\* The result of this UpdateStage is not looked at.
RaiseStage(k) ==
  /\ RunAt(k, "raise")
  /\ \/ stages' = ReplaceOne(stages, run[k].dep) /\ UNCHANGED mishaps
     \/ Mishap /\ UNCHANGED stages
  /\ RunGoto(k, "done")
  /\ UNCHANGED <<tests, env, cancels, req>>

\* Mutant: the entry of the ended run stays.
ReturnRegistered(k) ==
  /\ RunAt(k, "done")
  /\ run' = [run EXCEPT ![k] = Idle]
  /\ UNCHANGED <<stages, tests, env, cancels, req, mishaps>>

\* The deferred clean-up.
ReturnFromRun(k) ==
  /\ RunAt(k, "done")
  /\ cancels' = Forget(run[k].id)
  /\ run' = [run EXCEPT ![k] = Idle]
  /\ UNCHANGED <<stages, tests, env, req, mishaps>>

-----------------------------------------------------------------------------
\* The daemon stops and starts again; nothing resumes or ends its tests.
Restart ==
  /\ Mishap
  /\ req' = [c \in Clients |-> Idle]
  /\ run' = [k \in Slots |-> Idle]
  /\ cancels' = {}
  /\ UNCHANGED <<stages, tests, env>>

Request(c) ==
  \/ PrepareStage(c)
  \/ UpdateStageEnv(c)
  \/ ResetStage(c)
  \/ StartTest(c)
  \/ \E n \in 1 .. MaxSequence : CancelTestHandler(c, n)
  \/ DeleteStage(c)

Handle(c) ==
  \/ CreateStage(c)
  \/ SeedEnv(c)
  \/ RereadStage(c)
  \/ WriteEnv(c)
  \/ SaveStage(c)
  \/ DemoteStage(c)
  \/ NextTestSequence(c)
  \/ CreateTest(c)
  \/ SpawnTest(c)
  \/ CancelTest(c)
  \/ ForgetCancel(c)
  \/ RemoveFiles(c)
  \/ DeleteTestsByStageID(c)
  \/ RemoveStage(c)
  \/ CallFails(c)

RunTest(k) ==
  \/ OpenAndStart(k)
  \/ RunEnds(k)
  \/ RecordLogError(k)
  \/ UpdateTestStatus(k)
  \/ RereadPassed(k)
  \/ RaiseStage(k)
  \/ ReturnFromRun(k)

Next ==
  \/ \E c \in Clients : Request(c) \/ Handle(c)
  \/ \E k \in Slots : RunTest(k)
  \/ Restart

\* Calls return and TEST.sh ends; nobody is obliged to send a request.
Fairness ==
  /\ \A c \in Clients : WF_vars(Handle(c))
  /\ \A k \in Slots : WF_vars(RunTest(k))

Spec == Init /\ [][Next]_vars
FairSpec == Spec /\ Fairness
-----------------------------------------------------------------------------
(* Properties.                                                             *)

StageRecs == [id : {Stage}, status : {"pre", "ready"}, seq : Nat]
TestRecs == [id : Nat, status : Finals \cup {"running"}]

Requests ==
  [pc : RequestPcs, op : {"create", "env", "reset", "start", "cancel", "delete"},
   dep : StageRecs, test : Nat]

RunRecs ==
  [pc : RunPcs, id : Nat, killed : BOOLEAN, result : Finals \cup {"running"},
   dep : StageRecs]

\* Type invariant: documents and copies have known statuses.
TypeOK ==
  /\ stages \in Seq(StageRecs)
  /\ tests \in Seq(TestRecs)
  /\ env \in BOOLEAN
  /\ cancels \subseteq [id : Nat, slot : Slots]
  /\ run \in [Slots -> RunRecs \cup {Idle}]
  /\ req \in [Clients -> Requests \cup {Idle}]
  /\ mishaps \in 0 .. MaxMishaps

\* README: a test is recorded with a per-stage sequence number.  No two
\* recorded tests of a stage share one, whatever UpdateStage wrote back.
UniqueTestIDs ==
  \A i, j \in DOMAIN tests : tests[i].id = tests[j].id => i = j

\* testCancels holds no function of a run that has ended, so that a cancel
\* reaches the run it names or reports that it is not running.
NoStaleCancel ==
  \A e \in cancels : run[e.slot] # Idle /\ run[e.slot].id = e.id

\* A stage that is recorded has its .env file whenever nobody works on it:
\* a creation inserts before it writes, a delete that overlaps it removes the
\* file first, so only a failed call or a restart can separate the two.
EnvBehindStage ==
  /\ mishaps = 0
  /\ \A c \in Clients : req[c] = Idle \/ req[c].op = "cancel"
  /\ Found(stages, Stage)
  => env

\* The outcome of a test, once recorded, is not replaced by that of another.
OutcomeStays ==
  [][\A n \in 1 .. MaxSequence :
       Found(tests, n) /\ FindOne(tests, n).status \in Finals
         => ~Found(tests', n) \/ FindOne(tests', n) = FindOne(tests, n)]_vars

\* A running test ends up with an outcome, or goes with its stage, unless
\* something went wrong on the way.
TestsEnd ==
  \A n \in 1 .. MaxSequence :
    Found(tests, n) /\ FindOne(tests, n).status = "running"
      ~> \/ ~Found(tests, n)
         \/ FindOne(tests, n).status \in Finals
         \/ mishaps > 0
=============================================================================
