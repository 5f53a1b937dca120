-------------------------- MODULE StageTestsProofs --------------------------
(***************************************************************************)
(* Proofs about StageTests, for any number of operators, goroutines, tests *)
(* and mishaps.  Types and the table of cancel functions need no           *)
(* assumption (BaseInv); test numbers, outcomes and the .env file need     *)
(* polite operators (TestsInv).                                            *)
(*                                                                         *)
(* Test numbers are the point: UpdateStage writes testSequence back from a *)
(* copy that may be several steps old.  The invariant says of every copy   *)
(* that is yet to be written, in a request or in a run, that it counts     *)
(* every recorded test (Bounded), and that nobody is numbering a test      *)
(* meanwhile (Meets, RunAlone).                                            *)
(***************************************************************************)
EXTENDS StageTests, CollectionProofs

-----------------------------------------------------------------------------
(* What requests and goroutines rely on while operators are polite.        *)

\* Requests in flight are ones that polite operators let overlap.
Compatible ==
  \A c, e \in Clients :
    c # e /\ req[c] # Idle /\ req[e] # Idle => Overlap(req[c].op, req[e].op)

\* Which requests make which calls.
PcFits(r) ==
  /\ r.pc \in {"insert", "seed"} => r.op = "create"
  /\ r.pc \in {"reread", "write", "save"} => r.op \in {"create", "env", "reset"}
  /\ r.pc \in {"demote", "next", "create", "spawn"} => r.op = "start"
  /\ r.pc \in {"cancel", "forget"} => r.op = "cancel"
  /\ r.pc \in {"rmenv", "rmtests", "rmstage"} => r.op = "delete"

\* No recorded test has a number above n.
Bounded(n) == \A j \in DOMAIN tests : tests[j].id <= n

\* Test n, if it is still recorded, has no outcome.
Unsettled(n) == Found(tests, n) => FindOne(tests, n).status = "running"

\* What the request r relies on.  The copy it will write back counts every
\* recorded test, although it may be older than the document.
Relies(r) ==
  /\ r.pc = "insert" => ~Found(stages, Stage)
  /\ r.pc \in {"write", "save", "demote"} => Bounded(r.dep.seq)
  /\ r.op = "start" => Found(stages, Stage) /\ \A k \in Slots : run[k] = Idle
  /\ r.pc = "create" => /\ TheStage.seq >= r.test
                        /\ \A j \in DOMAIN tests : tests[j].id < r.test
  /\ r.pc = "spawn" => Unsettled(r.test)
  /\ r.pc = "rmstage" => tests = <<>>

\* What the goroutine j relies on.
Counts(j) ==
  /\ j.pc = "raise" => Bounded(j.dep.seq)
  /\ j.pc \in {"start", "exec", "log_error", "record"} => Unsettled(j.id)

\* No two runs at once.
OneRun == \A k, l \in Slots : run[k] # Idle /\ run[l] # Idle => k = l

\* The document counts every recorded test; without it there is none.
StageCounts ==
  IF Found(stages, Stage) THEN Bounded(TheStage.seq) ELSE tests = <<>>

\* The .env file is missing only where somebody is about to write it or to
\* remove the stage.
EnvFacts ==
  mishaps = 0 /\ Found(stages, Stage) =>
    env \/ \E c \in Clients : req[c] # Idle /\ req[c].pc \in {"seed", "rmtests", "rmstage"}

\* The requests in flight fit together and make their own calls.
ReqsFine == Compatible /\ \A c \in Clients : req[c] # Idle => PcFits(req[c])

\* One stage document, one document per test, and a count that covers them.
DocsFine == UniqueIds(stages) /\ UniqueIds(tests) /\ StageCounts

\* The run that is under way has what it relies on.
RunsFine == OneRun /\ \A k \in Slots : run[k] # Idle => Counts(run[k])

\* So has every request in flight.
AllRely == \A c \in Clients : req[c] # Idle => Relies(req[c])

\* The inductive invariant.
TestsInv ==
  /\ TypeOK
  /\ NoStaleCancel
  /\ ReqsFine
  /\ DocsFine
  /\ RunsFine
  /\ AllRely
  /\ EnvFacts

-----------------------------------------------------------------------------
(* Types, and the table of cancel functions: no assumption is needed.      *)

\* A request in flight is a request record, a run a run record.
LEMMA InFlight ==
  ASSUME TypeOK
  PROVE  /\ \A c \in Clients : req[c] # Idle => req[c] \in Requests
         /\ \A k \in Slots : run[k] # Idle => run[k] \in RunRecs
  BY DEF TypeOK

\* Client c's request moves on to pc with copy d, about test n.
ReqMoves(c, pc, d, n) ==
  /\ req' \in [Clients -> Requests \cup {Idle}]
  /\ \A e \in Clients \ {c} : req'[e] = req[e]
  /\ req'[c] # Idle
  /\ req'[c].pc = pc /\ req'[c].op = req[c].op
  /\ req'[c].dep = d /\ req'[c].test = n

\* The moves of a request: on,
LEMMA GotoMoves ==
  ASSUME TypeOK, NEW c \in Clients, req[c] # Idle, NEW pc \in RequestPcs, Goto(c, pc)
  PROVE  ReqMoves(c, pc, req[c].dep, req[c].test)
<1>1. req[c] \in Requests /\ req \in [Clients -> Requests \cup {Idle}]
  BY InFlight DEF TypeOK
<1> DEFINE r == [req[c] EXCEPT !.pc = pc]
<1>2. /\ r \in Requests /\ r.pc = pc /\ r.op = req[c].op
      /\ r.dep = req[c].dep /\ r.test = req[c].test
  BY <1>1 DEF Requests
<1>3. r # Idle
  BY <1>2 DEF Idle, RequestPcs
<1>4. req' = [req EXCEPT ![c] = r]
  BY DEF Goto
<1> HIDE DEF r
<1> QED
  BY <1>1, <1>2, <1>3, <1>4 DEF ReqMoves

\* on with another copy of the stage document,
LEMMA GotoWithMoves ==
  ASSUME TypeOK, NEW c \in Clients, req[c] # Idle, NEW pc \in RequestPcs,
         NEW d \in StageRecs, GotoWith(c, pc, d)
  PROVE  ReqMoves(c, pc, d, req[c].test)
<1>1. req[c] \in Requests /\ req \in [Clients -> Requests \cup {Idle}]
  BY InFlight DEF TypeOK
<1> DEFINE r == [[req[c] EXCEPT !.pc = pc] EXCEPT !.dep = d]
<1>2. /\ r \in Requests /\ r.pc = pc /\ r.op = req[c].op
      /\ r.dep = d /\ r.test = req[c].test
  BY <1>1 DEF Requests
<1>3. r # Idle
  BY <1>2 DEF Idle, RequestPcs
<1>4. req' = [req EXCEPT ![c] = r]
  BY <1>1 DEF GotoWith
<1> HIDE DEF r
<1> QED
  BY <1>1, <1>2, <1>3, <1>4 DEF ReqMoves

\* on with the number of the test it starts,
LEMMA NumberedMoves ==
  ASSUME TypeOK, NEW c \in Clients, req[c] # Idle, NEW n \in Nat,
         req' = [req EXCEPT ![c].pc = "create", ![c].test = n]
  PROVE  ReqMoves(c, "create", req[c].dep, n)
<1>1. req[c] \in Requests /\ req \in [Clients -> Requests \cup {Idle}]
  BY InFlight DEF TypeOK
<1> DEFINE r == [[req[c] EXCEPT !.pc = "create"] EXCEPT !.test = n]
<1>2. /\ r \in Requests /\ r.pc = "create" /\ r.op = req[c].op
      /\ r.dep = req[c].dep /\ r.test = n
  BY <1>1 DEF Requests, RequestPcs
<1>3. r # Idle
  BY <1>2 DEF Idle
<1>4. req' = [req EXCEPT ![c] = r]
  BY <1>1
<1> HIDE DEF r
<1> QED
  BY <1>1, <1>2, <1>3, <1>4 DEF ReqMoves

\* and to its end.
LEMMA FinishMoves ==
  ASSUME TypeOK, NEW c \in Clients, Finish(c)
  PROVE  /\ req' \in [Clients -> Requests \cup {Idle}]
         /\ \A e \in Clients \ {c} : req'[e] = req[e]
         /\ req'[c] = Idle
  BY DEF TypeOK, Finish

\* The goroutine in slot k moves on to pc; it serves the same test.
RunMoves(k, pc) ==
  /\ run' \in [Slots -> RunRecs \cup {Idle}]
  /\ \A l \in Slots \ {k} : run'[l] = run[l]
  /\ run'[k] # Idle
  /\ run'[k].pc = pc /\ run'[k].id = run[k].id

\* The moves of a goroutine: on,
LEMMA RunGotoMoves ==
  ASSUME TypeOK, NEW k \in Slots, run[k] # Idle, NEW pc \in RunPcs, RunGoto(k, pc)
  PROVE  RunMoves(k, pc)
<1>1. run[k] \in RunRecs /\ run \in [Slots -> RunRecs \cup {Idle}]
  BY InFlight DEF TypeOK
<1> DEFINE r == [run[k] EXCEPT !.pc = pc]
<1>2. r \in RunRecs /\ r.pc = pc /\ r.id = run[k].id
  BY <1>1 DEF RunRecs
<1>3. r # Idle
  BY <1>2 DEF Idle, RunPcs
<1>4. run' = [run EXCEPT ![k] = r]
  BY DEF RunGoto
<1> HIDE DEF r
<1> QED
  BY <1>1, <1>2, <1>3, <1>4 DEF RunMoves

\* on with a result,
LEMMA RunResultMoves ==
  ASSUME TypeOK, NEW k \in Slots, run[k] # Idle, NEW res \in Finals, RunResult(k, res)
  PROVE  RunMoves(k, "record")
<1>1. run[k] \in RunRecs /\ run \in [Slots -> RunRecs \cup {Idle}]
  BY InFlight DEF TypeOK
<1> DEFINE r == [[run[k] EXCEPT !.pc = "record"] EXCEPT !.result = res]
<1>2. r \in RunRecs /\ r.pc = "record" /\ r.id = run[k].id
  BY <1>1 DEF RunRecs, RunPcs
<1>3. r # Idle
  BY <1>2 DEF Idle
<1>4. run' = [run EXCEPT ![k] = r]
  BY <1>1 DEF RunResult
<1> HIDE DEF r
<1> QED
  BY <1>1, <1>2, <1>3, <1>4 DEF RunMoves

\* and on with a copy of the stage document.
LEMMA RaiseMoves ==
  ASSUME TypeOK, NEW k \in Slots, run[k] # Idle, NEW d \in StageRecs,
         run' = [run EXCEPT ![k].pc = "raise", ![k].dep = d]
  PROVE  RunMoves(k, "raise") /\ run'[k].dep = d
<1>1. run[k] \in RunRecs /\ run \in [Slots -> RunRecs \cup {Idle}]
  BY InFlight DEF TypeOK
<1> DEFINE r == [[run[k] EXCEPT !.pc = "raise"] EXCEPT !.dep = d]
<1>2. r \in RunRecs /\ r.pc = "raise" /\ r.id = run[k].id /\ r.dep = d
  BY <1>1 DEF RunRecs, RunPcs
<1>3. r # Idle
  BY <1>2 DEF Idle
<1>4. run' = [run EXCEPT ![k] = r]
  BY <1>1
<1> HIDE DEF r
<1> QED
  BY <1>1, <1>2, <1>3, <1>4 DEF RunMoves

\* The documents a step writes are documents.
LEMMA StageDoc ==
  ASSUME TypeOK, Found(stages, Stage)
  PROVE  /\ TheStage \in StageRecs
         /\ \A st \in {"pre", "ready"} :
              /\ [TheStage EXCEPT !.status = st] \in StageRecs
              /\ [TheStage EXCEPT !.status = st].seq = TheStage.seq
         /\ [TheStage EXCEPT !.seq = @ + 1] \in StageRecs
         /\ [TheStage EXCEPT !.seq = @ + 1].seq = TheStage.seq + 1
<1>1. TheStage \in StageRecs
  BY FindOneFact DEF TypeOK, TheStage
<1> QED
  BY <1>1 DEF StageRecs

\* Recording a status leaves test documents.
LEMMA SetTestType ==
  ASSUME TypeOK, NEW n \in Nat, NEW st \in Finals \cup {"running"}
  PROVE  SetTest(n, st) \in Seq(TestRecs)
<1>1. [id |-> n, status |-> st] \in TestRecs
  BY DEF TestRecs
<1> QED
  BY <1>1, ReplaceOneFact DEF TypeOK, SetTest

\* A request enters with its record; nothing else moves.
LEMMA BeginFact ==
  ASSUME TypeOK, NEW c \in Clients,
         NEW op \in {"create", "env", "reset", "start", "cancel", "delete"},
         NEW pc \in RequestPcs, NEW d \in StageRecs, NEW n \in Nat, Begin(c, op, pc, d, n)
  PROVE  /\ TypeOK'
         /\ req[c] = Idle /\ req'[c] # Idle
         /\ req'[c].pc = pc /\ req'[c].op = op /\ req'[c].dep = d /\ req'[c].test = n
         /\ \A e \in Clients \ {c} : req'[e] = req[e]
         /\ UNCHANGED <<stages, tests, env, cancels, run, mishaps>>
         /\ Polite => \A e \in Clients : req[e] # Idle => Overlap(op, req[e].op)
<1> DEFINE r == [pc |-> pc, op |-> op, dep |-> d, test |-> n]
<1>1. /\ r \in Requests /\ r.pc = pc /\ r.op = op /\ r.dep = d /\ r.test = n
      /\ r # Idle
  BY DEF Requests, Idle, RequestPcs
<1>2. /\ req[c] = Idle /\ req' = [req EXCEPT ![c] = r]
      /\ UNCHANGED <<stages, tests, env, cancels, run, mishaps>>
      /\ Polite => \A e \in Clients : req[e] # Idle => Overlap(op, req[e].op)
  BY DEF Begin
<1> HIDE DEF r
<1> QED
  BY <1>1, <1>2 DEF TypeOK

\* How a request begins.
LEMMA RequestBegins ==
  ASSUME TypeOK, NEW c \in Clients, Request(c)
  PROVE  \E op \in {"create", "env", "reset", "start", "cancel", "delete"},
            pc \in RequestPcs, d \in StageRecs, n \in Nat :
           /\ Begin(c, op, pc, d, n)
           /\ \/ op = "create" /\ pc = "insert" /\ ~Found(stages, Stage)
              \/ op = "env" /\ pc = "write" /\ Found(stages, Stage) /\ d.seq = TheStage.seq
              \/ op = "reset" /\ pc = "save" /\ Found(stages, Stage) /\ d.seq = TheStage.seq
              \/ /\ op = "start" /\ pc \in {"demote", "next"}
                 /\ Found(stages, Stage) /\ d.seq = TheStage.seq
                 /\ Polite => \A k \in Slots : run[k] = Idle
              \/ op = "cancel" /\ pc = "cancel"
              \/ op = "delete" /\ pc = "rmenv"
<1>1. None \in Nat /\ [id |-> Stage, status |-> "pre", seq |-> 0] \in StageRecs
  BY DEF None, StageRecs
<1>2. {"insert", "write", "save", "demote", "next", "cancel", "rmenv"} \subseteq RequestPcs
  BY DEF RequestPcs
<1>3. 1 .. MaxSequence \subseteq Nat
  OBVIOUS
<1>4. CASE PrepareStage(c)
  BY <1>1, <1>2, <1>4 DEF PrepareStage
<1>5. CASE UpdateStageEnv(c)
  BY <1>1, <1>2, <1>5, StageDoc DEF UpdateStageEnv
<1>6. CASE ResetStage(c)
  BY <1>1, <1>2, <1>6, StageDoc DEF ResetStage
<1>7. CASE StartTest(c)
  <2>1. CASE Begin(c, "start", "demote", [TheStage EXCEPT !.status = "pre"], None)
    BY <1>1, <1>2, <1>7, <2>1, StageDoc DEF StartTest
  <2>2. CASE Begin(c, "start", "next", TheStage, None)
    BY <1>1, <1>2, <1>7, <2>2, StageDoc DEF StartTest
  <2> QED
    BY <1>7, <2>1, <2>2 DEF StartTest
<1>8. ASSUME NEW n \in 1 .. MaxSequence, CancelTestHandler(c, n)
      PROVE  Begin(c, "cancel", "cancel", [id |-> Stage, status |-> "pre", seq |-> 0], n)
  BY <1>8 DEF CancelTestHandler
<1>9. CASE DeleteStage(c)
  BY <1>1, <1>2, <1>9, StageDoc DEF DeleteStage
<1> QED
  BY <1>1, <1>2, <1>3, <1>4, <1>5, <1>6, <1>7, <1>8, <1>9 DEF Request

\* A cancelled run is still the run of its test.
LEMMA CancelMarks ==
  ASSUME TypeOK, NoStaleCancel, NEW c \in Clients, CancelTest(c)
  PROVE  /\ run' \in [Slots -> RunRecs \cup {Idle}]
         /\ \A k \in Slots : /\ run'[k] = Idle <=> run[k] = Idle
                             /\ run[k] # Idle => /\ run'[k].pc = run[k].pc
                                                 /\ run'[k].id = run[k].id
                                                 /\ run'[k].dep = run[k].dep
<1>1. CASE run' = run
  BY <1>1 DEF TypeOK
<1>2. CASE run' = [k \in Slots |-> IF [id |-> req[c].test, slot |-> k] \in cancels
                                     THEN [run[k] EXCEPT !.killed = TRUE] ELSE run[k]]
  <2>1. ASSUME NEW k \in Slots, [id |-> req[c].test, slot |-> k] \in cancels
        PROVE  /\ run[k] # Idle /\ run'[k] # Idle
               /\ run'[k] \in RunRecs
               /\ run'[k].pc = run[k].pc
               /\ run'[k].id = run[k].id
               /\ run'[k].dep = run[k].dep
    <3>1. run[k] # Idle
      BY <2>1 DEF NoStaleCancel
    <3>2. run[k] \in RunRecs
      BY <3>1, InFlight
    <3> DEFINE r == [run[k] EXCEPT !.killed = TRUE]
    <3>3. /\ r \in RunRecs /\ r.pc = run[k].pc /\ r.id = run[k].id /\ r.dep = run[k].dep
          /\ r.pc \in RunPcs
      BY <3>2 DEF RunRecs
    <3>4. r # Idle
      BY <3>3 DEF Idle, RunPcs
    <3>5. run'[k] = r
      BY <1>2, <2>1
    <3> HIDE DEF r
    <3> QED
      BY <3>1, <3>3, <3>4, <3>5
  <2>2. ASSUME NEW k \in Slots, [id |-> req[c].test, slot |-> k] \notin cancels
        PROVE  run'[k] = run[k]
    BY <1>2, <2>2
  <2>3. run' \in [Slots -> RunRecs \cup {Idle}]
    <3>1. \A k \in Slots : run'[k] \in RunRecs \cup {Idle}
      BY <2>1, <2>2 DEF TypeOK
    <3>2. run' = [k \in Slots |-> run'[k]]
      BY <1>2
    <3> QED
      BY <3>1, <3>2
  <2> QED
    BY <2>1, <2>2, <2>3
<1> QED
  BY <1>1, <1>2 DEF CancelTest

\* The run a request launches.
LEMMA SpawnMoves ==
  ASSUME TypeOK, NEW c \in Clients, SpawnTest(c)
  PROVE  \E k \in Slots :
           /\ run[k] = Idle /\ run' \in [Slots -> RunRecs \cup {Idle}]
           /\ run'[k] # Idle /\ run'[k].pc = "start" /\ run'[k].id = req[c].test
           /\ \A l \in Slots \ {k} : run'[l] = run[l]
           /\ cancels' = Forget(req[c].test) \cup {[id |-> req[c].test, slot |-> k]}
<1>1. req[c] # Idle /\ req[c] \in Requests
  BY InFlight DEF SpawnTest, At
<1> DEFINE r == [pc |-> "start", id |-> req[c].test, killed |-> FALSE,
                 result |-> "running", dep |-> req[c].dep]
<1>2. r \in RunRecs /\ r.pc = "start" /\ r.id = req[c].test
  BY <1>1 DEF RunRecs, RunPcs, Requests
<1>3. r # Idle
  BY <1>2 DEF Idle
<1>4. PICK k \in Slots :
        /\ run[k] = Idle /\ run' = [run EXCEPT ![k] = r]
        /\ cancels' = Forget(req[c].test) \cup {[id |-> req[c].test, slot |-> k]}
  BY DEF SpawnTest
<1> HIDE DEF r
<1> QED
  BY <1>2, <1>3, <1>4 DEF TypeOK

\* Types and the table of cancel functions, inductive together: a cancelled
\* run is marked through its entry, which must not lead to an empty slot.
BaseInv == TypeOK /\ NoStaleCancel

\* The calls of requests keep it.
LEMMA HandleBase ==
  ASSUME BaseInv, NEW c \in Clients, Handle(c)
  PROVE  BaseInv'
<1>0. TypeOK /\ NoStaleCancel
  BY DEF BaseInv
<1>1. req[c] # Idle
  BY DEF Handle, CreateStage, SeedEnv, RereadStage, WriteEnv, SaveStage, DemoteStage,
     NextTestSequence, CreateTest, SpawnTest, CancelTest, ForgetCancel, RemoveFiles,
     DeleteTestsByStageID, RemoveStage, CallFails, At
<1>2. /\ req[c].dep \in StageRecs /\ req[c].test \in Nat
      /\ stages \in Seq(StageRecs) /\ tests \in Seq(TestRecs)
  BY <1>0, <1>1, InFlight DEF Requests, TypeOK
<1>3. req' \in [Clients -> Requests \cup {Idle}]
  <2>1. CASE Finish(c)
    BY <1>0, <2>1, FinishMoves
  <2>2. CASE \E pc \in RequestPcs : Goto(c, pc)
    BY <1>0, <1>1, <2>2, GotoMoves DEF ReqMoves
  <2>3. CASE RereadStage(c)
    <3>1. CASE GotoWith(c, "write", [TheStage EXCEPT !.status = "ready"]) /\ Found(stages, Stage)
      BY <1>0, <1>1, <3>1, StageDoc, GotoWithMoves DEF ReqMoves, RequestPcs
    <3> QED
      BY <2>1, <2>3, <3>1 DEF RereadStage
  <2>4. CASE NextTestSequence(c)
    <3>1. CASE Found(stages, Stage)
                /\ req' = [req EXCEPT ![c].pc = "create", ![c].test = TheStage.seq + 1]
      <4>1. TheStage.seq + 1 \in Nat
        BY <1>0, <3>1, StageDoc DEF StageRecs
      <4> QED
        BY <1>0, <1>1, <3>1, <4>1, NumberedMoves DEF ReqMoves
    <3> QED
      BY <2>1, <2>4, <3>1 DEF NextTestSequence
  <2>5. RereadStage(c) \/ NextTestSequence(c) \/ Finish(c) \/ \E pc \in RequestPcs : Goto(c, pc)
    BY DEF Handle, CreateStage, SeedEnv, WriteEnv, SaveStage, DemoteStage, CreateTest,
       SpawnTest, CancelTest, ForgetCancel, RemoveFiles, DeleteTestsByStageID, RemoveStage,
       CallFails, RequestPcs
  <2> QED
    BY <2>1, <2>2, <2>3, <2>4, <2>5
<1>4. stages' \in Seq(StageRecs)
  <2>1. CASE \E d \in StageRecs : stages' = ReplaceOne(stages, d)
    BY <1>2, <2>1, ReplaceOneFact
  <2>2. CASE stages' = InsertOne(stages, req[c].dep)
    BY <1>2, <2>2 DEF InsertOne
  <2>3. CASE stages' = DeleteOne(stages, Stage)
    BY <1>2, <2>3, DeleteOneFact
  <2>4. CASE NextTestSequence(c)
    BY <1>0, <1>2, <2>1, <2>4, StageDoc DEF NextTestSequence
  <2> QED
    BY <1>2, <2>1, <2>2, <2>3, <2>4 DEF Handle, CreateStage, SeedEnv, RereadStage, WriteEnv,
       SaveStage, DemoteStage, CreateTest, SpawnTest, CancelTest, ForgetCancel, RemoveFiles,
       DeleteTestsByStageID, RemoveStage, CallFails
<1>5. tests' \in Seq(TestRecs)
  <2>1. CASE tests' = InsertOne(tests, [id |-> req[c].test, status |-> "running"])
    <3>1. [id |-> req[c].test, status |-> "running"] \in TestRecs
      BY <1>2 DEF TestRecs
    <3> QED
      BY <1>2, <2>1, <3>1 DEF InsertOne
  <2>2. CASE tests' = <<>>
    BY <2>2
  <2> QED
    BY <1>2, <2>1, <2>2 DEF Handle, CreateStage, SeedEnv, RereadStage, WriteEnv,
       SaveStage, DemoteStage, NextTestSequence, CreateTest, SpawnTest, CancelTest,
       ForgetCancel, RemoveFiles, DeleteTestsByStageID, RemoveStage, CallFails
<1>6. env' \in BOOLEAN /\ mishaps' \in 0 .. MaxMishaps
  <2>1. env' \in {env, TRUE, FALSE} /\ (mishaps' = mishaps \/ Mishap)
    BY DEF Handle, CreateStage, SeedEnv, RereadStage, WriteEnv, SaveStage, DemoteStage,
       NextTestSequence, CreateTest, SpawnTest, CancelTest, ForgetCancel, RemoveFiles,
       DeleteTestsByStageID, RemoveStage, CallFails
  <2>2. env' \in BOOLEAN
    BY <1>0, <2>1 DEF TypeOK
  <2>3. mishaps' \in 0 .. MaxMishaps
    BY <1>0, <2>1, BoundAssumption DEF TypeOK, Mishap
  <2> QED
    BY <2>2, <2>3
<1>7. /\ run' \in [Slots -> RunRecs \cup {Idle}]
      /\ cancels' \subseteq [id : Nat, slot : Slots]
      /\ NoStaleCancel'
  <2>1. CASE run' = run /\ cancels' \subseteq cancels
    BY <1>0, <2>1 DEF TypeOK, NoStaleCancel
  <2>2. CASE SpawnTest(c)
    <3>1. PICK k \in Slots :
            /\ run[k] = Idle /\ run' \in [Slots -> RunRecs \cup {Idle}]
            /\ run'[k] # Idle /\ run'[k].id = req[c].test
            /\ \A l \in Slots \ {k} : run'[l] = run[l]
            /\ cancels' = Forget(req[c].test) \cup {[id |-> req[c].test, slot |-> k]}
      BY <1>0, <2>2, SpawnMoves
    <3>2. \A e \in Forget(req[c].test) : e \in cancels /\ e.slot \in Slots \ {k}
      BY <1>0, <3>1 DEF Forget, NoStaleCancel, TypeOK
    <3>3. [id |-> req[c].test, slot |-> k] \in [id : Nat, slot : Slots]
      BY <1>2
    <3>4. cancels' \subseteq [id : Nat, slot : Slots]
      BY <1>0, <3>1, <3>2, <3>3 DEF TypeOK
    <3>5. NoStaleCancel'
      BY <1>0, <3>1, <3>2 DEF NoStaleCancel
    <3> QED
      BY <3>1, <3>4, <3>5
  <2>3. CASE CancelTest(c)
    <3>1. cancels' = cancels
      BY <2>3 DEF CancelTest
    <3>2. \A e \in cancels : e.slot \in Slots
      BY <1>0 DEF TypeOK
    <3> QED
      BY <1>0, <2>3, <3>1, <3>2, CancelMarks DEF TypeOK, NoStaleCancel
  <2>4. CASE ForgetCancel(c)
    BY <2>1, <2>4 DEF ForgetCancel, Forget
  <2> QED
    BY <2>1, <2>2, <2>3, <2>4 DEF Handle, CreateStage, SeedEnv, RereadStage, WriteEnv,
       SaveStage, DemoteStage, NextTestSequence, CreateTest, RemoveFiles,
       DeleteTestsByStageID, RemoveStage, CallFails
<1> QED
  BY <1>3, <1>4, <1>5, <1>6, <1>7 DEF BaseInv, TypeOK

\* The steps of the goroutines keep it.
LEMMA RunBase ==
  ASSUME BaseInv, NEW k \in Slots, RunTest(k)
  PROVE  BaseInv'
<1>0. TypeOK /\ NoStaleCancel
  BY DEF BaseInv
<1>1. run[k] # Idle
  BY DEF RunTest, OpenAndStart, RunEnds, RecordLogError, UpdateTestStatus, RereadPassed,
     RaiseStage, ReturnFromRun, RunAt
<1>2. /\ run[k].id \in Nat /\ run[k].dep \in StageRecs /\ run[k].result \in Finals \cup {"running"}
      /\ stages \in Seq(StageRecs) /\ tests \in Seq(TestRecs)
  BY <1>0, <1>1, InFlight DEF RunRecs, TypeOK
<1>3. CASE ReturnFromRun(k)
  <2>1. /\ run' = [run EXCEPT ![k] = Idle] /\ cancels' = Forget(run[k].id)
        /\ UNCHANGED <<stages, tests, env, req, mishaps>>
    BY <1>3 DEF ReturnFromRun
  <2>2. TypeOK'
    BY <1>0, <2>1 DEF TypeOK, Forget
  <2>3. \A e \in cancels' : e.slot \in Slots \ {k}
    BY <1>0, <2>1 DEF Forget, NoStaleCancel, TypeOK
  <2>4. NoStaleCancel'
    BY <1>0, <2>1, <2>3 DEF Forget, NoStaleCancel, TypeOK
  <2> QED
    BY <2>2, <2>4 DEF BaseInv
<1>4. CASE \E pc \in RunPcs : RunMoves(k, pc)
  <2>1. /\ run' \in [Slots -> RunRecs \cup {Idle}]
        /\ \A l \in Slots : run[l] # Idle => run'[l] # Idle /\ run'[l].id = run[l].id
    BY <1>4 DEF RunMoves
  <2>2. (cancels' = cancels /\ env' = env /\ req' = req) \/ ReturnFromRun(k)
    BY DEF RunTest, OpenAndStart, RunEnds, RecordLogError, UpdateTestStatus, RereadPassed,
       RaiseStage
  <2>3. mishaps' = mishaps \/ Mishap
    BY DEF RunTest, OpenAndStart, RunEnds, RecordLogError, UpdateTestStatus, RereadPassed,
       RaiseStage, ReturnFromRun
  <2>4. mishaps' \in 0 .. MaxMishaps
    BY <1>0, <2>3, BoundAssumption DEF TypeOK, Mishap
  <2>5. stages' \in Seq(StageRecs)
    <3>1. stages' = stages \/ stages' = ReplaceOne(stages, run[k].dep)
      BY DEF RunTest, OpenAndStart, RunEnds, RecordLogError, UpdateTestStatus, RereadPassed,
         RaiseStage, ReturnFromRun
    <3> QED
      BY <1>2, <3>1, ReplaceOneFact
  <2>6. tests' \in Seq(TestRecs)
    <3>1. tests' = tests \/ \E st \in Finals \cup {"running"} : tests' = SetTest(run[k].id, st)
      BY <1>2 DEF RunTest, OpenAndStart, RunEnds, RecordLogError, UpdateTestStatus,
         RereadPassed, RaiseStage, ReturnFromRun, Finals
    <3> QED
      BY <1>0, <1>2, <3>1, SetTestType
  <2>7. \A e \in cancels : e.slot \in Slots
    BY <1>0 DEF TypeOK
  <2>8. CASE cancels' = cancels /\ env' = env /\ req' = req
    BY <1>0, <2>1, <2>4, <2>5, <2>6, <2>7, <2>8 DEF BaseInv, TypeOK, NoStaleCancel
  <2> QED
    BY <1>3, <2>2, <2>8
<1>5. ReturnFromRun(k) \/ \E pc \in RunPcs : RunMoves(k, pc)
  <2>1. CASE RereadPassed(k) /\ Found(stages, Stage)
             /\ run' = [run EXCEPT ![k].pc = "raise", ![k].dep = [TheStage EXCEPT !.status = "ready"]]
    BY <1>0, <1>1, <2>1, StageDoc, RaiseMoves DEF RunPcs
  <2>2. CASE \E pc \in RunPcs : RunGoto(k, pc)
    BY <1>0, <1>1, <2>2, RunGotoMoves
  <2>3. CASE \E res \in Finals : RunResult(k, res)
    BY <1>0, <1>1, <2>3, RunResultMoves DEF RunPcs
  <2>4. CASE RereadPassed(k)
    BY <2>1, <2>2, <2>4 DEF RereadPassed, RunPcs
  <2> QED
    BY <2>2, <2>3, <2>4 DEF RunTest, OpenAndStart, RunEnds, RecordLogError,
       UpdateTestStatus, RaiseStage, RunPcs, Finals
<1> QED
  BY <1>3, <1>4, <1>5

\* Every step keeps it.
LEMMA BaseStep ==
  ASSUME BaseInv, [Next]_vars
  PROVE  BaseInv'
<1>1. ASSUME NEW c \in Clients, Request(c) PROVE BaseInv'
  <2>1. PICK op \in {"create", "env", "reset", "start", "cancel", "delete"},
            pc \in RequestPcs, d \in StageRecs, n \in Nat : Begin(c, op, pc, d, n)
    BY <1>1, RequestBegins DEF BaseInv
  <2>2. TypeOK' /\ cancels' = cancels /\ run' = run
    BY <2>1, BeginFact DEF BaseInv
  <2> QED
    BY <2>2 DEF BaseInv, NoStaleCancel
<1>2. ASSUME NEW c \in Clients, Handle(c) PROVE BaseInv'
  BY <1>2, HandleBase
<1>3. ASSUME NEW k \in Slots, RunTest(k) PROVE BaseInv'
  BY <1>3, RunBase
<1>4. CASE Restart
  BY <1>4, BoundAssumption DEF Restart, Mishap, BaseInv, TypeOK, NoStaleCancel
<1>5. CASE UNCHANGED vars
  BY <1>5 DEF vars, BaseInv, TypeOK, NoStaleCancel
<1> QED
  BY <1>1, <1>2, <1>3, <1>4, <1>5 DEF Next

\* It holds in every reachable state.
LEMMA BaseInvariant == Spec => []BaseInv
<1>1. Init => BaseInv
  <2> SUFFICES ASSUME Init PROVE BaseInv
    OBVIOUS
  <2>1. stages \in Seq(StageRecs) /\ tests \in Seq(TestRecs)
    BY DEF Init
  <2>2. mishaps \in 0 .. MaxMishaps
    BY BoundAssumption DEF Init
  <2>3. env \in BOOLEAN /\ cancels = {} /\ cancels \subseteq [id : Nat, slot : Slots]
    BY DEF Init
  <2>4. run \in [Slots -> RunRecs \cup {Idle}] /\ req \in [Clients -> Requests \cup {Idle}]
    BY DEF Init
  <2> QED
    BY <2>1, <2>2, <2>3, <2>4 DEF BaseInv, TypeOK, NoStaleCancel
<1>2. BaseInv /\ [Next]_vars => BaseInv'
  BY BaseStep
<1> QED
  BY <1>1, <1>2, PTL DEF Spec

\* Documents, copies and goroutines keep to the known statuses, polite
\* operators or not.
THEOREM StageTypes == Spec => []TypeOK
<1>1. BaseInv => TypeOK
  BY DEF BaseInv
<1> QED
  BY <1>1, BaseInvariant, PTL

\* testCancels never holds a function of a run that has ended, however
\* starts, cancels, ends and restarts are interleaved.
THEOREM CancelsLive == Spec => []NoStaleCancel
<1>1. BaseInv => NoStaleCancel
  BY DEF BaseInv
<1> QED
  BY <1>1, BaseInvariant, PTL

-----------------------------------------------------------------------------
(* Polite operators: the steps of the requests.                            *)

\* Which call may follow which.
After(pc) ==
  CASE pc = "insert"  -> {"seed"}
    [] pc = "seed"    -> {"reread"}
    [] pc = "reread"  -> {"write"}
    [] pc = "write"   -> {"save"}
    [] pc = "demote"  -> {"next"}
    [] pc = "next"    -> {"create"}
    [] pc = "create"  -> {"spawn"}
    [] pc = "cancel"  -> {"forget"}
    [] pc = "rmenv"   -> {"rmtests"}
    [] pc = "rmtests" -> {"rmstage"}
    [] OTHER          -> {}

\* What a call makes of the request that makes it.
LEMMA HandleMoves ==
  ASSUME TypeOK, NEW c \in Clients, Handle(c)
  PROVE  /\ req[c] # Idle
         /\ \A e \in Clients \ {c} : req'[e] = req[e]
         /\ \/ req'[c] = Idle
            \/ /\ req'[c] # Idle
               /\ req'[c].op = req[c].op
               /\ req'[c].pc \in After(req[c].pc)
               /\ req[c].pc # "reread" => req'[c].dep = req[c].dep
               /\ req[c].pc = "reread" =>
                    Found(stages, Stage) /\ req'[c].dep.seq = TheStage.seq
               /\ req[c].pc # "next" => req'[c].test = req[c].test
               /\ req[c].pc = "next" =>
                    Found(stages, Stage) /\ req'[c].test = TheStage.seq + 1
<1>1. req[c] # Idle
  BY DEF Handle, CreateStage, SeedEnv, RereadStage, WriteEnv, SaveStage, DemoteStage,
     NextTestSequence, CreateTest, SpawnTest, CancelTest, ForgetCancel, RemoveFiles,
     DeleteTestsByStageID, RemoveStage, CallFails, At
<1>2. CASE Finish(c)
  BY <1>1, <1>2, FinishMoves
<1>3. ASSUME NEW pc \in After(req[c].pc), req[c].pc \notin {"reread", "next"}, Goto(c, pc)
      PROVE  /\ \A e \in Clients \ {c} : req'[e] = req[e]
             /\ req'[c] # Idle /\ req'[c].op = req[c].op /\ req'[c].pc = pc
             /\ req'[c].dep = req[c].dep /\ req'[c].test = req[c].test
  <2>1. pc \in RequestPcs
    BY <1>3 DEF After, RequestPcs
  <2> QED
    BY <1>1, <1>3, <2>1, GotoMoves DEF ReqMoves
<1>4. CASE RereadStage(c)
  <2>1. req[c].pc = "reread"
    BY <1>4 DEF RereadStage, At
  <2>2. CASE GotoWith(c, "write", [TheStage EXCEPT !.status = "ready"]) /\ Found(stages, Stage)
    <3>1. ReqMoves(c, "write", [TheStage EXCEPT !.status = "ready"], req[c].test)
          /\ [TheStage EXCEPT !.status = "ready"].seq = TheStage.seq
      BY <1>1, <2>2, StageDoc, GotoWithMoves DEF RequestPcs
    <3> QED
      BY <1>1, <2>1, <2>2, <3>1 DEF ReqMoves, After
  <2> QED
    BY <1>2, <1>4, <2>2 DEF RereadStage
<1>5. CASE NextTestSequence(c)
  <2>1. req[c].pc = "next"
    BY <1>5 DEF NextTestSequence, At
  <2>2. CASE Found(stages, Stage)
              /\ req' = [req EXCEPT ![c].pc = "create", ![c].test = TheStage.seq + 1]
    <3>1. TheStage.seq + 1 \in Nat
      BY <2>2, StageDoc DEF StageRecs
    <3> DEFINE n == TheStage.seq + 1
    <3>2. n \in Nat /\ req' = [req EXCEPT ![c].pc = "create", ![c].test = n]
      BY <2>2, <3>1
    <3> HIDE DEF n
    <3>3. ReqMoves(c, "create", req[c].dep, n)
      BY <1>1, <3>2, NumberedMoves
    <3>4. /\ \A e \in Clients \ {c} : req'[e] = req[e]
          /\ req'[c] # Idle /\ req'[c].op = req[c].op /\ req'[c].pc \in After(req[c].pc)
          /\ req'[c].dep = req[c].dep /\ req'[c].test = n
      BY <2>1, <3>3 DEF ReqMoves, After
    <3> QED
      BY <1>1, <2>1, <2>2, <3>4 DEF n
  <2> QED
    BY <1>2, <1>5, <2>2 DEF NextTestSequence
<1>6. Finish(c) \/ RereadStage(c) \/ NextTestSequence(c)
      \/ (req[c].pc \notin {"reread", "next"} /\ \E pc \in After(req[c].pc) : Goto(c, pc))
  BY DEF Handle, CreateStage, SeedEnv, WriteEnv, SaveStage, DemoteStage, CreateTest,
     SpawnTest, CancelTest, ForgetCancel, RemoveFiles, DeleteTestsByStageID, RemoveStage,
     CallFails, At, After
<1> QED
  BY <1>1, <1>2, <1>3, <1>4, <1>5, <1>6

\* A call keeps requests in flight compatible.
LEMMA HandleReqs ==
  ASSUME TypeOK, ReqsFine, NEW c \in Clients, Handle(c)
  PROVE  ReqsFine'
<1>1. /\ req[c] # Idle
      /\ \A e \in Clients \ {c} : req'[e] = req[e]
      /\ req'[c] # Idle => req'[c].op = req[c].op /\ req'[c].pc \in After(req[c].pc)
  BY HandleMoves
<1>2. PcFits(req[c]) /\ req[c].pc \in RequestPcs /\ req[c] \in Requests
  BY <1>1, InFlight DEF ReqsFine, Requests
<1>3. req'[c] # Idle => PcFits(req[c])'
  BY <1>1, <1>2 DEF PcFits, After, RequestPcs
<1>4. Compatible'
  BY <1>1 DEF ReqsFine, Compatible
<1> QED
  BY <1>1, <1>3, <1>4 DEF ReqsFine

\* What a request that starts, creates or changes a stage may meet.
LEMMA Meets ==
  ASSUME ReqsFine, TypeOK, NEW c \in Clients, req[c] # Idle,
         NEW e \in Clients, req[e] # Idle, e # c
  PROVE  /\ req[c].op \notin {"cancel", "delete"} =>
              req[e].pc \in {"cancel", "forget", "rmenv", "rmtests", "rmstage"}
         /\ req[c].op \notin {"cancel", "delete"} => req[e].op # "start"
         /\ req[c].op = "start" => req[e].pc \in {"cancel", "forget"}
         /\ req[c].op = "delete" => req[e].op # "start"
<1>1. Overlap(req[c].op, req[e].op) /\ PcFits(req[e]) /\ req[e].pc \in RequestPcs
  BY InFlight DEF ReqsFine, Compatible, Requests
<1> QED
  BY <1>1 DEF Overlap, PcFits, RequestPcs

\* One stage document at most: what the writes make of it.
LEMMA StageWrites ==
  ASSUME TypeOK, UniqueIds(stages)
  PROVE  /\ \A d \in StageRecs : stages' = ReplaceOne(stages, d) =>
              /\ UniqueIds(stages')
              /\ Found(stages', Stage) <=> Found(stages, Stage)
              /\ Found(stages, Stage) => FindOne(stages', Stage) = d
         /\ \A d \in StageRecs : stages' = InsertOne(stages, d) /\ ~Found(stages, Stage) =>
              /\ UniqueIds(stages')
              /\ Found(stages', Stage) /\ FindOne(stages', Stage) = d
         /\ stages' = DeleteOne(stages, Stage) =>
              UniqueIds(stages') /\ ~Found(stages', Stage)
<1>1. stages \in Seq(StageRecs) /\ \A d \in StageRecs : d.id = Stage
  BY DEF TypeOK, StageRecs
<1>2. ASSUME NEW d \in StageRecs, stages' = ReplaceOne(stages, d)
      PROVE  /\ UniqueIds(stages')
             /\ Found(stages', Stage) <=> Found(stages, Stage)
             /\ Found(stages, Stage) => FindOne(stages', Stage) = d
  BY <1>1, <1>2, ReplaceOneUnique, ReplaceFinds
<1>3. ASSUME NEW d \in StageRecs, stages' = InsertOne(stages, d), ~Found(stages, Stage)
      PROVE  /\ UniqueIds(stages')
             /\ Found(stages', Stage) /\ FindOne(stages', Stage) = d
  BY <1>1, <1>3, InsertOneUnique, InsertFindsNew
<1>4. ASSUME stages' = DeleteOne(stages, Stage)
      PROVE  UniqueIds(stages') /\ ~Found(stages', Stage)
  BY <1>1, <1>4, DeleteOneUnique
<1> QED
  BY <1>2, <1>3, <1>4

\* Where the documents stay, so does what is said of them.
LEMMA SameDocs ==
  ASSUME stages' = stages, tests' = tests
  PROVE  /\ \A n : Bounded(n)' <=> Bounded(n)
         /\ \A n : Unsettled(n)' <=> Unsettled(n)
         /\ TheStage' = TheStage
         /\ Found(stages, Stage)' <=> Found(stages, Stage)
         /\ DocsFine' <=> DocsFine
<1>1. \A n : Bounded(n)' <=> Bounded(n)
  BY DEF Bounded
<1>2. \A n : Unsettled(n)' <=> Unsettled(n)
  BY DEF Unsettled
<1>3. TheStage' = TheStage /\ (Found(stages, Stage)' <=> Found(stages, Stage))
  BY DEF TheStage
<1>4. DocsFine' <=> DocsFine
  BY <1>1, <1>3 DEF DocsFine, StageCounts, UniqueIds
<1> QED
  BY <1>1, <1>2, <1>3, <1>4

\* The same goroutines are under way, at the same places.
RunsSame ==
  \A k \in Slots : /\ run'[k] = Idle <=> run[k] = Idle
                   /\ run[k] # Idle => /\ run'[k].pc = run[k].pc
                                       /\ run'[k].id = run[k].id
                                       /\ run'[k].dep = run[k].dep

\* Steps of a request that leave documents and goroutines as they are.
LEMMA QuietStep ==
  ASSUME TestsInv, NEW c \in Clients, Handle(c),
         stages' = stages, tests' = tests, RunsSame,
         \/ req'[c] = Idle
         \/ req[c].pc \in {"seed", "reread", "write", "cancel", "forget", "rmenv"}
  PROVE  DocsFine' /\ RunsFine' /\ AllRely'
<1>0. TypeOK /\ DocsFine /\ RunsFine /\ AllRely
  BY DEF TestsInv
<1>1. DocsFine'
  BY <1>0, SameDocs
<1>2. RunsFine'
  <2>1. OneRun'
    BY <1>0 DEF RunsFine, OneRun, RunsSame
  <2>2. ASSUME NEW k \in Slots, run'[k] # Idle PROVE Counts(run[k])'
    <3>1. Counts(run[k]) /\ run'[k].pc = run[k].pc /\ run'[k].id = run[k].id
          /\ run'[k].dep = run[k].dep
      BY <1>0, <2>2 DEF RunsFine, RunsSame
    <3> QED
      BY <3>1, SameDocs DEF Counts
  <2> QED
    BY <2>1, <2>2 DEF RunsFine
<1>3. ASSUME NEW e \in Clients \ {c}, req'[e] # Idle PROVE Relies(req[e])'
  <2>1. req'[e] = req[e] /\ Relies(req[e])
    BY <1>0, <1>3, HandleMoves DEF AllRely
  <2> QED
    BY <1>0, <2>1, SameDocs DEF Relies, RunsSame
<1>4. ASSUME req'[c] # Idle PROVE Relies(req[c])'
  <2>1. /\ req[c] # Idle /\ req'[c].op = req[c].op /\ req'[c].pc \in After(req[c].pc)
        /\ req[c].pc # "reread" => req'[c].dep = req[c].dep
        /\ req[c].pc = "reread" => Found(stages, Stage) /\ req'[c].dep.seq = TheStage.seq
    BY <1>0, <1>4, HandleMoves
  <2>2. Relies(req[c]) /\ StageCounts
    BY <1>0, <2>1 DEF AllRely, DocsFine
  <2>3. req'[c].pc \in {"reread", "write", "save", "forget", "rmtests"}
    BY <1>4, <2>1 DEF After
  <2>4. req'[c].pc = "write" => Bounded(req'[c].dep.seq)
    BY <1>4, <2>1, <2>2 DEF After, StageCounts
  <2>5. req'[c].pc = "save" => Bounded(req'[c].dep.seq)
    BY <1>4, <2>1, <2>2 DEF After, Relies
  <2>6. req'[c].pc \in {"write", "save"} => Bounded(req[c].dep.seq)'
    BY <2>4, <2>5, SameDocs
  <2>7. req'[c].op = "start" => Found(stages, Stage)' /\ \A k \in Slots : run'[k] = Idle
    BY <2>1, <2>2, SameDocs DEF Relies, RunsSame
  <2> QED
    BY <2>3, <2>6, <2>7 DEF Relies
<1> QED
  BY <1>0, <1>1, <1>2, <1>3, <1>4, HandleMoves DEF AllRely

\* Steps after which no test is recorded.
LEMMA EmptiedStep ==
  ASSUME TestsInv, NEW c \in Clients, Handle(c), tests' = <<>>, run' = run,
         UniqueIds(stages'),
         \A e \in Clients : req'[e] # Idle =>
           /\ req'[e].pc = "insert" => ~Found(stages', Stage)
           /\ req'[e].op # "start"
           /\ req'[e].pc # "create"
  PROVE  DocsFine' /\ RunsFine' /\ AllRely'
<1>1. \A n : Bounded(n)' /\ Unsettled(n)'
  BY DEF Bounded, Unsettled, Found
<1>2. DocsFine'
  BY <1>1 DEF DocsFine, UniqueIds, StageCounts
<1>3. RunsFine'
  BY <1>1 DEF TestsInv, RunsFine, OneRun, Counts
<1>4. AllRely'
  BY <1>1 DEF AllRely, Relies
<1> QED
  BY <1>2, <1>3, <1>4

\* CreateStage inserts where nothing is, so no test is recorded.
LEMMA CreateStep ==
  ASSUME TestsInv, NEW c \in Clients, CreateStage(c)
  PROVE  DocsFine' /\ RunsFine' /\ AllRely'
<1>0. TypeOK /\ ReqsFine /\ DocsFine /\ AllRely
  BY DEF TestsInv
<1>1. /\ Handle(c) /\ req[c] # Idle /\ req[c].pc = "insert"
      /\ stages' = InsertOne(stages, req[c].dep) /\ tests' = tests /\ run' = run
  BY DEF CreateStage, At, Handle
<1>2. ~Found(stages, Stage) /\ tests = <<>>
  BY <1>0, <1>1 DEF AllRely, Relies, DocsFine, StageCounts
<1>3. req[c].dep \in StageRecs
  BY <1>0, <1>1, InFlight DEF Requests
<1>4. UniqueIds(stages')
  BY <1>0, <1>1, <1>2, <1>3, StageWrites DEF DocsFine
<1>5. req[c].op = "create"
  BY <1>0, <1>1 DEF ReqsFine, PcFits
<1>6. ASSUME NEW e \in Clients, req'[e] # Idle
      PROVE  req'[e].pc # "insert" /\ req'[e].op # "start" /\ req'[e].pc # "create"
  <2>1. CASE e = c
    BY <1>0, <1>1, <1>5, <1>6, <2>1, HandleMoves DEF After
  <2>2. CASE e # c
    <3>1. req'[e] = req[e]
      BY <1>0, <1>1, <2>2, HandleMoves
    <3> QED
      BY <1>0, <1>1, <1>5, <1>6, <2>2, <3>1, Meets
  <2> QED
    BY <2>1, <2>2
<1> QED
  BY <1>1, <1>2, <1>4, <1>6, EmptiedStep

\* DeleteTestsByStageID meets no start.
LEMMA ForgetTestsStep ==
  ASSUME TestsInv, NEW c \in Clients, DeleteTestsByStageID(c)
  PROVE  DocsFine' /\ RunsFine' /\ AllRely'
<1>0. TypeOK /\ ReqsFine /\ DocsFine /\ AllRely
  BY DEF TestsInv
<1>1. /\ Handle(c) /\ req[c] # Idle /\ req[c].pc = "rmtests"
      /\ stages' = stages /\ tests' = <<>> /\ run' = run
  BY DEF DeleteTestsByStageID, At, Handle
<1>2. req[c].op = "delete"
  BY <1>0, <1>1 DEF ReqsFine, PcFits
<1>3. ASSUME NEW e \in Clients, req'[e] # Idle
      PROVE  /\ req'[e].pc = "insert" => ~Found(stages', Stage)
             /\ req'[e].op # "start" /\ req'[e].pc # "create"
  <2>1. CASE e = c
    BY <1>0, <1>1, <1>2, <1>3, <2>1, HandleMoves DEF After
  <2>2. CASE e # c
    <3>1. req'[e] = req[e] /\ req[e] # Idle
      BY <1>0, <1>1, <1>3, <2>2, HandleMoves
    <3>2. req[e].op # "start" /\ PcFits(req[e]) /\ Relies(req[e])
      BY <1>0, <1>1, <1>2, <2>2, <3>1, Meets DEF ReqsFine, AllRely
    <3> QED
      BY <1>1, <3>1, <3>2 DEF PcFits, Relies
  <2> QED
    BY <2>1, <2>2
<1>4. UniqueIds(stages')
  BY <1>0, <1>1 DEF DocsFine
<1> QED
  BY <1>1, <1>3, <1>4, EmptiedStep

\* RemoveStage finds the tests gone: no start came in between.
LEMMA RemoveStep ==
  ASSUME TestsInv, NEW c \in Clients, RemoveStage(c)
  PROVE  DocsFine' /\ RunsFine' /\ AllRely'
<1>0. TypeOK /\ ReqsFine /\ DocsFine /\ AllRely
  BY DEF TestsInv
<1>1. /\ Handle(c) /\ req[c] # Idle /\ req[c].pc = "rmstage" /\ req'[c] = Idle
      /\ stages' = DeleteOne(stages, Stage) /\ tests' = tests /\ run' = run
  BY <1>0, FinishMoves DEF RemoveStage, At, Handle
<1>2. tests = <<>> /\ req[c].op = "delete"
  BY <1>0, <1>1 DEF ReqsFine, PcFits, AllRely, Relies
<1>3. UniqueIds(stages') /\ ~Found(stages', Stage)
  BY <1>0, <1>1, StageWrites DEF DocsFine
<1>4. ASSUME NEW e \in Clients, req'[e] # Idle
      PROVE  req'[e].op # "start" /\ req'[e].pc # "create"
  <2>1. e # c
    BY <1>1, <1>4
  <2>2. req'[e] = req[e] /\ req[e] # Idle
    BY <1>0, <1>1, <1>4, <2>1, HandleMoves
  <2>3. req[e].op # "start" /\ PcFits(req[e])
    BY <1>0, <1>1, <1>2, <2>1, <2>2, Meets DEF ReqsFine
  <2> QED
    BY <2>2, <2>3 DEF PcFits
<1> QED
  BY <1>1, <1>2, <1>3, <1>4, EmptiedStep

\* UpdateStage and $inc: the document is replaced by one that counts every
\* recorded test, and no test is being created meanwhile.
LEMMA Replaced ==
  ASSUME TestsInv, NEW d \in StageRecs, stages' = ReplaceOne(stages, d),
         Bounded(d.seq), tests' = tests
  PROVE  /\ DocsFine'
         /\ Found(stages', Stage) <=> Found(stages, Stage)
         /\ Found(stages, Stage) => TheStage' = d
         /\ \A n : Bounded(n)' <=> Bounded(n)
         /\ \A n : Unsettled(n)' <=> Unsettled(n)
<1>0. TypeOK /\ DocsFine
  BY DEF TestsInv
<1>1. /\ UniqueIds(stages')
      /\ Found(stages', Stage) <=> Found(stages, Stage)
      /\ Found(stages, Stage) => TheStage' = d
  BY <1>0, StageWrites DEF DocsFine, TheStage
<1>2. /\ \A n : Bounded(n)' <=> Bounded(n)
      /\ \A n : Unsettled(n)' <=> Unsettled(n)
  BY DEF Bounded, Unsettled
<1>3. StageCounts'
  BY <1>0, <1>1, <1>2 DEF DocsFine, StageCounts
<1>4. UniqueIds(tests')
  BY <1>0 DEF DocsFine
<1> QED
  BY <1>1, <1>2, <1>3, <1>4 DEF DocsFine

\* SaveStage and DemoteStage.
LEMMA WriteBackStep ==
  ASSUME TestsInv, NEW c \in Clients, SaveStage(c) \/ DemoteStage(c)
  PROVE  DocsFine' /\ RunsFine' /\ AllRely'
<1>0. TypeOK /\ ReqsFine /\ DocsFine /\ AllRely /\ RunsFine
  BY DEF TestsInv
<1>1. /\ Handle(c) /\ req[c] # Idle /\ req[c].pc \in {"save", "demote"}
      /\ stages' = ReplaceOne(stages, req[c].dep) /\ tests' = tests /\ run' = run
  BY DEF SaveStage, DemoteStage, At, Handle
<1>2. req[c].dep \in StageRecs
  BY <1>0, <1>1, InFlight DEF Requests
<1>3. Bounded(req[c].dep.seq) /\ req[c].op \notin {"cancel", "delete"}
  BY <1>0, <1>1 DEF ReqsFine, PcFits, AllRely, Relies
<1>4. /\ DocsFine'
      /\ Found(stages', Stage) <=> Found(stages, Stage)
      /\ \A n : Bounded(n)' <=> Bounded(n)
      /\ \A n : Unsettled(n)' <=> Unsettled(n)
  BY <1>1, <1>2, <1>3, Replaced
<1>5. RunsFine'
  BY <1>0, <1>1, <1>4 DEF RunsFine, OneRun, Counts
<1>6. ASSUME NEW e \in Clients, req'[e] # Idle PROVE Relies(req[e])'
  <2>1. CASE e = c
    <3>1. req'[c].op = req[c].op /\ req'[c].pc = "next" /\ Relies(req[c])
      BY <1>0, <1>1, <1>6, <2>1, HandleMoves DEF After, AllRely
    <3> QED
      BY <1>1, <1>4, <2>1, <3>1 DEF Relies
  <2>2. CASE e # c
    <3>1. req'[e] = req[e] /\ req[e] # Idle /\ Relies(req[e])
      BY <1>0, <1>1, <1>6, <2>2, HandleMoves DEF AllRely
    <3>2. req[e].op # "start" /\ req[e].pc \in {"cancel", "forget", "rmenv", "rmtests", "rmstage"}
      BY <1>0, <1>1, <1>3, <2>2, <3>1, Meets
    <3> QED
      BY <1>1, <3>1, <3>2 DEF Relies
  <2> QED
    BY <2>1, <2>2
<1>7. AllRely'
  BY <1>6 DEF AllRely
<1> QED
  BY <1>4, <1>5, <1>7

\* NextTestSequence counts on from a number no test exceeds.
LEMMA NumberStep ==
  ASSUME TestsInv, NEW c \in Clients, NextTestSequence(c), Found(stages, Stage)
  PROVE  DocsFine' /\ RunsFine' /\ AllRely'
<1>0. TypeOK /\ ReqsFine /\ DocsFine /\ AllRely /\ RunsFine
  BY DEF TestsInv
<1> DEFINE d == [TheStage EXCEPT !.seq = @ + 1]
<1>1. /\ Handle(c) /\ req[c] # Idle /\ req[c].pc = "next"
      /\ stages' = ReplaceOne(stages, d) /\ tests' = tests /\ run' = run
  BY DEF NextTestSequence, At, Handle
<1>2. d \in StageRecs /\ d.seq = TheStage.seq + 1 /\ TheStage \in StageRecs
  BY <1>0, StageDoc
<1>3. TheStage.seq \in Nat
  BY <1>2 DEF StageRecs
<1> HIDE DEF d
<1>4. \A j \in DOMAIN tests : tests[j].id \in Nat /\ tests[j].id <= TheStage.seq
  <2>1. \A j \in DOMAIN tests : tests[j] \in TestRecs
    BY <1>0 DEF TypeOK
  <2>2. \A j \in DOMAIN tests : tests[j].id <= TheStage.seq
    BY <1>0 DEF DocsFine, StageCounts, Bounded
  <2> QED
    BY <2>1, <2>2 DEF TestRecs
<1>5. Bounded(d.seq)
  BY <1>2, <1>3, <1>4 DEF Bounded
<1>6. /\ DocsFine' /\ TheStage' = d
      /\ Found(stages', Stage)
      /\ \A n : Bounded(n)' <=> Bounded(n)
      /\ \A n : Unsettled(n)' <=> Unsettled(n)
  BY <1>1, <1>2, <1>5, Replaced
<1>7. RunsFine'
  BY <1>0, <1>1, <1>6 DEF RunsFine, OneRun, Counts
<1>8. req[c].op = "start" /\ Relies(req[c])
  BY <1>0, <1>1 DEF ReqsFine, PcFits, AllRely
<1>9. ASSUME req'[c] # Idle PROVE Relies(req[c])'
  <2>1. req'[c].op = "start" /\ req'[c].pc = "create" /\ req'[c].test = TheStage.seq + 1
    <3>1. /\ req'[c].op = req[c].op /\ req'[c].pc \in After(req[c].pc)
          /\ req[c].pc = "next" => req'[c].test = TheStage.seq + 1
      BY <1>0, <1>1, <1>9, HandleMoves
    <3> QED
      BY <1>1, <1>8, <3>1 DEF After
  <2>2. TheStage'.seq >= req'[c].test
    BY <1>2, <1>3, <1>6, <2>1
  <2>3. \A j \in DOMAIN tests' : tests'[j].id < req'[c].test
    BY <1>1, <1>3, <1>4, <2>1
  <2>4. \A k \in Slots : run'[k] = Idle
    BY <1>1, <1>8 DEF Relies
  <2> QED
    BY <1>6, <2>1, <2>2, <2>3, <2>4 DEF Relies
<1>10. ASSUME NEW e \in Clients \ {c}, req'[e] # Idle PROVE Relies(req[e])'
  <2>1. req'[e] = req[e] /\ req[e] # Idle /\ PcFits(req[e])
    BY <1>0, <1>1, <1>10, HandleMoves DEF ReqsFine
  <2>2. req[e].op # "start" /\ req[e].pc \in {"cancel", "forget"}
    BY <1>0, <1>1, <1>8, <1>10, <2>1, Meets
  <2> QED
    BY <2>1, <2>2 DEF Relies
<1> QED
  BY <1>6, <1>7, <1>9, <1>10 DEF AllRely

\* CreateTest records a number above all others.
LEMMA RecordStep ==
  ASSUME TestsInv, NEW c \in Clients, CreateTest(c)
  PROVE  DocsFine' /\ RunsFine' /\ AllRely'
<1>0. TypeOK /\ ReqsFine /\ DocsFine /\ AllRely /\ RunsFine
  BY DEF TestsInv
<1> DEFINE d == [id |-> req[c].test, status |-> "running"]
<1>1. /\ Handle(c) /\ req[c] # Idle /\ req[c].pc = "create"
      /\ tests' = InsertOne(tests, d) /\ stages' = stages /\ run' = run
  BY DEF CreateTest, At, Handle
<1>2. /\ req[c].op = "start" /\ Relies(req[c]) /\ req[c].test \in Nat
      /\ UniqueIds(stages) /\ UniqueIds(tests) /\ tests \in Seq(TestRecs)
  BY <1>0, <1>1, InFlight DEF ReqsFine, PcFits, AllRely, Requests, DocsFine, TypeOK
<1>3. d \in TestRecs /\ d.id = req[c].test /\ d.status = "running"
  BY <1>2 DEF TestRecs
<1> HIDE DEF d
<1>4. /\ Found(stages, Stage) /\ TheStage.seq >= req[c].test
      /\ \A j \in DOMAIN tests : tests[j].id < req[c].test
      /\ \A k \in Slots : run[k] = Idle
  BY <1>1, <1>2 DEF Relies
<1>5. TheStage.seq \in Nat /\ \A j \in DOMAIN tests : tests[j].id \in Nat
  <2>1. \A j \in DOMAIN tests : tests[j] \in TestRecs
    BY <1>2
  <2>2. TheStage \in StageRecs
    BY <1>0, <1>4, StageDoc
  <2> QED
    BY <2>1, <2>2 DEF TestRecs, StageRecs
<1>6. ~Found(tests, d.id)
  BY <1>2, <1>3, <1>4, <1>5 DEF Found
<1>7. UniqueIds(tests') /\ Found(tests', d.id) /\ FindOne(tests', d.id) = d
  BY <1>1, <1>2, <1>3, <1>6, InsertOneUnique, InsertFindsNew
<1>8. \A j \in DOMAIN tests' : tests'[j].id <= TheStage.seq
  <2>1. \A j \in DOMAIN tests' : tests'[j] = d \/ \E i \in DOMAIN tests : tests'[j] = tests[i]
    BY <1>1, <1>2, <1>3 DEF InsertOne
  <2> QED
    BY <1>2, <1>3, <1>4, <1>5, <2>1
<1>9. DocsFine'
  <2>1. Found(stages', Stage) /\ TheStage' = TheStage
    BY <1>1, <1>4 DEF TheStage
  <2>2. StageCounts'
    BY <1>8, <2>1 DEF StageCounts, Bounded
  <2> QED
    BY <1>1, <1>2, <1>7, <2>2 DEF DocsFine
<1>10. RunsFine'
  BY <1>1, <1>4 DEF RunsFine, OneRun
<1>11. ASSUME req'[c] # Idle PROVE Relies(req[c])'
  <2>1. req'[c].op = "start" /\ req'[c].pc = "spawn" /\ req'[c].test = d.id
    BY <1>0, <1>1, <1>2, <1>3, <1>11, HandleMoves DEF After
  <2>2. Unsettled(req[c].test)'
    BY <1>3, <1>7, <2>1 DEF Unsettled
  <2>3. Found(stages', Stage) /\ \A k \in Slots : run'[k] = Idle
    BY <1>1, <1>4
  <2> QED
    BY <2>1, <2>2, <2>3 DEF Relies
<1>12. ASSUME NEW e \in Clients \ {c}, req'[e] # Idle PROVE Relies(req[e])'
  <2>1. req'[e] = req[e] /\ req[e] # Idle
    BY <1>0, <1>1, <1>12, HandleMoves
  <2>2. req[e].op # "start" /\ req[e].pc \in {"cancel", "forget"}
    BY <1>0, <1>1, <1>2, <1>12, <2>1, Meets
  <2> QED
    BY <2>1, <2>2 DEF Relies
<1> QED
  BY <1>9, <1>10, <1>11, <1>12 DEF AllRely

\* SpawnTest launches the only run, of a test without an outcome.
LEMMA SpawnStep ==
  ASSUME TestsInv, NEW c \in Clients, SpawnTest(c)
  PROVE  DocsFine' /\ RunsFine' /\ AllRely'
<1>0. TypeOK /\ ReqsFine /\ DocsFine /\ AllRely /\ RunsFine
  BY DEF TestsInv
<1>1. /\ Handle(c) /\ req[c] # Idle /\ req[c].pc = "spawn" /\ req'[c] = Idle
      /\ stages' = stages /\ tests' = tests
  BY <1>0, FinishMoves DEF SpawnTest, At, Handle
<1>2. req[c].op = "start" /\ Relies(req[c])
  BY <1>0, <1>1 DEF ReqsFine, PcFits, AllRely
<1>3. Unsettled(req[c].test) /\ \A k \in Slots : run[k] = Idle
  BY <1>1, <1>2 DEF Relies
<1>4. PICK k \in Slots :
        /\ run'[k] # Idle /\ run'[k].pc = "start" /\ run'[k].id = req[c].test
        /\ \A l \in Slots \ {k} : run'[l] = run[l]
  BY <1>0, SpawnMoves
<1>5. DocsFine'
  BY <1>0, <1>1, SameDocs
<1>6. RunsFine'
  <2>1. \A l \in Slots : run'[l] # Idle => l = k
    BY <1>3, <1>4
  <2>2. Unsettled(run[k].id)'
    BY <1>1, <1>3, <1>4, SameDocs
  <2>3. Counts(run[k])'
    BY <1>4, <2>2 DEF Counts
  <2> QED
    BY <2>1, <2>3 DEF RunsFine, OneRun
<1>7. ASSUME NEW e \in Clients, req'[e] # Idle PROVE Relies(req[e])'
  <2>1. e # c /\ req'[e] = req[e] /\ req[e] # Idle
    BY <1>0, <1>1, <1>7, HandleMoves
  <2>2. req[e].op # "start" /\ req[e].pc \in {"cancel", "forget"}
    BY <1>0, <1>1, <1>2, <1>7, <2>1, Meets
  <2> QED
    BY <2>1, <2>2 DEF Relies
<1> QED
  BY <1>5, <1>6, <1>7 DEF AllRely

\* Every call of a request keeps the invariant, but for the .env file.
LEMMA HandleStep ==
  ASSUME TestsInv, NEW c \in Clients, Handle(c)
  PROVE  DocsFine' /\ RunsFine' /\ AllRely'
<1>1. CASE CreateStage(c)
  BY <1>1, CreateStep
<1>2. CASE SaveStage(c) \/ DemoteStage(c)
  BY <1>2, WriteBackStep
<1>3. CASE NextTestSequence(c) /\ Found(stages, Stage)
  BY <1>3, NumberStep
<1>4. CASE CreateTest(c)
  BY <1>4, RecordStep
<1>5. CASE SpawnTest(c)
  BY <1>5, SpawnStep
<1>6. CASE DeleteTestsByStageID(c)
  BY <1>6, ForgetTestsStep
<1>7. CASE RemoveStage(c)
  BY <1>7, RemoveStep
<1>8. ASSUME stages' = stages, tests' = tests, run' = run,
             \/ Finish(c)
             \/ req[c].pc \in {"seed", "reread", "write", "cancel", "forget", "rmenv"}
      PROVE  DocsFine' /\ RunsFine' /\ AllRely'
  <2>1. Finish(c) => req'[c] = Idle
    BY FinishMoves DEF TestsInv
  <2>2. RunsSame
    BY <1>8 DEF RunsSame
  <2> QED
    BY <1>8, <2>1, <2>2, QuietStep
<1>9. CASE CancelTest(c)
  <2>1. RunsSame
    BY <1>9, CancelMarks DEF TestsInv, RunsSame
  <2> QED
    BY <1>9, <2>1, QuietStep DEF CancelTest, At
<1>10. CASE SeedEnv(c) \/ RereadStage(c) \/ WriteEnv(c)
  BY <1>8, <1>10 DEF SeedEnv, RereadStage, WriteEnv, At
<1>11. CASE ForgetCancel(c) \/ RemoveFiles(c) \/ CallFails(c)
  BY <1>8, <1>11 DEF ForgetCancel, RemoveFiles, CallFails, At
<1>12. CASE NextTestSequence(c) /\ ~Found(stages, Stage)
  BY <1>8, <1>12 DEF NextTestSequence
<1> QED
  BY <1>1, <1>2, <1>3, <1>4, <1>5, <1>6, <1>7, <1>9, <1>10, <1>11, <1>12 DEF Handle

-----------------------------------------------------------------------------
(* Polite operators: the steps of the run.                                 *)

\* Recording an outcome keeps the numbers of the tests.
LEMMA OutcomeWrites ==
  ASSUME TypeOK, UniqueIds(tests), NEW n \in Nat, NEW st \in Finals \cup {"running"},
         tests' = SetTest(n, st)
  PROVE  /\ UniqueIds(tests')
         /\ \A m : Bounded(m) => Bounded(m)'
         /\ tests = <<>> => tests' = <<>>
         /\ \A m : Found(tests', m) <=> Found(tests, m)
         /\ \A m : m # n /\ Found(tests, m) => FindOne(tests', m) = FindOne(tests, m)
<1> DEFINE d == [id |-> n, status |-> st]
<1>1. d \in TestRecs /\ d.id = n /\ tests' = ReplaceOne(tests, d) /\ tests \in Seq(TestRecs)
  BY DEF TestRecs, SetTest, TypeOK
<1> HIDE DEF d
<1>2. UniqueIds(tests')
  BY <1>1, ReplaceOneUnique
<1>3. DOMAIN tests' = DOMAIN tests /\ \A i \in DOMAIN tests : tests'[i].id = tests[i].id
  BY <1>1, ReplaceOneShape
<1>4. \A m : Bounded(m) => Bounded(m)'
  BY <1>3 DEF Bounded
<1>5. tests = <<>> => tests' = <<>>
  BY <1>1 DEF ReplaceOne, Found
<1>6. ASSUME NEW m
      PROVE  /\ Found(tests', m) <=> Found(tests, m)
             /\ m # n /\ Found(tests, m) => FindOne(tests', m) = FindOne(tests, m)
  BY <1>1, ReplaceFinds
<1> QED
  BY <1>2, <1>4, <1>5, <1>6

\* A run under way excludes starts and other runs.
LEMMA RunAlone ==
  ASSUME TestsInv, NEW k \in Slots, run[k] # Idle
  PROVE  /\ \A l \in Slots \ {k} : run[l] = Idle
         /\ \A c \in Clients : req[c] # Idle =>
              /\ req[c].op # "start"
              /\ req[c].pc \notin {"demote", "next", "create", "spawn"}
<1>1. \A l \in Slots \ {k} : run[l] = Idle
  BY DEF TestsInv, RunsFine, OneRun
<1>2. ASSUME NEW c \in Clients, req[c] # Idle
      PROVE  req[c].op # "start" /\ req[c].pc \notin {"demote", "next", "create", "spawn"}
  <2>1. PcFits(req[c]) /\ Relies(req[c])
    BY <1>2 DEF TestsInv, ReqsFine, AllRely
  <2> QED
    BY <2>1 DEF PcFits, Relies
<1> QED
  BY <1>1, <1>2

\* A step of the run that keeps the numbers of the tests, and the stage or
\* at least its count of them.
LEMMA RunFrame ==
  ASSUME TestsInv, NEW k \in Slots, run[k] # Idle, req' = req,
         \A l \in Slots \ {k} : run'[l] = run[l],
         run'[k] # Idle => Counts(run[k])',
         DocsFine',
         Found(stages', Stage) <=> Found(stages, Stage),
         \A m : Bounded(m) => Bounded(m)',
         tests = <<>> => tests' = <<>>
  PROVE  DocsFine' /\ RunsFine' /\ AllRely'
<1>1. /\ \A l \in Slots \ {k} : run[l] = Idle
      /\ \A c \in Clients : req[c] # Idle =>
           /\ req[c].op # "start"
           /\ req[c].pc \notin {"demote", "next", "create", "spawn"}
  BY RunAlone
<1>2. RunsFine'
  BY <1>1 DEF RunsFine, OneRun
<1>3. ASSUME NEW c \in Clients, req'[c] # Idle PROVE Relies(req[c])'
  <2>1. Relies(req[c])
    BY <1>3 DEF TestsInv, AllRely
  <2> QED
    BY <1>1, <1>3, <2>1 DEF Relies
<1> QED
  BY <1>2, <1>3 DEF AllRely

\* Every step of the run keeps the invariant, but for the .env file.
LEMMA RunStep ==
  ASSUME TestsInv, NEW k \in Slots, RunTest(k)
  PROVE  DocsFine' /\ RunsFine' /\ AllRely'
<1>0. TypeOK /\ DocsFine /\ RunsFine /\ UniqueIds(tests) /\ StageCounts
  BY DEF TestsInv, DocsFine
<1>1. run[k] # Idle /\ req' = req
  BY DEF RunTest, OpenAndStart, RunEnds, RecordLogError, UpdateTestStatus, RereadPassed,
     RaiseStage, ReturnFromRun, RunAt
<1>2. /\ Counts(run[k]) /\ run[k].id \in Nat /\ run[k].dep \in StageRecs
      /\ run[k].result \in Finals \cup {"running"}
  BY <1>0, <1>1, InFlight DEF RunsFine, RunRecs
<1>3. ASSUME stages' = stages, tests' = tests
      PROVE  /\ DocsFine' /\ (Found(stages', Stage) <=> Found(stages, Stage))
             /\ \A m : Bounded(m) => Bounded(m)'
             /\ tests = <<>> => tests' = <<>>
  BY <1>0, <1>3, SameDocs
<1>4. ASSUME stages' = stages, NEW st \in Finals \cup {"running"},
             tests' = SetTest(run[k].id, st)
      PROVE  /\ DocsFine' /\ (Found(stages', Stage) <=> Found(stages, Stage))
             /\ \A m : Bounded(m) => Bounded(m)'
             /\ tests = <<>> => tests' = <<>>
  <2>1. /\ UniqueIds(tests')
        /\ \A m : Bounded(m) => Bounded(m)'
        /\ tests = <<>> => tests' = <<>>
    BY <1>0, <1>2, <1>4, OutcomeWrites
  <2>2. TheStage' = TheStage
    BY <1>4 DEF TheStage
  <2>3. StageCounts'
    BY <1>0, <1>4, <2>1, <2>2 DEF StageCounts
  <2> QED
    BY <1>0, <1>4, <2>1, <2>3 DEF DocsFine
<1>5. ASSUME NEW pc \in {"done", "reread"}, RunGoto(k, pc)
      PROVE  /\ \A l \in Slots \ {k} : run'[l] = run[l]
             /\ run'[k] # Idle => Counts(run[k])'
  <2>1. RunMoves(k, pc)
    BY <1>0, <1>1, <1>5, RunGotoMoves DEF RunPcs
  <2> QED
    BY <2>1 DEF RunMoves, Counts
<1>6. ASSUME NEW pc \in {"exec", "log_error", "record"}, RunMoves(k, pc), tests' = tests,
             run[k].pc \in {"start", "exec"}
      PROVE  /\ \A l \in Slots \ {k} : run'[l] = run[l]
             /\ run'[k] # Idle => Counts(run[k])'
  <2>1. /\ run'[k].pc = pc /\ run'[k].id = run[k].id
        /\ \A l \in Slots \ {k} : run'[l] = run[l]
    BY <1>6 DEF RunMoves
  <2>2. Unsettled(run[k].id)
    BY <1>2, <1>6 DEF Counts
  <2>3. Unsettled(run[k].id)'
    BY <1>6, <2>1, <2>2 DEF Unsettled
  <2> QED
    BY <1>6, <2>1, <2>3 DEF Counts
<1>7. CASE OpenAndStart(k) \/ RunEnds(k)
  <2>1. /\ stages' = stages /\ tests' = tests /\ run[k].pc \in {"start", "exec"}
        /\ \/ \E pc \in {"exec", "log_error"} : RunGoto(k, pc)
           \/ \E res \in Finals : RunResult(k, res)
    BY <1>7 DEF OpenAndStart, RunEnds, RunAt, Finals
  <2>2. \E pc \in {"exec", "log_error", "record"} : RunMoves(k, pc)
    BY <1>0, <1>1, <2>1, RunGotoMoves, RunResultMoves DEF RunPcs
  <2> QED
    BY <1>1, <1>3, <1>6, <2>1, <2>2, RunFrame
<1>8. CASE RecordLogError(k) \/ UpdateTestStatus(k)
  <2>1. /\ stages' = stages
        /\ tests' = tests \/ \E st \in Finals \cup {"running"} : tests' = SetTest(run[k].id, st)
        /\ \E pc \in {"done", "reread"} : RunGoto(k, pc)
    BY <1>2, <1>8 DEF RecordLogError, UpdateTestStatus, Finals
  <2> QED
    BY <1>1, <1>3, <1>4, <1>5, <2>1, RunFrame
<1>9. CASE RereadPassed(k)
  <2>1. stages' = stages /\ tests' = tests
    BY <1>9 DEF RereadPassed
  <2>2. CASE RunGoto(k, "done")
    BY <1>1, <1>3, <1>5, <2>1, <2>2, RunFrame
  <2>3. CASE Found(stages, Stage)
             /\ run' = [run EXCEPT ![k].pc = "raise", ![k].dep = [TheStage EXCEPT !.status = "ready"]]
    <3> DEFINE d == [TheStage EXCEPT !.status = "ready"]
    <3>1. d \in StageRecs /\ d.seq = TheStage.seq
      BY <1>0, <2>3, StageDoc
    <3>2. run' = [run EXCEPT ![k].pc = "raise", ![k].dep = d]
      BY <2>3
    <3> HIDE DEF d
    <3>3. RunMoves(k, "raise") /\ run'[k].dep = d
      BY <1>0, <1>1, <3>1, <3>2, RaiseMoves
    <3>4. Bounded(d.seq)
      BY <1>0, <2>3, <3>1 DEF StageCounts
    <3>5. Bounded(run[k].dep.seq)'
      BY <2>1, <3>3, <3>4, SameDocs
    <3>6. Counts(run[k])' /\ \A l \in Slots \ {k} : run'[l] = run[l]
      BY <3>3, <3>5 DEF Counts, RunMoves
    <3> QED
      BY <1>1, <1>3, <2>1, <3>6, RunFrame
  <2> QED
    BY <1>9, <2>2, <2>3 DEF RereadPassed
<1>10. CASE RaiseStage(k)
  <2>1. /\ run[k].pc = "raise" /\ tests' = tests /\ RunGoto(k, "done")
        /\ stages' = stages \/ stages' = ReplaceOne(stages, run[k].dep)
    BY <1>10 DEF RaiseStage, RunAt
  <2>2. Bounded(run[k].dep.seq)
    BY <1>2, <2>1 DEF Counts
  <2>3. CASE stages' = stages
    BY <1>1, <1>3, <1>5, <2>1, <2>3, RunFrame
  <2>4. CASE stages' = ReplaceOne(stages, run[k].dep)
    <3>1. /\ DocsFine' /\ (Found(stages', Stage) <=> Found(stages, Stage))
          /\ \A m : Bounded(m)' <=> Bounded(m)
      BY <1>2, <2>1, <2>2, <2>4, Replaced
    <3> QED
      BY <1>1, <1>5, <2>1, <3>1, RunFrame
  <2> QED
    BY <2>1, <2>3, <2>4
<1>11. CASE ReturnFromRun(k)
  <2>1. /\ stages' = stages /\ tests' = tests
        /\ run'[k] = Idle /\ \A l \in Slots \ {k} : run'[l] = run[l]
    BY <1>0, <1>11 DEF ReturnFromRun, TypeOK
  <2> QED
    BY <1>1, <1>3, <2>1, RunFrame
<1> QED
  BY <1>7, <1>8, <1>9, <1>10, <1>11 DEF RunTest

-----------------------------------------------------------------------------
(* The .env file, requests that begin, and the invariant.                  *)

\* Replacing a document neither makes nor removes one.
LEMMA StillThere ==
  ASSUME TestsInv,
         stages' = stages \/ \E d \in StageRecs : stages' = ReplaceOne(stages, d)
  PROVE  Found(stages', Stage) <=> Found(stages, Stage)
  BY StageWrites DEF TestsInv, DocsFine

\* A call of a request and the .env file.
LEMMA HandleEnv ==
  ASSUME TestsInv, NEW c \in Clients, Handle(c)
  PROVE  EnvFacts'
<1>0. TypeOK /\ ReqsFine /\ EnvFacts /\ req[c] # Idle /\ \A e \in Clients \ {c} : req'[e] = req[e]
  BY HandleMoves DEF TestsInv
<1>1. mishaps \in Nat /\ req[c].dep \in StageRecs
  BY <1>0, BoundAssumption, InFlight DEF TypeOK, Requests
<1>2. CASE CallFails(c)
  <2>1. mishaps' # 0
    BY <1>1, <1>2 DEF CallFails, Mishap
  <2> QED
    BY <2>1 DEF EnvFacts
<1>3. CASE SeedEnv(c) \/ WriteEnv(c)
  BY <1>3 DEF SeedEnv, WriteEnv, EnvFacts
<1>4. CASE CreateStage(c) \/ RemoveFiles(c) \/ DeleteTestsByStageID(c)
  <2>1. \E pc \in {"seed", "rmtests", "rmstage"} : Goto(c, pc)
    BY <1>4 DEF CreateStage, RemoveFiles, DeleteTestsByStageID
  <2>2. req'[c] # Idle /\ req'[c].pc \in {"seed", "rmtests", "rmstage"}
    BY <1>0, <2>1, GotoMoves DEF ReqMoves, RequestPcs
  <2> QED
    BY <2>2 DEF EnvFacts
<1>5. CASE RemoveStage(c)
  <2>1. ~Found(stages', Stage)
    BY <1>5, StageWrites DEF RemoveStage, TestsInv, DocsFine
  <2> QED
    BY <2>1 DEF EnvFacts
<1>6. ASSUME req[c].pc \notin {"seed", "rmtests", "rmstage"}, env' = env, mishaps' = mishaps,
             stages' = stages \/ \E d \in StageRecs : stages' = ReplaceOne(stages, d)
      PROVE  EnvFacts'
  <2>1. Found(stages', Stage) <=> Found(stages, Stage)
    BY <1>6, StillThere
  <2>2. \A e \in Clients : req[e] # Idle /\ req[e].pc \in {"seed", "rmtests", "rmstage"}
          => req'[e] # Idle /\ req'[e].pc \in {"seed", "rmtests", "rmstage"}
    BY <1>0, <1>6
  <2> QED
    BY <1>0, <1>6, <2>1, <2>2 DEF EnvFacts
<1>7. CASE RereadStage(c) \/ SaveStage(c) \/ DemoteStage(c)
  BY <1>1, <1>6, <1>7 DEF RereadStage, SaveStage, DemoteStage, At
<1>8. CASE CreateTest(c) \/ SpawnTest(c) \/ CancelTest(c) \/ ForgetCancel(c)
  BY <1>6, <1>8 DEF CreateTest, SpawnTest, CancelTest, ForgetCancel, At
<1>9. CASE NextTestSequence(c)
  <2>1. stages' = stages \/ \E d \in StageRecs : stages' = ReplaceOne(stages, d)
    BY <1>0, <1>9, StageDoc DEF NextTestSequence
  <2> QED
    BY <1>6, <1>9, <2>1 DEF NextTestSequence, At
<1> QED
  BY <1>2, <1>3, <1>4, <1>5, <1>7, <1>8, <1>9 DEF Handle

\* The run does not touch it.
LEMMA RunEnv ==
  ASSUME TestsInv, NEW k \in Slots, RunTest(k)
  PROVE  EnvFacts' /\ ReqsFine'
<1>0. TypeOK /\ ReqsFine /\ EnvFacts
  BY DEF TestsInv
<1>1. /\ run[k] # Idle /\ req' = req /\ env' = env /\ (mishaps' = mishaps \/ Mishap)
      /\ stages' = stages \/ stages' = ReplaceOne(stages, run[k].dep)
  BY DEF RunTest, OpenAndStart, RunEnds, RecordLogError, UpdateTestStatus, RereadPassed,
     RaiseStage, ReturnFromRun, RunAt
<1>2. run[k].dep \in StageRecs /\ mishaps \in Nat
  BY <1>0, <1>1, BoundAssumption, InFlight DEF RunRecs, TypeOK
<1>3. Found(stages', Stage) <=> Found(stages, Stage)
  BY <1>1, <1>2, StillThere
<1>4. mishaps' = 0 => mishaps = 0
  BY <1>1, <1>2 DEF Mishap
<1>5. EnvFacts'
  BY <1>0, <1>1, <1>3, <1>4 DEF EnvFacts
<1>6. ReqsFine'
  BY <1>0, <1>1 DEF ReqsFine, Compatible, PcFits
<1> QED
  BY <1>5, <1>6

\* Polite operators wait for what their request would not overlap.
LEMMA RequestStep ==
  ASSUME TestsInv, Polite, NEW c \in Clients, Request(c)
  PROVE  ReqsFine' /\ DocsFine' /\ RunsFine' /\ AllRely' /\ EnvFacts'
<1>0. TypeOK /\ ReqsFine /\ DocsFine /\ RunsFine /\ AllRely /\ EnvFacts
  BY DEF TestsInv
<1>1. PICK op \in {"create", "env", "reset", "start", "cancel", "delete"},
           pc \in RequestPcs, d \in StageRecs, n \in Nat :
        /\ Begin(c, op, pc, d, n)
        /\ \/ op = "create" /\ pc = "insert" /\ ~Found(stages, Stage)
           \/ op = "env" /\ pc = "write" /\ Found(stages, Stage) /\ d.seq = TheStage.seq
           \/ op = "reset" /\ pc = "save" /\ Found(stages, Stage) /\ d.seq = TheStage.seq
           \/ /\ op = "start" /\ pc \in {"demote", "next"}
              /\ Found(stages, Stage) /\ d.seq = TheStage.seq
              /\ Polite => \A k \in Slots : run[k] = Idle
           \/ op = "cancel" /\ pc = "cancel"
           \/ op = "delete" /\ pc = "rmenv"
  BY <1>0, RequestBegins
<1>2. /\ req[c] = Idle /\ req'[c] # Idle
      /\ req'[c].pc = pc /\ req'[c].op = op /\ req'[c].dep = d
      /\ \A e \in Clients \ {c} : req'[e] = req[e]
      /\ stages' = stages /\ tests' = tests /\ env' = env /\ run' = run /\ mishaps' = mishaps
      /\ \A e \in Clients : req[e] # Idle => Overlap(op, req[e].op)
  BY <1>0, <1>1, BeginFact
<1>3. ReqsFine'
  <2>1. \A o, p : Overlap(o, p) => Overlap(p, o)
    BY DEF Overlap
  <2>2. Compatible'
    BY <1>0, <1>2, <2>1 DEF ReqsFine, Compatible
  <2>3. PcFits(req[c])'
    BY <1>1, <1>2 DEF PcFits
  <2>4. \A e \in Clients : req'[e] # Idle => PcFits(req[e])'
    BY <1>0, <1>2, <2>3 DEF ReqsFine, PcFits
  <2> QED
    BY <2>2, <2>4 DEF ReqsFine
<1>4. DocsFine'
  BY <1>0, <1>2, SameDocs
<1>5. RunsFine'
  BY <1>0, <1>2, SameDocs DEF RunsFine, OneRun, Counts
<1>6. Relies(req[c])'
  <2>1. pc \in {"write", "save", "demote"} => Bounded(d.seq)
    BY <1>0, <1>1 DEF DocsFine, StageCounts
  <2>2. pc \in {"write", "save", "demote"} => Bounded(req[c].dep.seq)'
    BY <1>2, <2>1, SameDocs
  <2>3. op = "start" => Found(stages', Stage) /\ \A k \in Slots : run'[k] = Idle
    BY <1>1, <1>2
  <2>4. pc = "insert" => ~Found(stages', Stage)
    BY <1>1, <1>2
  <2>5. pc \notin {"create", "spawn", "rmstage"}
    BY <1>1
  <2> QED
    BY <1>2, <2>2, <2>3, <2>4, <2>5 DEF Relies
<1>7. \A e \in Clients : req'[e] # Idle => Relies(req[e])'
  BY <1>0, <1>2, <1>6, SameDocs DEF AllRely, Relies
<1>8. EnvFacts'
  BY <1>0, <1>2, SameDocs DEF EnvFacts
<1> QED
  BY <1>3, <1>4, <1>5, <1>7, <1>8 DEF AllRely

\* The invariant holds at first,
LEMMA TestsInvInit == Init => TestsInv
<1> SUFFICES ASSUME Init PROVE TestsInv
  OBVIOUS
<1>1. stages = <<>> /\ tests = <<>> /\ cancels = {} /\ env = FALSE /\ mishaps = 0
  BY DEF Init
<1>2. /\ run \in [Slots -> RunRecs \cup {Idle}] /\ \A k \in Slots : run[k] = Idle
      /\ req \in [Clients -> Requests \cup {Idle}] /\ \A c \in Clients : req[c] = Idle
  BY DEF Init
<1>3. mishaps \in 0 .. MaxMishaps
  BY <1>1, BoundAssumption
<1>4. stages \in Seq(StageRecs) /\ tests \in Seq(TestRecs)
  BY <1>1
<1>5. TypeOK
  BY <1>1, <1>2, <1>3, <1>4 DEF TypeOK
<1>6. UniqueIds(stages) /\ UniqueIds(tests) /\ ~Found(stages, Stage)
  BY <1>1 DEF UniqueIds, Found
<1>7. NoStaleCancel /\ ReqsFine /\ DocsFine
  BY <1>1, <1>2, <1>6 DEF NoStaleCancel, ReqsFine, Compatible, DocsFine, StageCounts
<1>8. RunsFine /\ AllRely /\ EnvFacts
  BY <1>2, <1>6 DEF RunsFine, OneRun, AllRely, EnvFacts
<1> QED
  BY <1>5, <1>7, <1>8 DEF TestsInv

\* every step keeps it while operators are polite,
LEMMA TestsInvStep ==
  ASSUME Polite, TestsInv, [Next]_vars
  PROVE  TestsInv'
<1>0. TypeOK /\ NoStaleCancel /\ ReqsFine /\ DocsFine /\ RunsFine /\ AllRely /\ EnvFacts
  BY DEF TestsInv
<1>1. TypeOK' /\ NoStaleCancel'
  BY <1>0, BaseStep DEF BaseInv
<1>2. ASSUME NEW c \in Clients, Request(c) PROVE TestsInv'
  BY <1>1, <1>2, RequestStep DEF TestsInv
<1>3. ASSUME NEW c \in Clients, Handle(c) PROVE TestsInv'
  BY <1>0, <1>1, <1>3, HandleReqs, HandleStep, HandleEnv DEF TestsInv
<1>4. ASSUME NEW k \in Slots, RunTest(k) PROVE TestsInv'
  BY <1>1, <1>4, RunStep, RunEnv DEF TestsInv
<1>5. CASE Restart
  <2>1. /\ \A c \in Clients : req'[c] = Idle
        /\ \A k \in Slots : run'[k] = Idle
        /\ stages' = stages /\ tests' = tests /\ mishaps' # 0
    BY <1>0, <1>5, BoundAssumption DEF Restart, Mishap, TypeOK
  <2>2. ReqsFine' /\ RunsFine' /\ AllRely' /\ EnvFacts'
    BY <2>1 DEF ReqsFine, Compatible, RunsFine, OneRun, AllRely, EnvFacts
  <2>3. DocsFine'
    BY <1>0, <2>1, SameDocs
  <2> QED
    BY <1>1, <2>2, <2>3 DEF TestsInv
<1>6. CASE UNCHANGED vars
  <2>1. /\ stages' = stages /\ tests' = tests /\ env' = env /\ run' = run /\ req' = req
        /\ mishaps' = mishaps
    BY <1>6 DEF vars
  <2>2. DocsFine'
    BY <1>0, <2>1, SameDocs
  <2>3. ReqsFine'
    BY <1>0, <2>1 DEF ReqsFine, Compatible, PcFits
  <2>4. RunsFine'
    BY <1>0, <2>1, SameDocs DEF RunsFine, OneRun, Counts
  <2>5. AllRely' /\ EnvFacts'
    BY <1>0, <2>1, SameDocs DEF AllRely, Relies, EnvFacts
  <2> QED
    BY <1>1, <2>2, <2>3, <2>4, <2>5 DEF TestsInv
<1> QED
  BY <1>2, <1>3, <1>4, <1>5, <1>6 DEF Next

\* and so it holds in every reachable state.
LEMMA TestsInvariant == ASSUME Polite PROVE Spec => []TestsInv
<1>1. TestsInv /\ [Next]_vars => TestsInv'
  BY TestsInvStep
<1> QED
  BY <1>1, TestsInvInit, PTL DEF Spec

-----------------------------------------------------------------------------
(* What the invariant gives.                                               *)

\* README: a test is recorded with a per-stage sequence number.  While
\* operators are polite no two recorded tests of a stage share one, although
\* UpdateStage writes testSequence back from copies read before other tests.
THEOREM NumbersUnique == ASSUME Polite PROVE Spec => []UniqueTestIDs
<1>1. TestsInv => UniqueTestIDs
  BY DEF TestsInv, DocsFine, UniqueIds, UniqueTestIDs
<1> QED
  BY <1>1, TestsInvariant, PTL

\* A recorded stage nobody works on has its .env file, unless a call failed
\* or the daemon restarted: a create inserts before it writes, a delete
\* removes the file before the document.
THEOREM EnvPresent == ASSUME Polite PROVE Spec => []EnvBehindStage
<1>1. TestsInv => EnvBehindStage
  <2> SUFFICES ASSUME TestsInv, mishaps = 0, Found(stages, Stage),
                      \A c \in Clients : req[c] = Idle \/ req[c].op = "cancel"
               PROVE  env
    BY DEF EnvBehindStage
  <2>1. \A c \in Clients : req[c] # Idle => PcFits(req[c])
    BY DEF TestsInv, ReqsFine
  <2>2. ~ \E c \in Clients : req[c] # Idle /\ req[c].pc \in {"seed", "rmtests", "rmstage"}
    BY <2>1 DEF PcFits
  <2> QED
    BY <2>2 DEF TestsInv, EnvFacts
<1> QED
  BY <1>1, TestsInvariant, PTL

\* UpdateTestStatus of one run never replaces the outcome of another test,
\* nor an outcome already recorded.
THEOREM OutcomesKept == ASSUME Polite PROVE Spec => OutcomeStays
<1> DEFINE Kept(n) == Found(tests, n) /\ FindOne(tests, n).status \in Finals
                        => ~Found(tests', n) \/ FindOne(tests', n) = FindOne(tests, n)
<1>1. ASSUME TestsInv, [Next]_vars, NEW n
      PROVE  Kept(n)
  <2>0. TypeOK /\ UniqueIds(tests) /\ tests \in Seq(TestRecs)
    BY <1>1 DEF TestsInv, DocsFine, TypeOK
  <2>1. CASE tests' = tests
    BY <2>1
  <2>2. CASE tests' = <<>>
    BY <2>2 DEF Found
  <2>3. ASSUME NEW c \in Clients, CreateTest(c) PROVE Kept(n)
    <3> DEFINE d == [id |-> req[c].test, status |-> "running"]
    <3>1. req[c] \in Requests /\ tests' = InsertOne(tests, d)
      BY <2>0, <2>3, InFlight DEF CreateTest, At
    <3>2. d \in TestRecs
      BY <3>1 DEF Requests, TestRecs
    <3> HIDE DEF d
    <3> QED
      BY <2>0, <3>1, <3>2, InsertFinds
  <2>4. ASSUME NEW k \in Slots, RunTest(k), NEW st \in Finals \cup {"running"},
               tests' = SetTest(run[k].id, st),
               run[k] # Idle, run[k].pc \in {"log_error", "record"}
        PROVE  Kept(n)
    <3>1. run[k].id \in Nat /\ Counts(run[k])
      BY <1>1, <2>0, <2>4, InFlight DEF RunRecs, TestsInv, RunsFine
    <3>2. Unsettled(run[k].id)
      BY <2>4, <3>1 DEF Counts
    <3>3. n # run[k].id /\ Found(tests, n) => FindOne(tests', n) = FindOne(tests, n)
      BY <2>0, <2>4, <3>1, OutcomeWrites
    <3> QED
      BY <3>2, <3>3 DEF Unsettled, Finals
  <2>5. ASSUME NEW k \in Slots, RunTest(k) PROVE Kept(n)
    <3>1. \/ tests' = tests
          \/ /\ run[k] # Idle /\ run[k].pc \in {"log_error", "record"}
             /\ \E st \in {"error", run[k].result} : tests' = SetTest(run[k].id, st)
      BY <2>5 DEF RunTest, OpenAndStart, RunEnds, RecordLogError, UpdateTestStatus,
         RereadPassed, RaiseStage, ReturnFromRun, RunAt
    <3>2. run[k] # Idle => {"error", run[k].result} \subseteq Finals \cup {"running"}
      BY <2>0, InFlight DEF RunRecs, Finals
    <3> QED
      BY <2>1, <2>4, <2>5, <3>1, <3>2
  <2>6. \/ tests' = tests
        \/ tests' = <<>>
        \/ \E c \in Clients : CreateTest(c)
        \/ \E k \in Slots : RunTest(k)
    BY <1>1 DEF Next, vars, Restart, Request, PrepareStage, UpdateStageEnv, ResetStage,
       StartTest, CancelTestHandler, DeleteStage, Begin, Handle, CreateStage, SeedEnv,
       RereadStage, WriteEnv, SaveStage, DemoteStage, NextTestSequence, SpawnTest,
       CancelTest, ForgetCancel, RemoveFiles, DeleteTestsByStageID, RemoveStage, CallFails
  <2> QED
    BY <2>1, <2>2, <2>3, <2>5, <2>6
<1>2. TestsInv /\ [Next]_vars => [\A n \in 1 .. MaxSequence : Kept(n)]_vars
  BY <1>1
<1> QED
  BY <1>2, TestsInvariant, PTL DEF Spec, OutcomeStays
=============================================================================
