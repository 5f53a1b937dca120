--------------------------- MODULE ReleasesProofs ---------------------------
(***************************************************************************)
(* What holds of Releases as long as nobody works on a stage another       *)
(* request or a goroutine is working on, for any number of tags, stages    *)
(* and clients, and any way of naming binaries by tags: checkouts are of   *)
(* their release's commit, binaries of the commit of a release that goes   *)
(* by their name, and a running deployment loses its binary only to one    *)
(* that shares it.                                                         *)
(***************************************************************************)
EXTENDS Releases, CollectionProofs

USE DEF Idle, StageIds, TagOf, BinaryName

-----------------------------------------------------------------------------
(* The request a client has in flight.                                     *)

\* A request other than a sync has a stage, and a call that belongs to it.
LEMMA HandlerShape ==
  ASSUME NEW r \in Requests
  PROVE  /\ r.op \in DOMAIN HandlerPcs /\ r.pc \in HandlerPcs[r.op]
         /\ r.stage \in StageIds /\ r.sha \in Commits \cup {NoCommit}
         /\ r = [op |-> r.op, pc |-> r.pc, stage |-> r.stage, sha |-> r.sha]
  BY DEF Requests

\* And conversely.
LEMMA MakeRequest ==
  ASSUME NEW op \in DOMAIN HandlerPcs, NEW pc \in HandlerPcs[op], NEW s \in StageIds,
         NEW sha \in Commits \cup {NoCommit}
  PROVE  [op |-> op, pc |-> pc, stage |-> s, sha |-> sha] \in Requests
  BY DEF Requests

\* Which request makes which call.
LEMMA PcShape ==
  ASSUME NEW r \in Requests
  PROVE  /\ r # Idle /\ r.op # "sync"
         /\ r.pc \in {"release", "clear", "clone", "checkout", "insert"} <=> r.op = "create"
         /\ r.pc \in {"rmrepo", "rmstage"} <=> r.op = "delete"
         /\ r.pc \in {"rmdoc", "rmbin", "promote"} <=> r.op \in {"deploy", "undeploy"}
         /\ r.pc = "promote" => r.op = "deploy"
         /\ r.pc \notin {"list", "lookup", "record"}
  <1>1. /\ r.op \in {"create", "delete", "deploy", "undeploy"}
        /\ r.op = "create" => r.pc \in {"release", "clear", "clone", "checkout", "insert"}
        /\ r.op = "delete" => r.pc \in {"rmrepo", "rmstage"}
        /\ r.op = "deploy" => r.pc \in {"rmdoc", "rmbin", "promote"}
        /\ r.op = "undeploy" => r.pc \in {"rmdoc", "rmbin"}
    BY HandlerShape DEF HandlerPcs
  <1> QED
    BY <1>1

\* A sync is no such request.
LEMMA SyncShape ==
  ASSUME NEW r \in Syncs
  PROVE  /\ r # Idle /\ r.op = "sync" /\ r.pc \in {"list", "lookup", "record"}
         /\ r.pc # "list" => /\ r = [op |-> "sync", pc |-> r.pc, listed |-> r.listed, todo |-> r.todo]
                             /\ r.listed \subseteq ReleaseRecs /\ r.todo \subseteq ReleaseRecs
  BY DEF Syncs

\* Client c makes a call of a handler.
LEMMA CallShape ==
  ASSUME TypeOK, NEW c \in Clients, NEW pc, At(c, pc), pc \notin {"list", "lookup", "record"}
  PROVE  req[c] \in Requests /\ req[c].stage \in StageIds
  BY HandlerShape, SyncShape DEF TypeOK, At

\* Client c makes a call of a sync.
LEMMA SyncCall ==
  ASSUME TypeOK, NEW c \in Clients, NEW pc, At(c, pc), pc \in {"list", "lookup", "record"}
  PROVE  req[c] \in Syncs
  BY PcShape DEF TypeOK, At

\* A request is a handler's, a sync or none.
LEMMA WorkingShape ==
  ASSUME TypeOK, NEW c \in Clients, NEW s, Working(c, s)
  PROVE  req[c] \in Requests
  BY SyncShape DEF TypeOK, Working

\* The request moves on to its next call.
LEMMA GotoMoves ==
  ASSUME TypeOK, NEW c \in Clients, req[c] \in Requests,
         NEW pc \in HandlerPcs[req[c].op], Goto(c, pc)
  PROVE  /\ req' \in [Clients -> {Idle} \cup Requests \cup Syncs]
         /\ req'[c] \in Requests /\ req'[c].pc = pc /\ req'[c].op = req[c].op
         /\ req'[c].stage = req[c].stage /\ req'[c].sha = req[c].sha
         /\ \A d \in Clients \ {c} : req'[d] = req[d]
  <1>1. req'[c] = [op |-> req[c].op, pc |-> pc, stage |-> req[c].stage, sha |-> req[c].sha]
    BY HandlerShape DEF Goto, TypeOK
  <1>2. req'[c] \in Requests
    BY <1>1, HandlerShape, MakeRequest
  <1> QED
    BY <1>1, <1>2 DEF Goto, TypeOK

\* The request ends.
LEMMA FinishMoves ==
  ASSUME TypeOK, NEW c \in Clients, Finish(c)
  PROVE  /\ req' \in [Clients -> {Idle} \cup Requests \cup Syncs]
         /\ req'[c] = Idle
         /\ \A d \in Clients \ {c} : req'[d] = req[d]
  BY DEF Finish, TypeOK

\* The line a sync is at is one of those it has to do.
LEMMA LineFact ==
  ASSUME TypeOK, NEW c \in Clients, req[c] \in Syncs, req[c].pc # "list", req[c].todo # {}
  PROVE  Line(c) \in req[c].todo /\ Line(c) \in ReleaseRecs
  <1> DEFINE todo == req[c].todo
             ids == {r.id : r \in todo}
  <1>1. todo \subseteq ReleaseRecs
    BY SyncShape
  <1>2. ids \subseteq Nat /\ ids # {}
    BY <1>1, TagAssumption DEF ReleaseRecs
  <1>3. PICK x \in ids : \A y \in ids : x <= y
    BY <1>2, LeastNat
  <1>4. \E r \in todo : \A q \in todo : r.id <= q.id
    BY <1>3
  <1>5. Line(c) \in todo
    BY <1>4, Zenon DEF Line
  <1> QED
    BY <1>1, <1>5

\* What a handler's step does to the requests: its own moves on or ends.
Moves(c) ==
  /\ req' \in [Clients -> {Idle} \cup Requests \cup Syncs]
  /\ \A d \in Clients \ {c} : req'[d] = req[d]
  /\ req'[c] # Idle =>
       /\ req'[c] \in Requests /\ req'[c].op = req[c].op
       /\ req'[c].stage = req[c].stage

LEMMA MovesByGoto ==
  ASSUME TypeOK, NEW c \in Clients, req[c] \in Requests,
         NEW pc \in HandlerPcs[req[c].op], Goto(c, pc)
  PROVE  Moves(c)
  BY GotoMoves DEF Moves

LEMMA MovesByFinish ==
  ASSUME TypeOK, NEW c \in Clients, Finish(c)
  PROVE  Moves(c)
  BY FinishMoves DEF Moves

\* The lines of syncs are not touched by a handler.
LEMMA MovesType ==
  ASSUME TypeOK, NEW c \in Clients, Moves(c)
  PROVE  \A d \in Clients :
           /\ At(d, "lookup")' \/ At(d, "record")' => req'[d].todo \subseteq req'[d].listed
           /\ At(d, "record")' => req'[d].todo # {}
  <1>1. ~At(c, "lookup")' /\ ~At(c, "record")'
    BY PcShape DEF Moves, At
  <1>2. \A d \in Clients \ {c} : req'[d] = req[d]
    BY DEF Moves
  <1> QED
    BY <1>1, <1>2 DEF TypeOK, At

\* A stage stays in the same hands.
LEMMA MovesExclusive ==
  ASSUME TypeOK, Exclusive, NEW c \in Clients, req[c] \in Requests, Moves(c),
         \A s \in StageIds : job[s] = "none" => job'[s] = "none"
  PROVE  Exclusive'
  <1>1. \A d \in Clients, s \in StageIds : Working(d, s)' => Working(d, s)
    BY PcShape DEF Moves, Working
  <1> QED
    BY <1>1 DEF Exclusive

\* Creations by others find what they found before, on stages of their own.
LEMMA MovesCreating ==
  ASSUME TypeOK, Exclusive, Creating, NEW c \in Clients, req[c] \in Requests, Moves(c),
         UNCHANGED releases,
         \A s \in StageIds \ {req[c].stage} :
           repo'[s] = repo[s] /\ (Found(stages', s) => Found(stages, s)),
         Creates(c)'
  PROVE  Creating'
  <1> SUFFICES ASSUME NEW d \in Clients \ {c}, req[d] # Idle, req[d].op = "create"
               PROVE  Creates(d)'
    BY DEF Moves, Creating, Creates
  <1>1. req[d] \in Requests
    BY SyncShape DEF TypeOK
  <1>2. req[d].stage \in StageIds /\ req[d].stage # req[c].stage
    <2>1. Working(d, req[d].stage) /\ Working(c, req[c].stage) /\ req[c].stage \in StageIds
          /\ req[d].stage \in StageIds
      BY <1>1, PcShape, HandlerShape DEF Working
    <2> QED
      BY <2>1 DEF Exclusive
  <1>3. req'[d] = req[d] /\ Creates(d)
    BY DEF Moves, Creating
  <1> QED
    BY <1>2, <1>3 DEF Creates, CommitOf

\* Removals of binaries stand as they stood.
LEMMA MovesWithdrawn ==
  ASSUME TypeOK, Withdrawn, NEW c \in Clients, Moves(c), serving' \subseteq serving,
         At(c, "rmbin")' => req'[c].stage \notin serving'
  PROVE  Withdrawn'
  BY DEF Moves, Withdrawn, At

-----------------------------------------------------------------------------
(* The invariant.                                                          *)

LEMMA ReleaseInit == Init => ReleaseInv
  <1> SUFFICES ASSUME Init PROVE ReleaseInv
    OBVIOUS
  <1>1. releases = <<>> /\ stages = <<>> /\ DOMAIN <<>> = {}
    BY DEF Init
  <1>2. \A s : ~Found(stages, s) /\ ~Found(releases, s)
    BY <1>1 DEF Found
  <1>3. TypeOK
    BY <1>1, BoundAssumption DEF Init, TypeOK, Checkouts, At
  <1> QED
    BY <1>2, <1>3
    DEF Init, ReleaseInv, CheckoutOfRelease, BinaryOfRelease, Exclusive, Creating, Creates,
        Provisioning, Withdrawn, Working, At

\* Nothing but requests ending, and mishaps.
LEMMA EndKeeps ==
  ASSUME ReleaseInv, UNCHANGED <<remote, releases, stages, repo, deployed, serving, builds, moves>>,
         mishaps' \in 0 .. MaxMishaps,
         req' \in [Clients -> {Idle} \cup Requests \cup Syncs],
         \A c \in Clients : req'[c] = req[c] \/ req'[c] = Idle,
         job' \in [StageIds -> {"none", "stat", "build", "install"}],
         \A s \in StageIds : job[s] = "none" => job'[s] = "none"
  PROVE  ReleaseInv'
  <1>1. TypeOK'
    BY DEF ReleaseInv, TypeOK, At
  <1>2. CheckoutOfRelease' /\ BinaryOfRelease'
    BY DEF ReleaseInv, CheckoutOfRelease, BinaryOfRelease, CommitOf
  <1>3. Exclusive' /\ Provisioning' /\ Withdrawn'
    BY DEF ReleaseInv, Exclusive, Provisioning, Withdrawn, Working, At
  <1>4. Creating'
    BY DEF ReleaseInv, Creating, Creates, CommitOf
  <1> QED
    BY <1>1, <1>2, <1>3, <1>4 DEF ReleaseInv

\* Releases are only added: what a release stands for never changes.
LEMMA ReleasesGrow ==
  ASSUME TypeOK, NEW doc \in ReleaseRecs, releases' = InsertOne(releases, doc), NEW t
  PROVE  Found(releases, t) => Found(releases', t) /\ CommitOf(t)' = CommitOf(t)
  BY InsertFinds DEF TypeOK, CommitOf

\* A step of a sync.
LEMMA SyncKeeps ==
  ASSUME ReleaseInv, NEW c \in Clients, req[c] = Idle \/ req[c] \in Syncs,
         UNCHANGED <<remote, stages, repo, deployed, job, serving, builds, moves>>,
         mishaps' \in 0 .. MaxMishaps,
         releases' = releases
           \/ \E doc \in ReleaseRecs : releases' = InsertOne(releases, doc),
         NEW r \in Syncs \cup {Idle}, req' = [req EXCEPT ![c] = r],
         r.pc \in {"lookup", "record"} => r.todo \subseteq r.listed,
         r.pc = "record" => r.todo # {}
  PROVE  ReleaseInv'
  <1>1. /\ req' \in [Clients -> {Idle} \cup Requests \cup Syncs] /\ req'[c] = r
        /\ \A d \in Clients \ {c} : req'[d] = req[d]
    BY DEF ReleaseInv, TypeOK
  <1>2. releases' \in Seq(ReleaseRecs)
    <2>1. releases \in Seq(ReleaseRecs)
      BY DEF ReleaseInv, TypeOK
    <2>2. \A doc \in ReleaseRecs : InsertOne(releases, doc) \in Seq(ReleaseRecs)
      BY <2>1 DEF InsertOne
    <2> QED
      BY <2>1, <2>2
  <1>3. \A t : Found(releases, t) => Found(releases', t) /\ CommitOf(t)' = CommitOf(t)
    BY ReleasesGrow DEF ReleaseInv, CommitOf
  <1>4. TypeOK'
    BY <1>1, <1>2 DEF ReleaseInv, TypeOK, At
  <1>5. CheckoutOfRelease'
    BY <1>3 DEF ReleaseInv, CheckoutOfRelease
  <1>6. BinaryOfRelease'
    BY <1>3 DEF ReleaseInv, BinaryOfRelease
  <1>7. /\ \A s : ~Working(c, s)'
        /\ ~At(c, "rmbin")'
        /\ r # Idle => r.op # "create"
    BY <1>1, SyncShape DEF Working, At
  <1>8. Exclusive' /\ Provisioning' /\ Withdrawn'
    BY <1>1, <1>7 DEF ReleaseInv, Exclusive, Provisioning, Withdrawn, Working, At
  <1>9. Creating'
    BY <1>1, <1>3, <1>7 DEF ReleaseInv, Creating, Creates
  <1> QED
    BY <1>4, <1>5, <1>6, <1>8, <1>9 DEF ReleaseInv

\* The steps of a sync, whoever else does what in between.
LEMMA SyncStep ==
  ASSUME ReleaseInv, NEW c \in Clients, SyncReleases(c) \/ Sync(c)
  PROVE  ReleaseInv'
  <1>0. TypeOK /\ mishaps \in 0 .. MaxMishaps
    BY DEF ReleaseInv, TypeOK
  <1>1. CASE SyncReleases(c)
    <2>1. [op |-> "sync", pc |-> "list"] \in Syncs
      BY DEF Syncs
    <2> QED
      BY <1>0, <1>1, <2>1, SyncKeeps DEF SyncReleases
  <1>2. CASE ListRemote(c)
    <2> DEFINE listed == {[id |-> t, sha |-> remote[t]] : t \in {u \in Tags : remote[u] # NoCommit}}
               r == [op |-> "sync", pc |-> "lookup", listed |-> listed, todo |-> listed]
    <2>1. listed \subseteq ReleaseRecs
      BY <1>0 DEF TypeOK, ReleaseRecs
    <2>2. r \in Syncs
      BY <2>1 DEF Syncs
    <2>3. req[c] \in Syncs /\ req' = [req EXCEPT ![c] = r]
      BY <1>0, <1>2, SyncCall DEF ListRemote
    <2>4. r.pc = "lookup" /\ r.todo \subseteq r.listed
      OBVIOUS
    <2>5. UNCHANGED <<remote, releases, stages, repo, deployed, job, serving, builds, moves, mishaps>>
      BY <1>2 DEF ListRemote
    <2> HIDE DEF r
    <2> QED
      BY <1>0, <2>2, <2>3, <2>4, <2>5, SyncKeeps
  <1>3. ASSUME NextLine(c), req[c] \in Syncs, req[c].pc \in {"lookup", "record"},
               mishaps' \in 0 .. MaxMishaps,
               UNCHANGED <<remote, stages, repo, deployed, job, serving, builds, moves>>,
               releases' = releases
                 \/ \E doc \in ReleaseRecs : releases' = InsertOne(releases, doc)
        PROVE  ReleaseInv'
    <2> DEFINE r == [op |-> "sync", pc |-> "lookup", listed |-> req[c].listed,
                     todo |-> req[c].todo \ {Line(c)}]
    <2>1. req[c] = [op |-> "sync", pc |-> req[c].pc, listed |-> req[c].listed, todo |-> req[c].todo]
          /\ req[c].listed \subseteq ReleaseRecs /\ req[c].todo \subseteq ReleaseRecs
      BY <1>3, SyncShape
    <2>2. r \in Syncs
      BY <2>1 DEF Syncs
    <2>3. [[req[c] EXCEPT !.pc = "lookup"] EXCEPT !.todo = req[c].todo \ {Line(c)}] = r
      <3> DEFINE q == [op |-> "sync", pc |-> "lookup", listed |-> req[c].listed,
                       todo |-> req[c].todo]
      <3>1. [req[c] EXCEPT !.pc = "lookup"] = q
        BY <2>1
      <3>2. [q EXCEPT !.todo = req[c].todo \ {Line(c)}] = r
        OBVIOUS
      <3> QED
        BY <3>1, <3>2, Zenon
    <2>4. req' = [req EXCEPT ![c] = r]
      BY <1>0, <1>3, <2>3 DEF NextLine, TypeOK
    <2>5. req[c].todo \subseteq req[c].listed
      BY <1>0, <1>3, SyncShape DEF TypeOK, At
    <2>6. r.pc = "lookup" /\ r.todo \subseteq r.listed
      BY <2>5
    <2> HIDE DEF r
    <2> QED
      BY <1>0, <1>3, <2>2, <2>4, <2>6, SyncKeeps
  <1>4. CASE LookupRelease(c)
    <2>1. req[c] \in Syncs /\ req[c].pc = "lookup"
      BY <1>0, <1>4, SyncCall DEF LookupRelease, At
    <2>2. UNCHANGED <<remote, releases, stages, repo, deployed, job, serving, builds, moves, mishaps>>
      BY <1>4 DEF LookupRelease
    <2>3. CASE Finish(c)
      BY <1>0, <2>1, <2>2, <2>3, SyncKeeps DEF Finish
    <2>4. CASE NextLine(c)
      BY <1>0, <1>3, <2>1, <2>2, <2>4
    <2>5. CASE Goto(c, "record") /\ req[c].todo # {}
      <3> DEFINE r == [op |-> "sync", pc |-> "record", listed |-> req[c].listed,
                       todo |-> req[c].todo]
      <3>1. req[c] = [op |-> "sync", pc |-> "lookup", listed |-> req[c].listed, todo |-> req[c].todo]
            /\ req[c].listed \subseteq ReleaseRecs /\ req[c].todo \subseteq ReleaseRecs
        BY <2>1, SyncShape
      <3>2. r \in Syncs
        BY <3>1 DEF Syncs
      <3>3. [req[c] EXCEPT !.pc = "record"] = r
        BY <3>1
      <3>4. req' = [req EXCEPT ![c] = r]
        BY <1>0, <2>5, <3>3 DEF Goto, TypeOK
      <3>5. req[c].todo \subseteq req[c].listed
        BY <1>0, <2>1, SyncShape DEF TypeOK, At
      <3>6. r.todo \subseteq r.listed /\ r.todo # {}
        BY <2>5, <3>5
      <3> HIDE DEF r
      <3> QED
        BY <1>0, <2>1, <2>2, <3>2, <3>4, <3>6, SyncKeeps
    <2> QED
      BY <1>4, <2>3, <2>4, <2>5 DEF LookupRelease
  <1>5. CASE LookupFails(c)
    <2>1. mishaps' \in 0 .. MaxMishaps
      BY <1>0, <1>5, BoundAssumption DEF LookupFails, Mishap
    <2>2. req[c] \in Syncs /\ req[c].pc = "lookup"
      BY <1>0, <1>5, SyncCall DEF LookupFails, At
    <2> QED
      BY <1>3, <1>5, <2>1, <2>2 DEF LookupFails
  <1>6. CASE CreateRelease(c)
    <2>1. req[c] \in Syncs /\ req[c].pc = "record" /\ req[c].todo # {}
      BY <1>0, <1>6, SyncCall DEF CreateRelease, At, TypeOK
    <2>2. Line(c) \in ReleaseRecs
      BY <1>0, <2>1, LineFact
    <2> QED
      BY <1>0, <1>3, <1>6, <2>1, <2>2 DEF CreateRelease
  <1> QED
    BY <1>1, <1>2, <1>4, <1>5, <1>6 DEF Sync

\* A request enters on a stage nobody works on.
LEMMA BeginKeeps ==
  ASSUME Polite, ReleaseInv, NEW c \in Clients, NEW s \in StageIds,
         NEW op \in DOMAIN HandlerPcs, NEW pc \in HandlerPcs[op], Begin(c, op, pc, s),
         op = "create" => pc = "release" /\ ~Found(stages, s), pc # "rmbin"
  PROVE  ReleaseInv'
  <1> DEFINE r == [op |-> op, pc |-> pc, stage |-> s, sha |-> NoCommit]
  <1>1. r \in Requests
    BY MakeRequest
  <1>2. /\ req[c] = Idle /\ req' = [req EXCEPT ![c] = r] /\ ~Busy(s)
        /\ UNCHANGED <<remote, releases, stages, repo, deployed, job, serving, builds, moves, mishaps>>
    BY DEF Begin
  <1>3. r.op = op /\ r.pc = pc /\ r.stage = s /\ r.op # "sync" /\ pc \notin {"list", "lookup", "record"}
    BY <1>1, PcShape
  <1> HIDE DEF r
  <1>4. /\ req' \in [Clients -> {Idle} \cup Requests \cup Syncs] /\ req'[c] = r
        /\ \A d \in Clients \ {c} : req'[d] = req[d]
    BY <1>1, <1>2 DEF ReleaseInv, TypeOK
  <1>5. TypeOK'
    BY <1>2, <1>3, <1>4 DEF ReleaseInv, TypeOK, At
  <1>6. CheckoutOfRelease' /\ BinaryOfRelease' /\ Provisioning'
    BY <1>2 DEF ReleaseInv, CheckoutOfRelease, BinaryOfRelease, Provisioning, CommitOf
  <1>7. Exclusive'
    BY <1>2, <1>3, <1>4 DEF ReleaseInv, Exclusive, Working, Busy
  <1>8. Creating'
    BY <1>2, <1>3, <1>4 DEF ReleaseInv, Creating, Creates, CommitOf
  <1>9. Withdrawn'
    BY <1>2, <1>3, <1>4 DEF ReleaseInv, Withdrawn, At
  <1> QED
    BY <1>5, <1>6, <1>7, <1>8, <1>9 DEF ReleaseInv

\* Requests other than syncs.
LEMMA RequestKeeps ==
  ASSUME Polite, ReleaseInv, NEW c \in Clients, NEW s \in StageIds,
         \/ PrepareStage(c, s) \/ DeleteStage(c, s)
         \/ CreateDeployment(c, s) \/ DeleteDeployment(c, s)
  PROVE  ReleaseInv'
  <1>0. /\ DOMAIN HandlerPcs = {"create", "delete", "deploy", "undeploy"}
        /\ "release" \in HandlerPcs["create"] /\ "rmrepo" \in HandlerPcs["delete"]
        /\ "rmdoc" \in HandlerPcs["deploy"] /\ "promote" \in HandlerPcs["deploy"]
        /\ "rmdoc" \in HandlerPcs["undeploy"]
    BY DEF HandlerPcs
  <1>1. CASE PrepareStage(c, s)
    BY <1>0, <1>1, BeginKeeps DEF PrepareStage
  <1>2. CASE DeleteStage(c, s)
    BY <1>0, <1>2, BeginKeeps DEF DeleteStage
  <1>3. CASE CreateDeployment(c, s)
    <2>1. CASE s \in deployed
      BY <1>0, <1>3, <2>1, BeginKeeps DEF CreateDeployment
    <2>2. CASE s \notin deployed
      BY <1>0, <1>3, <2>2, BeginKeeps DEF CreateDeployment
    <2> QED
      BY <2>1, <2>2
  <1>4. CASE DeleteDeployment(c, s)
    BY <1>0, <1>4, BeginKeeps DEF DeleteDeployment
  <1> QED
    BY <1>1, <1>2, <1>3, <1>4

\* The lookup of the release: the creation keeps its commit.
LEMMA GetKeeps ==
  ASSUME ReleaseInv, NEW c \in Clients, GetRelease(c)
  PROVE  ReleaseInv'
  <1>0. TypeOK /\ req[c] \in Requests /\ req[c].stage \in StageIds /\ req[c].pc = "release"
        /\ req[c].op = "create"
    BY CallShape, PcShape DEF ReleaseInv, GetRelease, At
  <1> DEFINE t == TagOf(req[c].stage)
             r == [op |-> "create", pc |-> "clear", stage |-> req[c].stage, sha |-> CommitOf(t)]
  <1>1. UNCHANGED <<remote, releases, stages, repo, deployed, job, serving, builds, moves, mishaps>>
    BY DEF GetRelease
  <1>2. CASE Finish(c)
    BY <1>0, <1>1, <1>2, EndKeeps, FinishMoves DEF ReleaseInv, TypeOK
  <1>3. CASE Found(releases, t) /\ req' = [req EXCEPT ![c].pc = "clear", ![c].sha = CommitOf(t)]
    <2>1. req[c] = [op |-> "create", pc |-> "release", stage |-> req[c].stage, sha |-> req[c].sha]
      BY <1>0, HandlerShape
    <2>2. [[req[c] EXCEPT !.pc = "clear"] EXCEPT !.sha = CommitOf(t)] = r
      <3> DEFINE q == [op |-> "create", pc |-> "clear", stage |-> req[c].stage, sha |-> req[c].sha]
      <3>1. [req[c] EXCEPT !.pc = "clear"] = q
        BY <2>1
      <3>2. [q EXCEPT !.sha = CommitOf(t)] = r
        OBVIOUS
      <3> QED
        BY <3>1, <3>2, Zenon
    <2>3. req' = [req EXCEPT ![c] = r]
      BY <1>0, <1>3, <2>2 DEF TypeOK
    <2>4. CommitOf(t) \in Commits
      <3>1. releases \in Seq(ReleaseRecs)
        BY <1>0 DEF TypeOK
      <3>2. FindOne(releases, t) \in ReleaseRecs
        BY <1>3, <3>1, FindOneFact
      <3> QED
        BY <3>2 DEF CommitOf, ReleaseRecs
    <2>5. r \in Requests
      BY <1>0, <2>4, MakeRequest DEF HandlerPcs
    <2>6. r # Idle /\ r.op = "create" /\ r.pc = "clear" /\ r.stage = req[c].stage /\ r.sha = CommitOf(t)
      BY <2>5, PcShape
    <2> HIDE DEF r
    <2>7. Moves(c) /\ req'[c] = r
      BY <1>0, <2>3, <2>5, <2>6 DEF Moves, TypeOK
    <2>8. TypeOK'
      BY <1>0, <1>1, <2>7, MovesType DEF TypeOK, Moves
    <2>9. CheckoutOfRelease' /\ BinaryOfRelease' /\ Provisioning'
      BY <1>1 DEF ReleaseInv, CheckoutOfRelease, BinaryOfRelease, Provisioning, CommitOf
    <2>10. Exclusive'
      BY <1>0, <1>1, <2>7, MovesExclusive DEF ReleaseInv
    <2>11. Creates(c)'
      BY <1>0, <1>1, <1>3, <2>6, <2>7 DEF ReleaseInv, Creating, Creates, CommitOf
    <2>12. Creating'
      BY <1>0, <1>1, <2>7, <2>11, MovesCreating DEF ReleaseInv
    <2>13. Withdrawn'
      BY <1>0, <1>1, <2>6, <2>7, MovesWithdrawn DEF ReleaseInv, At
    <2> QED
      BY <2>8, <2>9, <2>10, <2>12, <2>13 DEF ReleaseInv
  <1> QED
    BY <1>2, <1>3 DEF GetRelease

\* A call of a handler changes what belongs to its own stage, and removes
\* binaries at most.
LEMMA HandlerKeeps ==
  ASSUME ReleaseInv, NEW c \in Clients, req[c] \in Requests, Moves(c),
         NEW s \in StageIds, s = req[c].stage,
         UNCHANGED <<remote, releases, job, moves>>, mishaps' = mishaps \/ Mishap,
         stages' \in Seq([id : StageIds]), repo' \in [StageIds -> Checkouts],
         deployed' \subseteq deployed, serving' \subseteq serving,
         \A u \in StageIds \ {s} :
           repo'[u] = repo[u] /\ (Found(stages', u) <=> Found(stages, u)),
         builds' = builds \/ builds' = [builds EXCEPT ![BinaryName(s)] = NoCommit],
         Found(stages', s) =>
           Found(releases, TagOf(s)) /\ repo'[s] \in {CommitOf(TagOf(s)), NoCommit},
         Creates(c)', At(c, "rmbin")' => s \notin serving'
  PROVE  ReleaseInv'
  <1>0. mishaps' \in 0 .. MaxMishaps
    BY BoundAssumption DEF ReleaseInv, TypeOK, Mishap
  <1>1. TypeOK'
    BY <1>0, MovesType DEF ReleaseInv, TypeOK, Moves
  <1>2. Exclusive'
    BY MovesExclusive DEF ReleaseInv
  <1>3. job[s] = "none"
    BY PcShape DEF ReleaseInv, Exclusive, Working
  <1>4. Provisioning'
    BY <1>3 DEF ReleaseInv, Provisioning
  <1>5. CheckoutOfRelease'
    BY DEF ReleaseInv, CheckoutOfRelease, CommitOf
  <1>6. BinaryOfRelease'
    <2>1. \A n \in Names : builds'[n] = builds[n] \/ builds'[n] = NoCommit
      <3> HIDE DEF BinaryName
      <3> QED
        BY DEF ReleaseInv, TypeOK
    <2> QED
      BY <2>1 DEF ReleaseInv, BinaryOfRelease, CommitOf
  <1>7. Creating'
    BY MovesCreating DEF ReleaseInv
  <1>8. Withdrawn'
    <2>1. At(c, "rmbin")' => req'[c].stage \notin serving'
      BY DEF Moves, At
    <2> QED
      BY <2>1, MovesWithdrawn DEF ReleaseInv
  <1> QED
    BY <1>1, <1>2, <1>4, <1>5, <1>6, <1>7, <1>8 DEF ReleaseInv

\* A creation that goes on towards the release's commit, or gives up.
LEMMA CreationKeeps ==
  ASSUME ReleaseInv, NEW c \in Clients, ClearCheckout(c) \/ Clone(c) \/ Checkout(c)
  PROVE  ReleaseInv'
  <1> DEFINE s == req[c].stage
  <1>0. /\ TypeOK /\ req[c] \in Requests /\ s \in StageIds /\ req[c].op = "create"
        /\ req[c].pc \in {"clear", "clone", "checkout"}
    BY CallShape, PcShape DEF ReleaseInv, ClearCheckout, Clone, Checkout, At
  <1>1. /\ ~Found(stages, s) /\ Found(releases, TagOf(s)) /\ req[c].sha = CommitOf(TagOf(s))
    BY <1>0, PcShape DEF ReleaseInv, Creating, Creates
  <1>2. UNCHANGED <<remote, releases, stages, deployed, job, serving, builds, moves, mishaps>>
    BY DEF ClearCheckout, Clone, Checkout
  <1>3. HandlerPcs["create"] = {"release", "clear", "clone", "checkout", "insert"}
    BY DEF HandlerPcs
  <1>4. CASE Finish(c) /\ UNCHANGED repo
    BY <1>0, <1>2, <1>4, EndKeeps, FinishMoves DEF ReleaseInv, TypeOK
  <1>5. ASSUME NEW pc \in {"clone", "checkout", "insert"}, Goto(c, pc),
               NEW k \in Checkouts, repo' = [repo EXCEPT ![s] = k],
               pc = "insert" => k = req[c].sha
        PROVE  ReleaseInv'
    <2>1. /\ Moves(c) /\ req'[c].pc = pc /\ req'[c].op = "create" /\ req'[c].stage = s
          /\ req'[c].sha = req[c].sha
      BY <1>0, <1>3, <1>5, MovesByGoto, GotoMoves
    <2>2. /\ repo' \in [StageIds -> Checkouts] /\ repo'[s] = k
          /\ \A u \in StageIds \ {s} : repo'[u] = repo[u]
      BY <1>0, <1>5 DEF TypeOK
    <2>3. Creates(c)'
      BY <1>1, <1>2, <1>5, <2>1, <2>2 DEF Creates, CommitOf
    <2>4. ~At(c, "rmbin")' /\ stages \in Seq([id : StageIds])
      BY <1>0, <2>1 DEF At, TypeOK
    <2>5. \A u \in StageIds \ {s} : Found(stages', u) <=> Found(stages, u)
      BY <1>2
    <2> HIDE DEF s
    <2> QED
      BY <1>0, <1>1, <1>2, <2>1, <2>2, <2>3, <2>4, <2>5, HandlerKeeps DEF s
  <1>6. NoCommit \in Checkouts /\ HeadCommit \in Checkouts /\ req[c].sha \in Checkouts
    BY <1>0, HandlerShape DEF Checkouts
  <1>7. CASE ClearCheckout(c)
    BY <1>5, <1>6, <1>7 DEF ClearCheckout
  <1>8. CASE Clone(c)
    BY <1>4, <1>5, <1>6, <1>8 DEF Clone
  <1>9. CASE Checkout(c)
    BY <1>4, <1>5, <1>6, <1>9 DEF Checkout
  <1> QED
    BY <1>7, <1>8, <1>9

\* The document of a new stage, over the commit of its release.
LEMMA InsertKeeps ==
  ASSUME ReleaseInv, NEW c \in Clients, CreateStage(c)
  PROVE  ReleaseInv'
  <1> DEFINE s == req[c].stage
             doc == [id |-> s]
  <1>0. /\ TypeOK /\ req[c] \in Requests /\ s \in StageIds /\ req[c].op = "create"
        /\ req[c].pc = "insert"
    BY CallShape, PcShape DEF ReleaseInv, CreateStage, At
  <1>1. /\ Found(releases, TagOf(s)) /\ repo[s] = CommitOf(TagOf(s))
    BY <1>0, PcShape DEF ReleaseInv, Creating, Creates
  <1>2. Moves(c) /\ req'[c] = Idle
    BY <1>0, MovesByFinish, FinishMoves DEF CreateStage
  <1>3. /\ stages' = InsertOne(stages, doc)
        /\ UNCHANGED <<remote, releases, repo, deployed, job, serving, builds, moves, mishaps>>
    BY DEF CreateStage
  <1>4. stages \in Seq([id : StageIds]) /\ doc \in [id : StageIds] /\ doc.id = s
    BY <1>0 DEF TypeOK
  <1>5. stages' \in Seq([id : StageIds])
    BY <1>3, <1>4 DEF InsertOne
  <1>6. \A u : Found(stages', u) <=> Found(stages, u) \/ s = u
    <2> HIDE DEF doc, s
    <2> SUFFICES ASSUME NEW u PROVE Found(stages', u) <=> Found(stages, u) \/ s = u
      OBVIOUS
    <2>1. Found(InsertOne(stages, doc), u) <=> Found(stages, u) \/ doc.id = u
      BY <1>4, InsertFinds
    <2> QED
      BY <1>3, <1>4, <2>1
  <1>7. Creates(c)' /\ ~At(c, "rmbin")'
    BY <1>2 DEF Creates, At
  <1> HIDE DEF s
  <1> QED
    BY <1>0, <1>1, <1>2, <1>3, <1>5, <1>6, <1>7, HandlerKeeps DEF TypeOK, s

\* The checkout goes first, and then the document.
LEMMA DeletionKeeps ==
  ASSUME ReleaseInv, NEW c \in Clients, RemoveCheckout(c) \/ RemoveStage(c)
  PROVE  ReleaseInv'
  <1> DEFINE s == req[c].stage
  <1>0. /\ TypeOK /\ req[c] \in Requests /\ s \in StageIds /\ req[c].op = "delete"
    BY CallShape, PcShape DEF ReleaseInv, RemoveCheckout, RemoveStage, At
  <1>1. HandlerPcs["delete"] = {"rmrepo", "rmstage"}
    BY DEF HandlerPcs
  <1>2. CASE RemoveCheckout(c)
    <2>1. /\ repo' = [repo EXCEPT ![s] = NoCommit] /\ Goto(c, "rmstage")
          /\ UNCHANGED <<remote, releases, stages, deployed, job, serving, builds, moves, mishaps>>
      BY <1>2 DEF RemoveCheckout
    <2>2. Moves(c) /\ req'[c].pc = "rmstage" /\ req'[c].op = "delete"
      BY <1>0, <1>1, <2>1, MovesByGoto, GotoMoves
    <2>3. /\ repo' \in [StageIds -> Checkouts] /\ repo'[s] = NoCommit
          /\ \A u \in StageIds \ {s} : repo'[u] = repo[u]
      BY <1>0, <2>1 DEF TypeOK, Checkouts
    <2>4. Creates(c)' /\ ~At(c, "rmbin")'
      BY <2>2 DEF Creates, At
    <2>5. Found(stages, s) => Found(releases, TagOf(s))
      BY <1>0 DEF ReleaseInv, CheckoutOfRelease
    <2> HIDE DEF s
    <2> QED
      BY <1>0, <2>1, <2>2, <2>3, <2>4, <2>5, HandlerKeeps DEF TypeOK, s
  <1>3. CASE RemoveStage(c)
    <2>1. /\ stages' = DeleteOne(stages, s) /\ Finish(c)
          /\ UNCHANGED <<remote, releases, repo, deployed, job, serving, builds, moves, mishaps>>
      BY <1>3 DEF RemoveStage
    <2>2. Moves(c) /\ req'[c] = Idle
      BY <1>0, <2>1, MovesByFinish, FinishMoves
    <2>3. stages \in Seq([id : StageIds])
      BY <1>0 DEF TypeOK
    <2>4. /\ stages' \in Seq([id : StageIds])
          /\ \A u : Found(stages', u) => Found(stages, u)
          /\ \A u : u # s /\ Found(stages, u) => Found(stages', u)
      BY <2>1, <2>3, DeleteOneFact DEF Found
    <2>5. Creates(c)' /\ ~At(c, "rmbin")'
      BY <2>2 DEF Creates, At
    <2>6. Found(stages, s) => Found(releases, TagOf(s)) /\ repo[s] \in {CommitOf(TagOf(s)), NoCommit}
      BY <1>0 DEF ReleaseInv, CheckoutOfRelease
    <2>7. repo \in [StageIds -> Checkouts]
      BY <1>0 DEF TypeOK
    <2>8. /\ Found(stages', s) => Found(releases, TagOf(s)) /\ repo'[s] \in {CommitOf(TagOf(s)), NoCommit}
          /\ \A u \in StageIds \ {s} : repo'[u] = repo[u] /\ (Found(stages', u) <=> Found(stages, u))
      BY <2>1, <2>4, <2>6
    <2> HIDE DEF s
    <2> QED
      BY <1>0, <2>1, <2>2, <2>4, <2>5, <2>7, <2>8, HandlerKeeps DEF s
  <1> QED
    BY <1>2, <1>3

\* Withdrawing a deployment, and the binary of its name.
LEMMA WithdrawKeeps ==
  ASSUME ReleaseInv, NEW c \in Clients, RemoveDeployment(c) \/ RemoveBinary(c)
  PROVE  ReleaseInv'
  <1> DEFINE s == req[c].stage
  <1>0. /\ TypeOK /\ req[c] \in Requests /\ s \in StageIds /\ req[c].op \in {"deploy", "undeploy"}
    BY CallShape, PcShape DEF ReleaseInv, RemoveDeployment, RemoveBinary, At
  <1>1. "rmbin" \in HandlerPcs[req[c].op] /\ (req[c].op = "deploy" => "promote" \in HandlerPcs[req[c].op])
    BY <1>0 DEF HandlerPcs
  <1>2. /\ Found(stages, s) => Found(releases, TagOf(s)) /\ repo[s] \in {CommitOf(TagOf(s)), NoCommit}
        /\ stages \in Seq([id : StageIds]) /\ repo \in [StageIds -> Checkouts]
    BY <1>0 DEF ReleaseInv, CheckoutOfRelease, TypeOK
  <1>3. CASE RemoveDeployment(c)
    <2>1. /\ deployed' = deployed \ {s} /\ serving' = serving \ {s} /\ Goto(c, "rmbin")
          /\ UNCHANGED <<remote, releases, stages, repo, job, builds, moves, mishaps>>
      BY <1>3 DEF RemoveDeployment
    <2>2. Moves(c) /\ req'[c].op = req[c].op
      BY <1>0, <1>1, <2>1, MovesByGoto, GotoMoves
    <2>3. Creates(c)'
      BY <1>0, <2>2 DEF Creates
    <2> HIDE DEF s
    <2> QED
      BY <1>0, <1>2, <2>1, <2>2, <2>3, HandlerKeeps DEF s
  <1>4. CASE RemoveBinary(c)
    <2>1. /\ builds' = builds \/ builds' = [builds EXCEPT ![BinaryName(s)] = NoCommit]
          /\ mishaps' = mishaps \/ Mishap
          /\ IF req[c].op = "deploy" THEN Goto(c, "promote") ELSE Finish(c)
          /\ UNCHANGED <<remote, releases, stages, repo, deployed, job, serving, moves>>
      BY <1>4 DEF RemoveBinary
    <2>2. CASE req[c].op = "deploy"
      <3>1. Moves(c) /\ req'[c].op = req[c].op /\ req'[c].pc = "promote"
        BY <1>0, <1>1, <2>1, <2>2, MovesByGoto, GotoMoves
      <3>2. Creates(c)' /\ ~At(c, "rmbin")'
        BY <1>0, <3>1 DEF Creates, At
      <3> HIDE DEF s
      <3> QED
        BY <1>0, <1>2, <2>1, <3>1, <3>2, HandlerKeeps DEF s
    <2>3. CASE req[c].op # "deploy"
      <3>1. Moves(c) /\ req'[c] = Idle
        BY <1>0, <2>1, <2>3, MovesByFinish, FinishMoves
      <3>2. Creates(c)' /\ ~At(c, "rmbin")'
        BY <3>1 DEF Creates, At
      <3> HIDE DEF s
      <3> QED
        BY <1>0, <1>2, <2>1, <3>1, <3>2, HandlerKeeps DEF s
    <2> QED
      BY <2>2, <2>3
  <1> QED
    BY <1>3, <1>4

\* Promoting a stage hands it from the request to the goroutine.
LEMMA PromoteKeeps ==
  ASSUME ReleaseInv, NEW c \in Clients, PromoteStage(c)
  PROVE  ReleaseInv'
  <1> DEFINE s == req[c].stage
  <1>0. /\ TypeOK /\ req[c] \in Requests /\ s \in StageIds /\ req[c].op = "deploy"
    BY CallShape, PcShape DEF ReleaseInv, PromoteStage, At
  <1>1. Finish(c) /\ UNCHANGED <<remote, releases, stages, repo, serving, builds, moves, mishaps>>
    BY DEF PromoteStage
  <1>2. CASE UNCHANGED <<deployed, job>>
    BY <1>0, <1>1, <1>2, EndKeeps, FinishMoves DEF ReleaseInv, TypeOK
  <1>3. CASE Found(stages, s) /\ deployed' = deployed \cup {s} /\ job' = [job EXCEPT ![s] = "stat"]
    <2>1. /\ req' \in [Clients -> {Idle} \cup Requests \cup Syncs] /\ req'[c] = Idle
          /\ \A d \in Clients \ {c} : req'[d] = req[d]
      BY <1>0, <1>1, FinishMoves
    <2>2. /\ job' \in [StageIds -> {"none", "stat", "build", "install"}]
          /\ \A u \in StageIds \ {s} : job'[u] = job[u]
      BY <1>0, <1>3 DEF TypeOK
    <2>3. TypeOK'
      BY <1>0, <1>1, <1>3, <2>1, <2>2 DEF TypeOK, At
    <2>4. CheckoutOfRelease' /\ BinaryOfRelease'
      BY <1>1 DEF ReleaseInv, CheckoutOfRelease, BinaryOfRelease, CommitOf
    <2>5. Provisioning'
      BY <1>1, <1>3, <2>2 DEF ReleaseInv, Provisioning
    <2>6. Exclusive'
      <3>1. Working(c, s)
        BY <1>0, PcShape DEF Working
      <3>2. \A d \in Clients, u \in StageIds : Working(d, u)' => Working(d, u) /\ d # c
        BY <2>1 DEF Working
      <3>3. \A d \in Clients : Working(d, s) => d = c
        BY <1>0, <3>1 DEF ReleaseInv, Exclusive
      <3> QED
        BY <2>2, <3>2, <3>3 DEF ReleaseInv, Exclusive
    <2>7. Creating' /\ Withdrawn'
      BY <1>1, <2>1 DEF ReleaseInv, Creating, Creates, Withdrawn, CommitOf, At
    <2> QED
      BY <2>3, <2>4, <2>5, <2>6, <2>7 DEF ReleaseInv
  <1> QED
    BY <1>2, <1>3 DEF PromoteStage

\* A goroutine builds its release's binary in its own stage's checkout.
LEMMA ProvisionKeeps ==
  ASSUME ReleaseInv, NEW s \in StageIds, StatBinary(s) \/ BuildBackend(s) \/ InstallService(s)
  PROVE  ReleaseInv'
  <1>0. TypeOK /\ job[s] # "none"
    BY DEF ReleaseInv, StatBinary, BuildBackend, InstallService
  <1>1. /\ Found(releases, TagOf(s)) /\ repo[s] \in {CommitOf(TagOf(s)), NoCommit}
        /\ \A c \in Clients : ~Working(c, s)
    BY <1>0 DEF ReleaseInv, Provisioning, CheckoutOfRelease, Exclusive
  <1>2. UNCHANGED <<remote, releases, stages, repo, deployed, req, moves, mishaps>>
    BY DEF StatBinary, BuildBackend, InstallService
  <1>3. /\ job' \in [StageIds -> {"none", "stat", "build", "install"}]
        /\ \A u \in StageIds \ {s} : job'[u] = job[u]
    BY <1>0 DEF StatBinary, BuildBackend, InstallService, TypeOK
  <1>4. CommitOf(TagOf(s)) \in Commits
    <2>1. releases \in Seq(ReleaseRecs)
      BY <1>0 DEF TypeOK
    <2>2. FindOne(releases, TagOf(s)) \in ReleaseRecs
      BY <1>1, <2>1, FindOneFact
    <2> QED
      BY <2>2 DEF CommitOf, ReleaseRecs
  <1>5. builds' = builds \/ builds' = [builds EXCEPT ![BinaryName(s)] = CommitOf(TagOf(s))]
    BY <1>1 DEF StatBinary, BuildBackend, InstallService
  <1>6. serving' = serving \/ serving' = serving \cup {s}
    BY DEF StatBinary, BuildBackend, InstallService
  <1>7. TypeOK'
    BY <1>0, <1>2, <1>3, <1>4, <1>5, <1>6 DEF TypeOK, At
  <1>8. CheckoutOfRelease' /\ Creating'
    BY <1>2 DEF ReleaseInv, CheckoutOfRelease, Creating, Creates, CommitOf
  <1>9. BinaryOfRelease'
    <2>1. \A n \in Names \ {BinaryName(s)} : builds'[n] = builds[n]
      BY <1>0, <1>5 DEF TypeOK
    <2>2. \/ builds'[BinaryName(s)] = builds[BinaryName(s)]
          \/ builds'[BinaryName(s)] = CommitOf(TagOf(s))
      BY <1>0, <1>5 DEF TypeOK, Names
    <2>3. TagOf(s) \in Tags /\ Trimmed[TagOf(s)] = BinaryName(s)
      OBVIOUS
    <2> HIDE DEF BinaryName
    <2> QED
      BY <1>1, <1>2, <2>1, <2>2, <2>3 DEF ReleaseInv, BinaryOfRelease, CommitOf
  <1>10. Exclusive' /\ Provisioning'
    BY <1>0, <1>1, <1>2, <1>3 DEF ReleaseInv, Exclusive, Provisioning, Working
  <1>11. Withdrawn'
    <2>1. \A c \in Clients : At(c, "rmbin") => Working(c, req[c].stage)
      BY <1>0, CallShape, PcShape DEF At, Working
    <2> QED
      BY <1>1, <1>2, <1>6, <2>1 DEF ReleaseInv, Withdrawn, At
  <1> QED
    BY <1>7, <1>8, <1>9, <1>10, <1>11 DEF ReleaseInv

\* Whatever fails, and whenever the daemon restarts.
LEMMA MishapKeeps ==
  ASSUME ReleaseInv,
         Restart \/ (\E c \in Clients : CallFails(c)) \/ (\E s \in StageIds : BuildFails(s))
  PROVE  ReleaseInv'
  <1>0. TypeOK /\ mishaps' \in 0 .. MaxMishaps
    BY BoundAssumption DEF ReleaseInv, TypeOK, Restart, CallFails, BuildFails, Mishap
  <1>1. CASE Restart
    BY <1>0, <1>1, EndKeeps DEF Restart
  <1>2. ASSUME NEW c \in Clients, CallFails(c) PROVE ReleaseInv'
    <2>1. /\ Finish(c) /\ UNCHANGED <<remote, releases, stages, repo, deployed, job, serving, builds, moves>>
      BY <1>2 DEF CallFails
    <2> QED
      BY <1>0, <2>1, FinishMoves, EndKeeps DEF TypeOK
  <1>3. ASSUME NEW s \in StageIds, BuildFails(s) PROVE ReleaseInv'
    <2>1. /\ job' = [job EXCEPT ![s] = "none"]
          /\ UNCHANGED <<remote, releases, stages, repo, deployed, serving, builds, req, moves>>
      BY <1>3 DEF BuildFails
    <2> QED
      BY <1>0, <2>1, EndKeeps DEF TypeOK
  <1> QED
    BY <1>1, <1>2, <1>3

\* Whoever owns the repository moves a tag: nothing here follows it.
LEMMA MoveKeeps ==
  ASSUME ReleaseInv, NEW t \in Tags, NEW sha \in Commits, MoveTag(t, sha)
  PROVE  ReleaseInv'
  <1>1. TypeOK'
    BY BoundAssumption DEF ReleaseInv, TypeOK, MoveTag, At
  <1>2. UNCHANGED <<releases, stages, repo, deployed, job, serving, builds, req, mishaps>>
    BY DEF MoveTag
  <1> QED
    BY <1>1, <1>2 DEF ReleaseInv, CheckoutOfRelease, BinaryOfRelease, Exclusive, Creating,
       Creates, Provisioning, Withdrawn, Working, At, CommitOf

LEMMA ReleaseStep ==
  ASSUME Polite, ReleaseInv, [Next]_vars
  PROVE  ReleaseInv'
  <1>1. CASE UNCHANGED vars
    BY <1>1 DEF vars, ReleaseInv, TypeOK, CheckoutOfRelease, BinaryOfRelease, Exclusive,
       Creating, Creates, Provisioning, Withdrawn, Working, At, CommitOf
  <1>2. ASSUME NEW c \in Clients, Request(c) PROVE ReleaseInv'
    BY <1>2, SyncStep, RequestKeeps DEF Request
  <1>3. ASSUME NEW c \in Clients, Handler(c) PROVE ReleaseInv'
    BY <1>3, GetKeeps, CreationKeeps, InsertKeeps, DeletionKeeps, WithdrawKeeps,
       PromoteKeeps, MishapKeeps
    DEF Handler
  <1>4. ASSUME NEW s \in StageIds, Provision(s) PROVE ReleaseInv'
    BY <1>4, ProvisionKeeps, MishapKeeps DEF Provision
  <1> QED
    BY <1>1, <1>2, <1>3, <1>4, SyncStep, MoveKeeps, MishapKeeps DEF Next

\* The inductive invariant of releases, checkouts and binaries.
THEOREM ReleaseInvariant == ASSUME Polite PROVE Spec => []ReleaseInv
  <1>1. ReleaseInv /\ [Next]_vars => ReleaseInv'
    BY ReleaseStep
  <1> QED
    BY ReleaseInit, <1>1, PTL DEF Spec

-----------------------------------------------------------------------------
(* The theorems.                                                           *)

\* Releases, checkouts, binaries and requests keep their types, a sync
\* records only lines it listed, and no binary is built from the default
\* branch (core/releases.go, internal/git/git.go).
THEOREM ReleaseTypes == ASSUME Polite PROVE Spec => []TypeOK
  <1>1. ReleaseInv => TypeOK
    BY DEF ReleaseInv
  <1> QED
    BY ReleaseInvariant, <1>1, PTL

\* A stage has the commit its release was first recorded with, however often
\* the tag has moved and whatever syncs overlap (core/stage.go).
THEOREM StagesOfRelease == ASSUME Polite PROVE Spec => []CheckoutOfRelease
  <1>1. ReleaseInv => CheckoutOfRelease
    BY DEF ReleaseInv
  <1> QED
    BY ReleaseInvariant, <1>1, PTL

\* A binary is the commit of a release that goes by its name, whichever of
\* the stages that share it built it (core/deployments.go, buildBackend).
THEOREM BinariesOfRelease == ASSUME Polite PROVE Spec => []BinaryOfRelease
  <1>1. ReleaseInv => BinaryOfRelease
    BY DEF ReleaseInv
  <1> QED
    BY ReleaseInvariant, <1>1, PTL

\* Where no two tags are the same without their v, a deployment that has been
\* started has a binary of its own release's commit, or none any more
\* (core/deployments.go, models/deployment.go).
THEOREM DeploymentsRunTheirRelease ==
  ASSUME Polite, OwnNames PROVE Spec => []RunsItsRelease
  <1>1. ASSUME ReleaseInv, NEW s \in serving, builds[BinaryName(s)] # NoCommit
        PROVE  builds[BinaryName(s)] = CommitOf(TagOf(s))
    <2>1. TagOf(s) \in Tags /\ BinaryName(s) \in Names
      BY <1>1 DEF ReleaseInv, TypeOK, Names
    <2>2. PICK t \in Tags : Trimmed[t] = BinaryName(s) /\ builds[BinaryName(s)] = CommitOf(t)
      BY <1>1, <2>1 DEF ReleaseInv, BinaryOfRelease
    <2>3. t = TagOf(s)
      BY <2>1, <2>2 DEF OwnNames
    <2> QED
      BY <2>2, <2>3
  <1>2. ReleaseInv => RunsItsRelease
    BY <1>1 DEF RunsItsRelease
  <1> QED
    BY ReleaseInvariant, <1>2, PTL

\* A running deployment loses its binary to a request on another deployment
\* with a binary of that name, and to nothing else (api/deployments.go).
THEOREM LostToSharerOnly == ASSUME Polite PROVE Spec => LostToSharer
  <1>1. ASSUME ReleaseInv, [Next]_vars, NEW s \in serving, s \in serving',
               builds[BinaryName(s)] # NoCommit, builds'[BinaryName(s)] = NoCommit
        PROVE  \E c \in Clients : /\ At(c, "rmbin") /\ req[c].stage # s
                                   /\ BinaryName(req[c].stage) = BinaryName(s)
    <2>0. /\ builds' # builds
          /\ BinaryName(s) \in Names /\ builds \in [Names -> Commits \cup {NoCommit}]
      BY <1>1 DEF ReleaseInv, TypeOK, Names
    <2>1. ~\E u \in StageIds : BuildBackend(u)
      <3> SUFFICES ASSUME NEW u \in StageIds, BuildBackend(u) PROVE FALSE
        OBVIOUS
      <3>1. repo[u] # NoCommit /\ builds' = [builds EXCEPT ![BinaryName(u)] = repo[u]]
        BY <2>0 DEF BuildBackend
      <3> HIDE DEF BinaryName
      <3> QED
        BY <1>1, <2>0, <3>1
    <2>2. PICK c \in Clients : RemoveBinary(c)
      BY <1>1, <2>0, <2>1
      DEF Next, vars, Request, Sync, Handler, Provision, MoveTag, SyncReleases, PrepareStage,
          DeleteStage, CreateDeployment, DeleteDeployment, Begin, ListRemote, LookupRelease,
          LookupFails, CreateRelease, GetRelease, ClearCheckout, Clone, Checkout, CreateStage,
          RemoveCheckout, RemoveStage, RemoveDeployment, PromoteStage, StatBinary,
          InstallService, CallFails, BuildFails, Restart
    <2>3. At(c, "rmbin") /\ builds' = [builds EXCEPT ![BinaryName(req[c].stage)] = NoCommit]
      BY <2>0, <2>2 DEF RemoveBinary
    <2>4. req[c].stage \notin serving
      BY <1>1, <2>3 DEF ReleaseInv, Withdrawn
    <2>5. BinaryName(req[c].stage) = BinaryName(s)
      <3> HIDE DEF BinaryName
      <3> QED
        BY <1>1, <2>0, <2>3
    <2> QED
      BY <2>3, <2>4, <2>5
  <1>2. ReleaseInv /\ [Next]_vars
          => [\A s \in serving \cap serving' :
                builds[BinaryName(s)] # NoCommit /\ builds'[BinaryName(s)] = NoCommit =>
                  \E c \in Clients : At(c, "rmbin") /\ req[c].stage # s
                                       /\ BinaryName(req[c].stage) = BinaryName(s)]_vars
    BY <1>1
  <1> QED
    BY <1>2, ReleaseInvariant, PTL DEF Spec, LostToSharer
=============================================================================
