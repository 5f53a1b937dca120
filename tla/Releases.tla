------------------------------ MODULE Releases ------------------------------
(***************************************************************************)
(* From a tag of the backend's repository to the binary that runs:         *)
(* SyncReleases (internal/core/releases.go) records tags as releases,      *)
(* PrepareStage and DeleteStage (internal/core/stage.go) make and remove a *)
(* checkout of a release's commit per stage, and a deployment builds its   *)
(* binary in the checkout of its own stage (internal/core/deployments.go,  *)
(* internal/api/deployments.go).  A binary is named by the tag without its *)
(* v: the stages of a release share one, and so do two releases whose tags *)
(* differ in the v alone.  A tag is not for ever: whoever owns the         *)
(* repository may move it.                                                 *)
(*                                                                         *)
(* What a stage is tested for and how a deployment's unit and route come   *)
(* and go are the subject of StageTests and Deployments; here a stage may  *)
(* be deployed as soon as its document exists.                             *)
(***************************************************************************)
EXTENDS Collection

CONSTANTS
  Tags,        \* tags of the repository, numbered in ls-remote's order
  Trimmed,     \* each tag without its v
  Envs,        \* environment tags
  Commits,     \* commits tags may point at
  HeadCommit,  \* the commit a fresh clone has checked out
  NoCommit,    \* no tag, no checkout, no binary
  Clients,     \* operators of the API, each with one request at a time
  MaxMoves,    \* bound on tags set or moved in the repository
  MaxMishaps,  \* bound on mishaps: the daemon restarted, a call that failed
  Polite       \* TRUE: nobody works on a stage somebody else is working on

ASSUME TagAssumption == Tags \subseteq Nat
ASSUME TrimAssumption == Trimmed = [t \in Tags |-> Trimmed[t]]
ASSUME CommitAssumption == HeadCommit \notin Commits /\ NoCommit \notin Commits \cup {HeadCommit}
ASSUME BoundAssumption == MaxMoves \in Nat /\ MaxMishaps \in Nat
ASSUME PoliteAssumption == Polite \in BOOLEAN

\* <releaseID>-<envTag>.
StageIds == Tags \X Envs
TagOf(s) == s[1]

\* strings.TrimPrefix(dep.Version, "v"): the binary a stage's deployment runs.
BinaryName(s) == Trimmed[TagOf(s)]
Names == {Trimmed[t] : t \in Tags}

Idle == [pc |-> "idle"]

VARIABLES
  remote,    \* the repository: the commit of each tag
  releases,  \* the releases collection: [id, sha]
  stages,    \* the stages collection: [id]
  repo,      \* the checkout of each stage
  deployed,  \* stages with a deployment document
  job,       \* where ProvisionDeployment of each stage stands
  serving,   \* stages whose deployment has been given its binary (history)
  builds,    \* the binary under each name
  req,       \* the request each client has in flight
  moves,     \* tags set or moved so far
  mishaps    \* restarts and failed calls so far

vars == <<remote, releases, stages, repo, deployed, job, serving, builds, req, moves, mishaps>>

Init ==
  /\ remote = [t \in Tags |-> NoCommit]
  /\ releases = <<>> /\ stages = <<>>
  /\ repo = [s \in StageIds |-> NoCommit]
  /\ deployed = {} /\ serving = {}
  /\ job = [s \in StageIds |-> "none"]
  /\ builds = [n \in Names |-> NoCommit]
  /\ req = [c \in Clients |-> Idle]
  /\ moves = 0 /\ mishaps = 0

\* What the release of a tag stands for.
CommitOf(t) == FindOne(releases, t).sha

Mishap == mishaps < MaxMishaps /\ mishaps' = mishaps + 1

-----------------------------------------------------------------------------
(* The repository at REPO_URL, and the requests that reach the daemon.     *)

MoveTag(t, sha) ==
  /\ moves < MaxMoves /\ moves' = moves + 1
  /\ remote[t] # sha
  /\ remote' = [remote EXCEPT ![t] = sha]
  /\ UNCHANGED <<releases, stages, repo, deployed, job, serving, builds, req, mishaps>>

At(c, pc) == req[c] # Idle /\ req[c].pc = pc
Goto(c, pc) == req' = [req EXCEPT ![c].pc = pc]
Finish(c) == req' = [req EXCEPT ![c] = Idle]

\* A request works on the stage.
Working(c, s) == req[c] # Idle /\ req[c].op # "sync" /\ req[c].stage = s

\* Somebody does: a request, or the stage's provisioning.
Busy(s) == (\E c \in Clients : Working(c, s)) \/ job[s] # "none"

\* A request on stage s enters.
Begin(c, op, pc, s) ==
  /\ req[c] = Idle
  /\ Polite => ~Busy(s)
  /\ req' = [req EXCEPT ![c] = [op |-> op, pc |-> pc, stage |-> s, sha |-> NoCommit]]
  /\ UNCHANGED <<remote, releases, stages, repo, deployed, job, serving, builds, moves, mishaps>>

SyncReleases(c) ==
  /\ req[c] = Idle
  /\ req' = [req EXCEPT ![c] = [op |-> "sync", pc |-> "list"]]
  /\ UNCHANGED <<remote, releases, stages, repo, deployed, job, serving, builds, moves, mishaps>>

\* Refused when the document exists.
PrepareStage(c, s) == ~Found(stages, s) /\ Begin(c, "create", "release", s)

DeleteStage(c, s) == Found(stages, s) /\ Begin(c, "delete", "rmrepo", s)

\* A deployment there is already makes this a redeployment.
CreateDeployment(c, s) ==
  Begin(c, "deploy", IF s \in deployed THEN "rmdoc" ELSE "promote", s)

DeleteDeployment(c, s) == s \in deployed /\ Begin(c, "undeploy", "rmdoc", s)

-----------------------------------------------------------------------------
(* SyncReleases.                                                           *)

\* git ls-remote: the tags as they are now.
ListRemote(c) ==
  /\ At(c, "list")
  /\ LET listed == {[id |-> t, sha |-> remote[t]] : t \in {u \in Tags : remote[u] # NoCommit}}
     IN req' = [req EXCEPT ![c] = [op |-> "sync", pc |-> "lookup",
                                   listed |-> listed, todo |-> listed]]
  /\ UNCHANGED <<remote, releases, stages, repo, deployed, job, serving, builds, moves, mishaps>>

\* The line the loop is at.
Line(c) == CHOOSE r \in req[c].todo : \A o \in req[c].todo : r.id <= o.id
NextLine(c) == req' = [req EXCEPT ![c].pc = "lookup", ![c].todo = @ \ {Line(c)}]

\* Only ErrNoDocuments makes a new release; a release that is there stays
\* as it is.  After the last line the sync has finished.
LookupRelease(c) ==
  /\ At(c, "lookup")
  /\ IF req[c].todo = {}
       THEN Finish(c)
       ELSE IF Found(releases, Line(c).id) THEN NextLine(c) ELSE Goto(c, "record")
  /\ UNCHANGED <<remote, releases, stages, repo, deployed, job, serving, builds, moves, mishaps>>

\* Any other error of the lookup passes the line over.
LookupFails(c) ==
  /\ At(c, "lookup") /\ req[c].todo # {}
  /\ Mishap
  /\ NextLine(c)
  /\ UNCHANGED <<remote, releases, stages, repo, deployed, job, serving, builds, moves>>

\* Mutant: a release recorded in the meantime gets the commit listed.
CreateOrUpdate(c) ==
  /\ At(c, "record")
  /\ releases' = IF Found(releases, Line(c).id) THEN ReplaceOne(releases, Line(c))
                 ELSE InsertOne(releases, Line(c))
  /\ NextLine(c)
  /\ UNCHANGED <<remote, stages, repo, deployed, job, serving, builds, moves, mishaps>>

CreateRelease(c) ==
  /\ At(c, "record")
  /\ releases' = InsertOne(releases, Line(c))
  /\ NextLine(c)
  /\ UNCHANGED <<remote, stages, repo, deployed, job, serving, builds, moves, mishaps>>

-----------------------------------------------------------------------------
(* PrepareStage and DeleteStage.                                           *)

GetRelease(c) ==
  /\ At(c, "release")
  /\ LET t == TagOf(req[c].stage)
     IN IF Found(releases, t)
          THEN req' = [req EXCEPT ![c].pc = "clear", ![c].sha = CommitOf(t)]
          ELSE Finish(c)
  /\ UNCHANGED <<remote, releases, stages, repo, deployed, job, serving, builds, moves, mishaps>>

\* CloneAndCheckout removes what is there, ...
ClearCheckout(c) ==
  /\ At(c, "clear")
  /\ repo' = [repo EXCEPT ![req[c].stage] = NoCommit]
  /\ Goto(c, "clone")
  /\ UNCHANGED <<remote, releases, stages, deployed, job, serving, builds, moves, mishaps>>

\* ... clones, which fails on a directory that is not empty, ...
Clone(c) ==
  /\ At(c, "clone")
  /\ IF repo[req[c].stage] = NoCommit
       THEN repo' = [repo EXCEPT ![req[c].stage] = HeadCommit] /\ Goto(c, "checkout")
       ELSE Finish(c) /\ UNCHANGED repo
  /\ UNCHANGED <<remote, releases, stages, deployed, job, serving, builds, moves, mishaps>>

\* Mutant: the error of git checkout is dropped.
CheckoutUnchecked(c) ==
  /\ At(c, "checkout")
  /\ \/ repo' = [repo EXCEPT ![req[c].stage] = req[c].sha] /\ UNCHANGED mishaps
     \/ Mishap /\ UNCHANGED repo
  /\ Goto(c, "insert")
  /\ UNCHANGED <<remote, releases, stages, deployed, job, serving, builds, moves>>

\* ... and checks out the release's commit, if the clone is still there.
Checkout(c) ==
  /\ At(c, "checkout")
  /\ IF repo[req[c].stage] = NoCommit
       THEN Finish(c) /\ UNCHANGED repo
       ELSE repo' = [repo EXCEPT ![req[c].stage] = req[c].sha] /\ Goto(c, "insert")
  /\ UNCHANGED <<remote, releases, stages, deployed, job, serving, builds, moves, mishaps>>

\* API_SPEC.sh, whose failure is ignored, the template, and the document.
CreateStage(c) ==
  /\ At(c, "insert")
  /\ stages' = InsertOne(stages, [id |-> req[c].stage])
  /\ Finish(c)
  /\ UNCHANGED <<remote, releases, repo, deployed, job, serving, builds, moves, mishaps>>

\* Mutant: the binary built in the checkout goes with it.
RemoveCheckoutAndBinary(c) ==
  /\ At(c, "rmrepo")
  /\ repo' = [repo EXCEPT ![req[c].stage] = NoCommit]
  /\ builds' = [builds EXCEPT ![BinaryName(req[c].stage)] = NoCommit]
  /\ Goto(c, "rmstage")
  /\ UNCHANGED <<remote, releases, stages, deployed, job, serving, moves, mishaps>>

RemoveCheckout(c) ==
  /\ At(c, "rmrepo")
  /\ repo' = [repo EXCEPT ![req[c].stage] = NoCommit]
  /\ Goto(c, "rmstage")
  /\ UNCHANGED <<remote, releases, stages, deployed, job, serving, builds, moves, mishaps>>

\* After the environment and the tests.
RemoveStage(c) ==
  /\ At(c, "rmstage")
  /\ stages' = DeleteOne(stages, req[c].stage)
  /\ Finish(c)
  /\ UNCHANGED <<remote, releases, repo, deployed, job, serving, builds, moves, mishaps>>

-----------------------------------------------------------------------------
(* Deployments, as far as checkouts and binaries go.                       *)

\* The unit is stopped and removed, and the document with it.
RemoveDeployment(c) ==
  /\ At(c, "rmdoc")
  /\ deployed' = deployed \ {req[c].stage}
  /\ serving' = serving \ {req[c].stage}
  /\ Goto(c, "rmbin")
  /\ UNCHANGED <<remote, releases, stages, repo, job, builds, moves, mishaps>>

\* The binary of that name, whoever else uses it.  A failure is logged and
\* the handler goes on.
RemoveBinary(c) ==
  /\ At(c, "rmbin")
  /\ \/ builds' = [builds EXCEPT ![BinaryName(req[c].stage)] = NoCommit] /\ UNCHANGED mishaps
     \/ Mishap /\ UNCHANGED builds
  /\ IF req[c].op = "deploy" THEN Goto(c, "promote") ELSE Finish(c)
  /\ UNCHANGED <<remote, releases, stages, repo, deployed, job, serving, moves>>

\* PromoteStage: the document is inserted and the goroutine launched; one
\* goroutine per stage at a time is a bound of the model.
PromoteStage(c) ==
  /\ At(c, "promote")
  /\ LET s == req[c].stage
     IN IF Found(stages, s)
          THEN /\ job[s] = "none"
               /\ deployed' = deployed \cup {s}
               /\ job' = [job EXCEPT ![s] = "stat"]
          ELSE UNCHANGED <<deployed, job>>
  /\ Finish(c)
  /\ UNCHANGED <<remote, releases, stages, repo, serving, builds, moves, mishaps>>

\* buildBackend uses a binary that is there as it is, whoever built it.
StatBinary(s) ==
  /\ job[s] = "stat"
  /\ job' = [job EXCEPT ![s] = IF builds[BinaryName(s)] = NoCommit THEN "build" ELSE "install"]
  /\ UNCHANGED <<remote, releases, stages, repo, deployed, serving, builds, req, moves, mishaps>>

\* BUILD.sh, in the checkout, which is taken to name its output the same
\* way; without a checkout the build fails.
BuildBackend(s) ==
  /\ job[s] = "build"
  /\ IF repo[s] = NoCommit
       THEN job' = [job EXCEPT ![s] = "none"] /\ UNCHANGED builds
       ELSE /\ builds' = [builds EXCEPT ![BinaryName(s)] = repo[s]]
            /\ job' = [job EXCEPT ![s] = "install"]
  /\ UNCHANGED <<remote, releases, stages, repo, deployed, serving, req, moves, mishaps>>

\* The unit is started; whether the binary is still there is not looked at.
InstallService(s) ==
  /\ job[s] = "install"
  /\ job' = [job EXCEPT ![s] = "none"]
  /\ serving' = IF builds[BinaryName(s)] = NoCommit THEN serving ELSE serving \cup {s}
  /\ UNCHANGED <<remote, releases, stages, repo, deployed, builds, req, moves, mishaps>>

-----------------------------------------------------------------------------
\* Any other call that returns an error ends the request where it stands.
CallFails(c) ==
  /\ Mishap
  /\ req[c] # Idle /\ req[c].pc \notin {"lookup", "rmbin"}
  /\ Finish(c)
  /\ UNCHANGED <<remote, releases, stages, repo, deployed, job, serving, builds, moves>>

BuildFails(s) ==
  /\ Mishap
  /\ job[s] \in {"build", "install"}
  /\ job' = [job EXCEPT ![s] = "none"]
  /\ UNCHANGED <<remote, releases, stages, repo, deployed, serving, builds, req, moves>>

\* The daemon restarts: requests and goroutines are gone.
Restart ==
  /\ Mishap
  /\ req' = [c \in Clients |-> Idle]
  /\ job' = [s \in StageIds |-> "none"]
  /\ UNCHANGED <<remote, releases, stages, repo, deployed, serving, builds, moves>>

Request(c) ==
  \/ SyncReleases(c)
  \/ \E s \in StageIds : \/ PrepareStage(c, s) \/ DeleteStage(c, s)
                         \/ CreateDeployment(c, s) \/ DeleteDeployment(c, s)

Sync(c) == ListRemote(c) \/ LookupRelease(c) \/ LookupFails(c) \/ CreateRelease(c)

Handler(c) ==
  \/ GetRelease(c) \/ ClearCheckout(c) \/ Clone(c) \/ Checkout(c) \/ CreateStage(c)
  \/ RemoveCheckout(c) \/ RemoveStage(c)
  \/ RemoveDeployment(c) \/ RemoveBinary(c) \/ PromoteStage(c)
  \/ CallFails(c)

Provision(s) == StatBinary(s) \/ BuildBackend(s) \/ InstallService(s) \/ BuildFails(s)

Next ==
  \/ \E t \in Tags, sha \in Commits : MoveTag(t, sha)
  \/ \E c \in Clients : Request(c) \/ Sync(c) \/ Handler(c)
  \/ \E s \in StageIds : Provision(s)
  \/ Restart

Spec == Init /\ [][Next]_vars
-----------------------------------------------------------------------------
(* Properties.                                                             *)

Checkouts == Commits \cup {HeadCommit, NoCommit}
ReleaseRecs == [id : Tags, sha : Commits]
HandlerPcs ==
  [create   |-> {"release", "clear", "clone", "checkout", "insert"},
   delete   |-> {"rmrepo", "rmstage"},
   deploy   |-> {"rmdoc", "rmbin", "promote"},
   undeploy |-> {"rmdoc", "rmbin"}]
Requests ==
  UNION {[op : {o}, pc : HandlerPcs[o], stage : StageIds, sha : Commits \cup {NoCommit}] :
           o \in DOMAIN HandlerPcs}
Syncs ==
  [op : {"sync"}, pc : {"list"}]
    \cup [op : {"sync"}, pc : {"lookup", "record"},
          listed : SUBSET ReleaseRecs, todo : SUBSET ReleaseRecs]

\* Type invariant; a line that is recorded is one that was listed, and no
\* binary is built from the default branch a fresh clone has checked out.
TypeOK ==
  /\ remote \in [Tags -> Commits \cup {NoCommit}]
  /\ releases \in Seq(ReleaseRecs)
  /\ stages \in Seq([id : StageIds])
  /\ repo \in [StageIds -> Checkouts]
  /\ deployed \subseteq StageIds /\ serving \subseteq StageIds
  /\ job \in [StageIds -> {"none", "stat", "build", "install"}]
  /\ builds \in [Names -> Commits \cup {NoCommit}]
  /\ req \in [Clients -> {Idle} \cup Requests \cup Syncs]
  /\ \A c \in Clients :
       /\ At(c, "lookup") \/ At(c, "record") => req[c].todo \subseteq req[c].listed
       /\ At(c, "record") => req[c].todo # {}
  /\ moves \in 0 .. MaxMoves /\ mishaps \in 0 .. MaxMishaps

\* README: a release is immutable, and a stage is a clone at its SHA.  A
\* stage has the commit its release was first recorded with, however often
\* the tag has moved and whatever syncs overlap, or none if it is being or
\* has been half deleted.
CheckoutOfRelease ==
  \A s \in StageIds :
    Found(stages, s) =>
      Found(releases, TagOf(s)) /\ repo[s] \in {CommitOf(TagOf(s)), NoCommit}

\* A binary is the commit of a release that goes by its name, whichever
\* stage built it and whatever was built, deleted and built again.
BinaryOfRelease ==
  \A n \in Names : builds[n] # NoCommit =>
    \E t \in Tags : Trimmed[t] = n /\ Found(releases, t) /\ builds[n] = CommitOf(t)

\* models/deployment.go: a deployment is an instance of a release.  The
\* binary a running deployment starts on is its own release's commit.  That
\* holds if no two tags are the same without their v, and not otherwise.
RunsItsRelease ==
  \A s \in serving : builds[BinaryName(s)] \in {CommitOf(TagOf(s)), NoCommit}

OwnNames == \A t, u \in Tags : Trimmed[t] = Trimmed[u] => t = u

\* A running deployment loses the binary it would need to start again only
\* to a request on another deployment, of its release or of one whose tag
\* gives the same name.
LostToSharer ==
  [][\A s \in serving \cap serving' :
       builds[BinaryName(s)] # NoCommit /\ builds'[BinaryName(s)] = NoCommit =>
         \E c \in Clients : At(c, "rmbin") /\ req[c].stage # s
                              /\ BinaryName(req[c].stage) = BinaryName(s)]_vars

-----------------------------------------------------------------------------
(* What keeps them true as long as everybody is polite.                    *)

\* A stage is in one handler's hands, or its goroutine's.
Exclusive ==
  \A s \in StageIds : \A c \in Clients :
    Working(c, s) => job[s] = "none" /\ \A d \in Clients : Working(d, s) => d = c

\* A creation works towards the commit its release still stands for, and
\* inserts the document when that is checked out.
Creates(c) ==
  req[c] # Idle /\ req[c].op = "create" =>
    LET s == req[c].stage
    IN /\ ~Found(stages, s)
       /\ req[c].pc # "release" => Found(releases, TagOf(s)) /\ req[c].sha = CommitOf(TagOf(s))
       /\ req[c].pc = "insert" => repo[s] = req[c].sha
Creating == \A c \in Clients : Creates(c)

\* What is provisioned has its stage.
Provisioning == \A s \in StageIds : job[s] # "none" => Found(stages, s)

\* Whoever removes a binary has withdrawn its own deployment.
Withdrawn == \A c \in Clients : At(c, "rmbin") => req[c].stage \notin serving

ReleaseInv ==
  /\ TypeOK /\ CheckoutOfRelease /\ BinaryOfRelease
  /\ Exclusive /\ Creating /\ Provisioning /\ Withdrawn
=============================================================================
