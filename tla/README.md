# A model of the OpenHack hypervisor

The hypervisor is a Go daemon that checks out releases of a backend ("stages"),
tests them, deploys them as systemd units on ports of its own and proxies
requests to them by path; `hyperctl` is the command an operator installs and
updates the daemon with. This directory holds TLA+ modules for the parts of
both in which the order of calls matters, the TLC configurations that check them
on small instances, and proofs of the most important invariants for instances
of any size. Paths below are relative to `src/`.

## Inventory

| part | state | operations | what is hard |
|---|---|---|---|
| deployments (`internal/api/deployments.go`, `core/deployments.go`, `core/ports.go`, `core/stage.go`, `systemd/manage.go`) | MongoDB collection, unit files, services, binaries | create (= promote a stage), promote, shutdown, start, delete, and the goroutine `ProvisionDeployment` | no lock and no unique index; every handler and the goroutine act on the copy of the document they read first and replace the whole document with it |
| routing table and proxy (`internal/proxy/proxy.go`) | `RouteMap`: one entry per stage, one main | `UpdateDeployment`, `RemoveDeployment`, `LoadFromDatabase`, two lookups | it is told, call by call, what the handlers wrote; a restart rebuilds it; the blue and the green daemon have one each |
| stages and tests (`core/stage.go`, `core/tests.go`, `models/`) | two collections, checkout and `.env`, the `testCancels` map | create, environment, start, run, cancel, delete | `UpdateStage` writes back the sequence number its caller read; deletes and cancels race with the run |
| log streams (`core/tests.go`, `core/deployments.go`, `ws/`) | an offset into a file that is being written | connect, wait, read, look at the document, end | the writer, the status and the poll interleave; a redeployment truncates the file |
| audit events (`internal/events`) | channel, batch, timer, collection | emit, batch, flush, close | full channel, failed writes, exit |
| blue-green update (`hyperctl/commands/trinity.go`, `hyperctl/health`, `hyperctl/build`, `hyperctl/nginx`) | builds, two units, drain flags | one long sequence per service | a step fails or the host reboots between two of its steps |
| installation (`hyperctl/commands/manhattan.go`, `nagasaki.go`, `hiroshima.go`, `hyperctl/systemd`, `hyperctl/fs`) | the same units and builds, the environment file | install both services, stop both, remove everything | they are interrupted half-way, or run on a host that serves |
| start-up and shutdown (`cmd/server/main.go`, `internal/app.go`) | the process | restart | goroutines, tables, `testCancels` and buffers are lost; documents, units and files are not |
| release sync (`core/releases.go`, `git/git.go`) | releases collection; the checkouts and binaries made of releases | sync | find, then insert; tags move; stages of one release, and releases whose tags differ in the v alone, share a binary |
| stage queries, accounts, nginx and certificates, users and permissions, documentation server, helpers | none of their own, or set up once by hand | reads, token checks, shell commands | nothing that a model would find |

Handlers and goroutines call each other through the collections, the units and
the table only; events and logs are written on the side. `PROJECT.json` lists
the parts with their files under `components` and each place at which something
can go wrong that a test would hardly reach under `hazards`.

What makes each part correct: one document per deployment and one port each; a
table that agrees with the documents, so that a stage's URL leads to its own
process or falls through to the main deployment's; a main deployment that was
promoted; test numbers that are not reused and outcomes
that are not overwritten; logs sent completely and in order; events written
once or accounted as lost; checkouts and binaries of the commit their release
stands for; a service that answers from the end of an installation until it is
taken down, and updates that leave both services on what they announce.

## Modules

`Collection` is a collection as the code uses it: a sequence of documents in
natural order, `FindOne`, `InsertOne`, `ReplaceOne`, `DeleteOne` (the first match,
or nothing). `Deployments`, `StageTests` and `Releases` are built on it. `RouteMap` is the
table as a value: what changes it, and where it sends a stage's URL (`StageTarget`,
which falls through to the main deployment); `Deployments` keeps one per daemon.
The `MC...` modules give the constants values. Definitions whose comment begins
with "Mutant" are plausible wrong versions of the definition that follows them;
no specification uses them, and every property is violated by at least one.

**Deployments.** One action per call that leaves the process (MongoDB, systemctl,
file system) or touches the table. `req[c]` is the request client `c` has in
flight: the call it makes next, the copy of the document it works on, and the
daemon it was sent to; `job[k]` the same for a goroutine. `DeleteOne`,
`ReplaceOne` and the table are given the copy, as in the code. `file`, `proc` and
`bins` are the unit files, the running services and the binaries. Every call may
fail (`CallFails`, `ProvisionFails`) and a daemon may restart, which ends its
requests and goroutines and rebuilds its table; both count as `mishaps`. A call
that fails is taken to have had no effect: a write that MongoDB applied and
reported as failed, as at `internal/api/deployments.go:143-145`, is not covered.
`Polite` is the assumption that nobody asks for a deployment somebody else, a
goroutine included, is working on. The daemon does not enforce it, and most
properties of the code are false without it: a redeploy during provisioning
removes the document under the goroutine, two creations insert two documents, and
a promotion does not stop a delete that has begun.

**StageTests.** One stage with its documents, tests, environment file and
`testCancels`, and the goroutines of its tests (`run`). `mishaps` as above.
`Polite` here keeps starting, creating and deleting apart, and leaves a second
operator free to cancel a test or delete its stage while it runs. TEST.sh is one
nondeterministic step that passes, fails or is killed.

**LogStream.** One log, a goroutine that writes it and one WebSocket that tails
it, for a test or for a deployment (`kind`, chosen at the start). Lines are
numbers; `offset` is the reader's, `sent` what the client was sent. The read loop
is one action per line, the look at the document and the poll are actions of
their own. The unit that shutdown and start need is there from some point of
provisioning on; the model lets those handlers act as soon as the log is open,
which only adds behaviours. A line is written and read in one piece.

**Emitter and EventLog.** `Emitter` is the code: `Emit`, the worker's `select`, its
flushes and the direct writes of callers that find the channel full. `overflow` and
`lost` are history. `EventLog` is what the audit log promises, without channel,
batch, timer or worker: a queue of bounded length from whose head events are
written in the order they were emitted, past which an event may be handed back to
its caller, and from which nothing disappears without being written or counted as
lost. `LogSpec` states that the emitter implements it, with `batch \o buf` as the
queue. `EventLog` is a specification of its own and stands for no lines of code.

**Releases.** From a tag to the binary that runs. `remote` is the backend's
repository, whose owner sets and moves tags; a sync lists it and goes through the
lines one call at a time. `repo` is the commit each stage has checked out (the
default branch's between clone and checkout). `builds` is the commit of the binary
under each name; the name is the tag without its `v` (`Trimmed`), so that tags such
as `v1` and `1` share a binary, and use, overwrite and remove it for each other.
BUILD.sh, which is not in the repository, is taken to name its output that way. Deployments are here only as far as checkouts and binaries
go: a stage may be deployed as soon as its document exists, and stopping and
removing its unit is one step. `serving` is history: the deployments that were
given their binary. `Polite` as in `Deployments`, for stages; syncs overlap with
everything. A commit stays fetchable after its tag has moved.

**BlueGreen.** The two services of the hypervisor and the hyperctl commands that
change them, from a bare host: `manhattan` installs both, `trinity` updates one
after the other, `nagasaki` stops and `hiroshima` removes them. `run` is the command
in progress, with the step it takes next and the service it works on; `builds` the
builds directory, `env` the environment file, `unit` what each unit file names,
`enabled` whether it starts at boot, `up` what each service runs and `drain` the
flags. `build.Run` is two steps, as it removes the old binary first; `lost` are the
versions whose binary it has removed and not built again. Any step may fail and the
host may reboot at any point (`mishaps`); a unit file whose writing fails is gone
(`WriteFails`), any other step that fails leaves things as they were. A version in
`Broken` builds but does not answer; one in `Hanging` takes the connection and leaves
it open, and as `http.Get` has no timeout, the checks of it do not return:
`CheckBefore`, `CheckAfter`, `FinalChecks` and `HealthChecks` are not enabled, and only
the operator's giving up (`Interrupt`), a killed hyperctl or a reboot ends the command. `Upstream` is nginx's choice: green only when blue does not answer at all.
`standing` is history: manhattan's health checks have passed, and no manhattan,
nagasaki or hiroshima has begun to take the installation apart since; a reboot that
finds a binary lost ends it too. `RepairService` is the operator repairing an installed service by
hand. `Careful` is the assumption that trinity is run only on an installation that
stands and while both services answer; trinity does not check it. systemd's own
restarts of a daemon that exits are left out.

## Runs

`mishaps` bounds failures and restarts in all of them.

| run | instance | what it shows |
|---|---|---|
| `DeployOne` | 1 operator, 2 stages, 2 ports, 1 restart or failed call | one document per deployment, distinct ports, table and main agree with documents, a stage's URL leads to its own process or, without an entry, to the main deployment's, units and services agree with documents |
| `DeployTwo` | 2 polite operators, 2 stages, 2 ports | table and main agree with documents also when requests on different deployments interleave call by call |
| `DeployEnds` | 2 stages, 1 port, fair | no deployment stays in provisioning, although one creation may find no port |
| `TestsPolite` | 2 operators, 2 sequence numbers, 1 mishap, fair | numbers are not reused, outcomes stay, no cancel function outlives its run, the environment file stays with the stage, tests end |
| `Streams` | 2 old lines, 6 in all, 2 mishaps, fair | a test's stream is complete when it ends by itself, no stream skips or repeats a line, tails end, departed clients are let go |
| `Events` | channel 2, batches of 2, 6 events, 1 mishap, fair | the emitter implements `EventLog`; written once or accounted as lost, bounded overtaking, written in the end |
| `Releases` | 2 tags with one name for their binaries, a stage of each, 2 commits, 2 polite operators, 2 moves of a tag, 1 mishap | stages are of the commit first recorded for their release, the binary they share of one of the two releases'; a running deployment loses it only to a request on the other |
| `TrinityCareful` | 4 versions, the two highest broken, one of them hanging, 3 mishaps | what was installed is served throughout, a broken build stops at blue, an update that completes leaves both services on the highest build |

Violation runs, each a disagreement between the code and what its documents say:

| run | what the code does |
|---|---|
| `DeployPromotion` | starting a deployment that was promoted once makes it main again (README: promotion is always explicit) |
| `DeployRoutable` | the create handler's late table update removes the route its own goroutine published (README: a ready deployment is immediately reachable) |
| `DeployPorts` | two creations at once get one port |
| `TestsSequence` | a passing test writes back an old sequence number; the next test reuses a number |

Why the bounds are enough: the races are between two requests, or a request and
a goroutine; two operators and two goroutine slots give every pair. A port or a
process can be mistaken for another stage's with two stages. Two ports and one
port give a range that suffices and one that is exhausted. One mishap separates
any two calls; two let a failure be followed by a restart (`Streams`), three an
installation, an update and a repair each meet one (`TrinityCareful`), with two
versions that work, so that an update goes up or down, and both kinds that do not. Two moves of a tag let it
be set and moved, two commits tell the first from the second. Tags interact
through the names of their binaries only, so that two of one name are enough; while
the second is not recorded they show one tag by itself. Two stages of one release
share a binary as those of two such tags do, and differ from them in having one
commit. Two sequence numbers are enough for a reused one. Six
events are more than a full channel, a batch and an overflow together. Six lines
let a stream be past the end of a truncated file and the file grow past it again.
Deployment runs treat stages, and clients, as interchangeable: no property of
those runs with symmetry is a liveness property, and the same goes for
environments, commits and clients in `Releases`. `VersionOf` gives every stage of
`Deployments` a release of its own; stages that share a release and its binary are
the subject of `Releases`.

`Events` sets `CHECK_DEADLOCK FALSE`, as the system may really stop there: the
number of events is bounded, and a worker whose channel was closed is gone.

Properties restricted to `mishaps = 0` (`NoMisroute`, `UnitsMatchDocs`,
`EnvBehindStage`; `TestsEnd` excuses a mishap) are restricted
because the code does not keep them otherwise: nothing resumes, fails or cleans up
what a restart or a failed call interrupted.

## Fairness

Handlers and goroutines are weakly fair: each waits for one call
at a time, and every call returns (with an error if need be). Nobody is obliged to
send a request, connect, leave, update or restart anything. The emitter's worker
and the tail loops choose at random among the ready cases of a `select`, so that a
case that is ready again and again is taken: strong fairness for the worker's
receive, timer and closing, and for the cancellation of a stream. TEST.sh is
assumed to end. `BlueGreen` assumes no fairness: a health check may never return,
and nobody is obliged to give it up, so that it is not claimed that commands end.

## Proofs

Proved by TLAPS, for every value of the constants:

- `DeploymentsProofs`, in layers, each inductive relative to the ones before it
  (`CollectionProofs` has the lemmas about inserting, replacing and deleting they all
  rest on):
  - `TypeCorrect` (`TypeOK`), from `PortAssumption`, `MishapAssumption`,
    `NoStageAssumption` alone. Everything below assumes `Polite`.
  - `OneDocument` (`OneDocPerId`). It is not inductive: between the delete of a redeploy and its insert there must be no
    document of that id (`Absent`), which needs the deployment to be in one handler's
    hands (`Exclusive`), its copy to be of that deployment (`OwnCopy`), and calls to
    belong to their requests (`PcOps`). Together they are `PoliteInv`;
    without `Polite` it is false: two creations at once both find no document.
  - `CopyInv`: the copy a handler acts on is the document as it stands, or the change
    to it that the handler is about to write (`TrueCopy`), and a goroutine knows what
    the document says and has the deployment to itself, but for the end of the request
    that launched it (`Provisions`). This is where stale copies would show. The lemmas
    of this layer also say what each action does to the stage it is about
    and that it leaves every other one alone (`Leaves`), which the next three use.
  - `RoutesAgree` (`RoutesMatchDocs`) and `MainAgrees` (`MainIsPromoted`), for one daemon
    (`OneDaemon`). `RouteInv`: a table differs from the documents only in what a handler
    has written and is about to tell it (`Telling`), and leads nowhere from the moment a
    deployment's document is about to be deleted to the end of its provisioning
    (`Unrouted`); failed calls and restarts included.
  - `UnitsAgree` (`UnitsMatchDocs`), if no two stages share a binary (`OwnBinaries`).
    `UnitInv`: unit and service are `Settled` while no call has touched them, and
    otherwise as far as the request (`Handled`) or the goroutine (`Provisioned`) has got.
  - `PortsApart` (`PortsDistinct`), for every behaviour in which creations do not overlap
    (`[]OneCreation`; other requests of any number of operators may). `PortInv`: the
    port a handler is about to insert is still free.
  - `NobodyMisrouted` (`NoMisroute`) combines the last three under their assumptions: an
    entry leads to the port of its own document, a service runs on the port of its own
    document, and no two documents hold one port. So a stage's URL (`StageTarget`) leads
    to its own process, or, without an entry, through main's to main's.

  The assumptions hold in the runs (`DeployOne` has one operator, and so one creation
  at a time), and the code needs each of them. Two daemons
  keep a table each and tell each other nothing, so that after a fallback
  a table is stale; the delete or redeploy of a stage removes the binary of its
  siblings (`LostToSharer` says what remains true then); two creations at once
  get one port (`DeployPorts`).
- `StageTestsProofs`: `StageTypes` (`TypeOK`) and `CancelsLive` (`NoStaleCancel`) for
  all operators, with the two together inductive (`BaseInv`). For `Polite` ones,
  `NumbersUnique` (`UniqueTestIDs`), `EnvPresent` (`EnvBehindStage`) and `OutcomesKept`
  (`OutcomeStays`), from `TestsInv`. A test's number is the incremented `testSequence` of
  the stage, which others write back from older copies; the invariant is that the document
  counts every recorded test (`StageCounts`), and so does every copy that is still to be
  written, however old (`Bounded`, in `Relies` for requests and `Counts` for
  goroutines), because no test is numbered between the reading and the writing
  (`Compatible`, `OneRun`). Outcomes stay because whoever writes one finds the test
  without (`Unsettled`).
- `BlueGreenProofs`: `BlueGreenTypes` (`TypeOK`), `UpdateInvariant` and `UpdatesBoth`
  (`BothUpdated`) for every operator; `CarefulInvariant`, `Served` (`AlwaysServed`) and
  `Spared` (`GreenSpared`) for `Careful` ones, from the assumptions on `Versions`,
  `Broken` and `Hanging`. Layers: `InstallInv` is what every installation keeps: a command that
  takes it apart has ended `standing` before its second change (`Ground`), what
  stands has its environment, is enabled and has its binaries but for lost ones
  (`Sound`, `TypeOK`), and manhattan reaches its checks with both units naming what
  it built (`Assembled`). `UpdateInv` follows an update: the service at its turn has
  the highest build in its unit once that is written and answers on it once it is
  checked (`TurnTaken`), and green has its
  turn only while blue answers on that build (`BlueDone`).
  `CarefulInv` adds what careful operators get: while one service is being
  updated the other answers (`OtherServes`); to hand over from blue to green, blue
  must answer after its update (`SelfServes`), and the build it answers with must be
  the highest one, which green gets next (`Installed`, `HighestWorks`).
- `EventLog`: `QueueKeepsAccount`, for a queue of any capacity. `EmitterProofs`:
  `EmitterTypeOK`, the refinement `EmitterIsQueue` (`LogSpec`: every step of the
  emitter is a step of the queue or leaves it alone), and from the two
  `EmitterWritesOnce` (`WrittenOnce`) and `EmitterAccounts` (`Accounted`): the
  abstract invariant read through the refinement mapping. `EmitterOvertakes`
  (`OvertakesBounded`): not all that an event has overtaken is in the log yet, so
  that the bound is proved of the earlier events behind it in the log or still
  waiting (`Owed`). These are at most a channel and a batch when the event is
  written, and only become fewer: what comes later has a higher number
  (`OvertakeInv`).
- `ReleasesProofs`, for `Polite`: `ReleaseInvariant`, `ReleaseTypes` (`TypeOK`),
  `StagesOfRelease` (`CheckoutOfRelease`), `BinariesOfRelease` (`BinaryOfRelease`),
  `LostToSharerOnly` (`LostToSharer`) and, if no two tags are the same without their
  `v` (`OwnNames`), `DeploymentsRunTheirRelease` (`RunsItsRelease`); the others hold
  whichever tags share a name, for any `Trimmed`. What a release stands for never changes once
  it is recorded, as further documents of one tag come after the first
  (`InsertFinds` of `CollectionProofs`); a creation inserts its stage with that commit
  checked out (`Creating`), because the stage is in its hands alone (`Exclusive`); a
  goroutine has its stage (`Provisioning`), so that it builds from that checkout;
  and a request that removes a binary has withdrawn its own deployment first
  (`Withdrawn`).
- `LogStreamProofs`: `LogInvariant`, `StreamTypes` (`TypeOK`), `CompleteTestLogs` (`TestLogComplete`),
  `OrderedStreams` (`SentInOrder`) and `GaplessStreams` (`NoGap`), from
  `LinesAssumption` and `MishapAssumption`. Completeness needs that the outcome is
  recorded after the last line and the final read follows the look at it
  (`TestOrder`), and that only a deployment's file is truncated under a stream
  (`StreamOrder`); order across a truncation needs that lines grow along the file
  (`LinesGrow`).

So every type invariant, safety invariant and action property of the passing runs is
a theorem, under conditions its run meets. Only model-checked: the liveness
properties `ProvisioningEnds`, `TestsEnd`, `EventuallyWritten`,
`StreamEnds` and `LeaverFreed` (fairness and ENABLED are beyond the prover), and the
counterexamples of the violation runs.

## Observations that no run checks

Disagreements between the code and what is written about it, which the modules
reproduce but no run states:

- `/<stageId>/*` leads to "the matching ready deployment" (`README.md:68`). When the
  stage has no entry, because it is provisioning, stopped or failed, `SetupRoutes`
  goes on to the main deployment whatever the path is (`internal/proxy/proxy.go:210`),
  and another stage answers. `NoMisroute` allows this and nothing else.
- "To deploy a specific version, use: hyperctl trinity apply <version>"
  (`internal/hyperctl/commands/trinity.go:591`). The version is built, but the units
  get the highest one in the builds directory (`trinity.go:338`): apply of an older
  version reinstalls the newest and reports success. `BothUpdated` states what an
  update does leave behind.
- "Prevent deleting main deployment unless force=true"
  (`internal/api/deployments.go:214`). The guard looks at the copy read at the start; a
  deployment promoted while the delete is under way is deleted all the same.
- A deployment has the id of its stage (`README.md:30`), but two creations at once
  both find none and insert two documents, of which the second is never found.
- "Retry for up to 30 seconds" (`internal/hyperctl/health/health.go:14`). `http.Get` has no
  timeout: the first try of a service that takes the connection and never answers does
  not return, and hyperctl waits with it.
- "a running (or staged) instance of a release" (`internal/models/deployment.go:21`), a tag
  and a commit. Of two releases with tags `v1` and `1` the one deployed second runs the
  binary, and the commit, of the other, and deleting either removes it under the unit
  of both.

And what is not contradicted, but worth knowing:

- Draining does not move traffic. `nginx.conf` has no active health check, its
  upstream `blue` has one server, and `proxy_intercept_errors` is off, so that
  `error_page` replaces only the 502 and 504 nginx makes itself; while blue drains,
  requests go on to blue, against the comment at `nginx.conf:3`. They fall to green
  when blue stops, which `AlwaysServed` is about.
- The tail of a deployment has no final read: lines written between its last read
  and its look at the status are never sent, nor is the last one, which is logged
  after ready has been recorded. It ends for ready only, so that it polls for ever
  for a deployment that failed; `LeaverFreed` is what remains true.
- A hung build does not only hold `trinity`: blue is drained or restarted by then, and
  nginx turns to green when blue does not answer in time (`AlwaysServed`).
- A deployment whose unit file does not exist can neither be deleted nor
  redeployed: `systemctl disable` fails and ends the request.
- Promoting a deployment that is not ready makes it main without a route.
- `trinity` checks only the service it is about to stop. Run again after it failed
  with green stopped, it stops blue as well and nothing answers; `Careful` excludes
  this.
- `manhattan` restarts both services before any health check: on a host that serves,
  a version that does not answer takes both down.
- `build.Run` removes the version's binary before it builds it. If a rebuild of the
  installed version fails, its units have no binary, and the next reboot or restart
  leaves nothing that serves.
- `nagasaki` stops backend services by `--state=active,failed`, which misses those
  that wait for their automatic restart, prints "All services stopped.", and disables
  nothing: a reboot brings everything back.
- `hiroshima` runs `sudo rm -f /lib/systemd/system/openhack-backend-*.service` without
  a shell, so that the pattern is not expanded; the enabled units of the backend stay
  although it prints "Backend service files removed."
- Two syncs that overlap while a tag moves record two documents with different
  commits for one release; the first one counts (`CheckoutOfRelease`), but the list of
  releases shows both. A lookup that fails passes its tag over, and the sync
  still answers that it has completed.
- Two creations of one stage at once, which `Polite` excludes, can leave the
  default branch's head checked out under the stage. A release whose commit is no
  longer reachable after its tag was moved can no longer be staged.
- `hyperctl/state`, the user-creation functions of `hyperctl/user` and the variants of
  `StopService` and `RemoveServiceFile` without a suffix are not called.

## Not modelled

The forwarding of requests (URL and header rewriting); flags and connections at
start-up; queries and accounts, which keep no state that these modules depend on;
nginx's installation and certificates (`interstate`, `knox`), users, groups and file
permissions, `swaddle` and `grimhilde`, and what `nagasaki` and `hiroshima` do to the
backend's services: shell commands run once by hand, whose effect is outside the
state of these modules; the wrappers that fill in an event's fields; the
documentation server and thin wrappers. Messages, names and log texts are left out
of every module.

## Plan

Done, in this order: `Collection`, `RouteMap`, `Deployments`, `StageTests`, `BlueGreen`,
`Emitter`, `LogStream`, `EventLog`, `Releases`, each with its runs; proofs for all of them.

What is left, most important first:

1. `RouteMap` against an abstract table: the function from stages to ready ports
   that the documents determine, which a daemon's table implements once its
   requests are done; `RouteInv` is the invariant that refinement needs.
2. `Deployments` with two `Instances`: what remains true of a table that is not told
   of the other daemon's requests.
3. `StageTests`: a stage deleted and created anew within a cancel's 100 ms.
