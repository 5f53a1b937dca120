----------------------------- MODULE LogStream -----------------------------
(***************************************************************************)
(* A log file, the goroutine that writes it and a WebSocket that tails it. *)
(* A test is tailed by StreamLogFile, a deployment by its near copy        *)
(* StreamDeploymentLogFile: both poll the file for lines and the document  *)
(* for an outcome, but only the first reads the file once more after it    *)
(* has seen the outcome, and the second knows no outcome but "ready".      *)
(*                                                                         *)
(* Lines are numbered in the order in which they are written; a redeployed *)
(* stage finds the lines of its previous attempt in the file.              *)
(***************************************************************************)
EXTENDS Integers, Sequences, FiniteSets, SequencesExt

CONSTANTS
  OldLines,    \* lines an earlier attempt may have left in the file
  MaxLines,    \* bound on the lines written, the old ones included
  MaxMishaps   \* bound on failed calls and restarts

ASSUME LinesAssumption == OldLines \in Nat /\ MaxLines \in Nat /\ OldLines <= MaxLines
ASSUME MishapAssumption == MaxMishaps \in Nat

VARIABLES
  kind,       \* what is tailed, a "test" or a "deployment"
  status,     \* its document's status, "none" once it is deleted
  job,        \* its goroutine: "open", "write", "last" (line), or "gone"
  exists,     \* whether the file's name exists
  content,    \* the lines of the file
  written,    \* the number of lines written so far
  draining,   \* env.DRAIN_MODE
  stream,     \* where the WebSocket's handler is
  left,       \* whether its client has gone
  offset,     \* how far into the file it has read
  sent,       \* the lines it has sent
  cut,        \* whether the file was truncated after it was opened (history)
  mishaps     \* failed calls and restarts so far

file == <<exists, content, written>>
reader == <<stream, left, offset, sent, cut>>
vars == <<kind, status, job, file, draining, reader, mishaps>>

\* The test's document says "running", the deployment's "provisioning"; the
\* log of a test has a new name, that of a deployment may be an old file.
Init ==
  /\ kind \in {"test", "deployment"}
  /\ status = "running" /\ job = "open"
  /\ \/ written = 0
     \/ kind = "deployment" /\ written = OldLines
  /\ exists = (written # 0)
  /\ content = [i \in 1 .. written |-> i]
  /\ draining = FALSE
  /\ stream = "closed" /\ left = FALSE
  /\ offset = 0 /\ sent = <<>> /\ cut = FALSE
  /\ mishaps = 0

Mishap == mishaps < MaxMishaps /\ mishaps' = mishaps + 1
Fine == UNCHANGED mishaps

Live == stream \notin {"closed", "done"}
Opened == stream \in {"read", "check", "final", "poll"}

-----------------------------------------------------------------------------
(* The goroutine, runTest or ProvisionDeployment.                          *)

\* An update of a deleted document matches nothing and is no error.
Recorded(s) == IF status = "none" THEN "none" ELSE s

\* os.OpenFile with O_TRUNC.  If it fails no file is made and the outcome is
\* recorded, unless that fails as well: a test writes it with its own
\* context, which may have been cancelled.
OpenLog ==
  /\ job = "open"
  /\ \/ /\ exists' = TRUE /\ content' = <<>>
        /\ cut' = (cut \/ Opened)
        /\ job' = "write"
        /\ Fine /\ UNCHANGED status
     \/ /\ Mishap
        /\ job' = "gone"
        /\ status' = Recorded("failed") \/ UNCHANGED status
        /\ UNCHANGED <<exists, content, cut>>
  /\ UNCHANGED <<kind, written, draining, stream, left, offset, sent>>

\* The script, the build or systemd writes a line.
WriteLine ==
  /\ job \in {"write", "last"} /\ written < MaxLines
  /\ written' = written + 1
  /\ content' = Append(content, written')
  /\ job' = IF job = "last" THEN "gone" ELSE "write"
  /\ UNCHANGED <<kind, status, exists, draining, reader, mishaps>>

\* UpdateTestStatus: every line of the script has been written, as Run waits
\* for the copying of its output.  All outcomes are alike to the stream.
RecordTest ==
  /\ job = "write" /\ kind = "test"
  /\ job' = "gone"
  /\ \/ status' = Recorded("finished") /\ Fine
     \/ Mishap /\ UNCHANGED status
  /\ UNCHANGED <<kind, file, draining, reader>>

\* UpdateDeployment, after a failed build or installation or, with one more
\* line to be written, with "ready".  Its error is ignored for failures; for
\* "ready" it is logged, the last line of the file too.
RecordDeployment ==
  /\ job = "write" /\ kind = "deployment"
  /\ \/ /\ job' = "gone"
        /\ \/ status' = Recorded("failed") /\ Fine
           \/ Mishap /\ UNCHANGED status
     \/ /\ job' = "last"
        /\ \/ status' = Recorded("ready") /\ Fine
           \/ Mishap /\ UNCHANGED status
  /\ UNCHANGED <<kind, file, draining, reader>>

Job == OpenLog \/ WriteLine \/ RecordTest \/ RecordDeployment

-----------------------------------------------------------------------------
(* The stream.                                                             *)

\* StreamWebSocket: a new connection, refused while the daemon drains.
Connect ==
  /\ ~Live /\ ~draining
  /\ stream' = "lookup" /\ left' = FALSE
  /\ offset' = 0 /\ sent' = <<>> /\ cut' = FALSE
  /\ UNCHANGED <<kind, status, job, file, draining, mishaps>>

\* The document is looked up; without it the stream is closed.
Lookup ==
  /\ stream = "lookup"
  /\ \/ status # "none" /\ stream' = "wait" /\ Fine
     \/ status = "none" /\ stream' = "closed" /\ Fine
     \/ Mishap /\ stream' = "closed"
  /\ UNCHANGED <<kind, status, job, file, draining, left, offset, sent, cut>>

\* waitLoop: each tick tries to open the file and takes only its absence
\* for a reason to wait.  The document is not looked at.
WaitTick ==
  /\ stream = "wait"
  /\ \/ exists /\ stream' = "read" /\ Fine
     \/ Mishap /\ stream' = "closed"
  /\ UNCHANGED <<kind, status, job, file, draining, left, offset, sent, cut>>

Rest == Len(content) > offset

\* Mutant: the line that was read is read again by the next poll.
SendAgain ==
  /\ Rest
  /\ offset' \in {offset, offset + 1}
  /\ sent' = Append(sent, content[offset + 1])
  /\ stream' = stream

\* Mutant: of the lines that have come since, only the last is sent.
SendLatest ==
  /\ Rest
  /\ offset' = Len(content)
  /\ sent' = Append(sent, Last(content))
  /\ stream' = stream

\* A line is read and written to the socket, which may fail once the client
\* has gone.
SendLine ==
  /\ Rest
  /\ \/ /\ offset' = offset + 1
        /\ sent' = Append(sent, content[offset'])
        /\ stream' = stream
     \/ /\ left
        /\ stream' = "closed"
        /\ UNCHANGED <<offset, sent>>

\* The inner loop, up to the end of the file.
ReadLines ==
  /\ stream = "read"
  /\ \/ SendLine
     \/ ~Rest /\ stream' = "check" /\ UNCHANGED <<offset, sent>>
  /\ UNCHANGED <<kind, status, job, file, draining, left, cut, mishaps>>

\* What the tail takes for an outcome.
Finished ==
  IF kind = "test" THEN status \notin {"running", "none"} ELSE status = "ready"

\* Mutant: the test's tail ends like the deployment's.
CheckWithoutFinalRead ==
  /\ stream = "check"
  /\ stream' = IF Finished THEN "done" ELSE "poll"
  /\ UNCHANGED <<kind, status, job, file, draining, left, offset, sent, cut, mishaps>>

\* Mutant: an outcome that came before the first look is not noticed.
CheckChange ==
  /\ stream = "check"
  /\ stream' = IF Finished /\ job # "gone"
               THEN (IF kind = "test" THEN "final" ELSE "done") ELSE "poll"
  /\ UNCHANGED <<kind, status, job, file, draining, left, offset, sent, cut, mishaps>>

\* GetTestByID or GetDeploymentByID: an error is no outcome.
CheckStatus ==
  /\ stream = "check"
  /\ \/ Finished /\ stream' = (IF kind = "test" THEN "final" ELSE "done") /\ Fine
     \/ ~Finished /\ stream' = "poll" /\ Fine
     \/ Mishap /\ stream' = "poll"
  /\ UNCHANGED <<kind, status, job, file, draining, left, offset, sent, cut>>

\* The test's final read.
FinalRead ==
  /\ stream = "final"
  /\ \/ SendLine
     \/ ~Rest /\ stream' = "done" /\ UNCHANGED <<offset, sent>>
  /\ UNCHANGED <<kind, status, job, file, draining, left, cut, mishaps>>

PollTick ==
  /\ stream = "poll"
  /\ stream' = "read"
  /\ UNCHANGED <<kind, status, job, file, draining, left, offset, sent, cut, mishaps>>

\* Mutant: the loop that waits for the file does not watch the client.
CancelledTail ==
  /\ stream = "poll" /\ left
  /\ stream' = "closed"
  /\ UNCHANGED <<kind, status, job, file, draining, left, offset, sent, cut, mishaps>>

\* The reading goroutine has seen the client go and cancels the context,
\* which both selects watch; the best-effort read sends to no one.
Cancelled ==
  /\ stream \in {"wait", "poll"} /\ left
  /\ stream' = "closed"
  /\ UNCHANGED <<kind, status, job, file, draining, left, offset, sent, cut, mishaps>>

Stream == Lookup \/ WaitTick \/ ReadLines \/ CheckStatus \/ FinalRead \/ PollTick \/ Cancelled

-----------------------------------------------------------------------------
(* Everyone else.                                                          *)

ClientLeaves ==
  /\ Live /\ ~left
  /\ left' = TRUE
  /\ UNCHANGED <<kind, status, job, file, draining, stream, offset, sent, cut, mishaps>>

\* ShutdownDeploymentHandler and StartDeploymentHandler ask for no status,
\* only for a unit.  The goroutine installs one at some point of its work;
\* here there may be one as soon as the log has been opened.
StopOrStart ==
  /\ kind = "deployment" /\ status # "none" /\ job # "open"
  /\ status' \in {"stopped", "ready"}
  /\ UNCHANGED <<kind, job, file, draining, reader, mishaps>>

\* The document is deleted.  DeleteStage goes on to remove the logs of its
\* tests by name; no handler removes the log of a deployment.
DeleteDoc ==
  /\ status # "none"
  /\ status' = "none"
  /\ UNCHANGED <<kind, job, file, draining, reader, mishaps>>

RemoveLog ==
  /\ kind = "test" /\ status = "none" /\ exists
  /\ exists' = FALSE
  /\ UNCHANGED <<kind, status, job, content, written, draining, reader, mishaps>>

Drain ==
  /\ draining' = ~draining
  /\ UNCHANGED <<kind, status, job, file, reader, mishaps>>

\* The daemon restarts: goroutine and stream end, file and document stay.
Restart ==
  /\ Mishap
  /\ job' = "gone" /\ draining' = FALSE
  /\ stream' = "closed" /\ left' = FALSE
  /\ offset' = 0 /\ sent' = <<>> /\ cut' = FALSE
  /\ UNCHANGED <<kind, status, file>>

Next ==
  \/ Job
  \/ Connect
  \/ Stream
  \/ ClientLeaves
  \/ StopOrStart
  \/ DeleteDoc
  \/ RemoveLog
  \/ Drain
  \/ Restart

\* Reads, writes and lookups return and the tickers tick.  A select whose
\* client has gone cannot take the ticker for ever: its choice is random.
\* Nobody is obliged to connect, to leave or to write.
Fairness ==
  /\ WF_vars(Lookup) /\ WF_vars(WaitTick) /\ WF_vars(ReadLines)
  /\ WF_vars(CheckStatus) /\ WF_vars(FinalRead) /\ WF_vars(PollTick)
  /\ SF_vars(Cancelled)

Spec == Init /\ [][Next]_vars
FairSpec == Spec /\ Fairness
-----------------------------------------------------------------------------
(* Properties.                                                             *)

Lines == 1 .. MaxLines

TypeOK ==
  /\ kind \in {"test", "deployment"}
  /\ status \in {"running", "finished", "ready", "stopped", "failed", "none"}
  /\ job \in {"open", "write", "last", "gone"}
  /\ exists \in BOOLEAN
  /\ content \in Seq(Lines) /\ Len(content) <= written
  /\ written \in 0 .. MaxLines
  /\ draining \in BOOLEAN
  /\ stream \in {"closed", "lookup", "wait", "read", "check", "final", "poll", "done"}
  /\ left \in BOOLEAN
  /\ offset = Len(sent) /\ sent \in Seq(Lines)
  /\ cut \in BOOLEAN
  /\ mishaps \in 0 .. MaxMishaps

\* The stream of a test that ends by itself has sent the whole log: the
\* final read follows the look at the outcome, which follows the last line.
TestLogComplete ==
  kind = "test" /\ stream = "done" => sent = content

\* No line is sent twice and none is overtaken, even when a redeployment
\* truncates the file under an open stream.
SentInOrder ==
  \A i, j \in DOMAIN sent : i < j => sent[i] < sent[j]

\* A stream whose file was not truncated under it has skipped nothing.
NoGap == stream # "closed" /\ ~cut => IsPrefix(sent, content)

\* A tail whose document has the outcome it looks for, and keeps it, ends.
StreamEnds == Opened /\ Finished ~> ~Opened \/ ~Finished

\* The handler of a client that has gone does not stay, not even if the file
\* or the outcome it waits for never comes.
LeaverFreed == Live /\ left ~> ~Live

(* What makes the safety properties inductive.                             *)

\* The test's file is opened only after it was truncated, and its outcome
\* is seen, and the final read made, only when no more lines will come.
TestOrder ==
  kind = "test" =>
    /\ exists \/ Opened \/ stream = "done" => job # "open"
    /\ Finished \/ stream \in {"final", "done"} => job = "gone"
    /\ stream = "done" => offset = Len(content)

\* A file is truncated under a stream only by a redeployment, before there
\* is an outcome to end on; a stream has sent nothing before it has opened it.
StreamOrder ==
  /\ cut /\ stream # "closed" => kind = "deployment"
  /\ job = "open" => status \in {"running", "none"} /\ stream \notin {"final", "done"}
  /\ stream \in {"lookup", "wait"} => sent = <<>>

\* Lines grow along the file, and from what was sent to what is unread.
LinesGrow ==
  /\ \A i \in DOMAIN content : content[i] <= written
  /\ \A i, j \in DOMAIN content : i < j => content[i] < content[j]
  /\ \A i \in DOMAIN sent : sent[i] <= written
  /\ \A i \in DOMAIN sent, j \in offset + 1 .. Len(content) : sent[i] < content[j]

LogInv == TypeOK /\ TestOrder /\ StreamOrder /\ LinesGrow /\ SentInOrder /\ NoGap
=============================================================================
