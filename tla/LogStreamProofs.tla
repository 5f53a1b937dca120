-------------------------- MODULE LogStreamProofs --------------------------
(***************************************************************************)
(* Proofs about LogStream: LogInv is inductive, whatever the number of     *)
(* lines and of mishaps.  That a test's stream has sent the whole log      *)
(* (TestLogComplete) follows from its having skipped nothing (NoGap) and   *)
(* from the order in which the outcome is recorded, looked at and followed *)
(* by the final read (TestOrder); that lines are sent in order, even past  *)
(* a truncation, from their growing along the file (LinesGrow).            *)
(***************************************************************************)
EXTENDS LogStream, SequenceTheorems, TLAPS

(* A prefix, element by element. *)
LEMMA PrefixElements ==
  ASSUME NEW S, NEW s \in Seq(S), NEW t \in Seq(S)
  PROVE  IsPrefix(s, t) <=> Len(s) <= Len(t) /\ \A i \in 1 .. Len(s) : s[i] = t[i]
  <1>1. ASSUME Len(s) <= Len(t)
        PROVE  SubSeq(s, 1, Len(s)) = SubSeq(t, 1, Len(s))
                 <=> \A i \in 1 .. Len(s) : s[i] = t[i]
    <2>1. /\ SubSeq(s, 1, Len(s)) = [i \in 1 .. Len(s) |-> s[i]]
          /\ SubSeq(t, 1, Len(s)) = [i \in 1 .. Len(s) |-> t[i]]
      BY <1>1, SMTT(30)
    <2> QED
      BY <2>1, Zenon
  <1> QED
    BY <1>1 DEF IsPrefix

(* A sequence of lines with one more line. *)
LEMMA Appended ==
  ASSUME NEW s \in Seq(Lines), NEW n \in Lines
  PROVE  /\ Append(s, n) \in Seq(Lines)
         /\ Len(Append(s, n)) = Len(s) + 1
         /\ \A i \in 1 .. Len(s) : Append(s, n)[i] = s[i]
         /\ Append(s, n)[Len(s) + 1] = n
  OBVIOUS

(* The lines of a sequence are numbers. *)
LEMMA LineNumbers ==
  ASSUME NEW s \in Seq(Lines)
  PROVE  DOMAIN s = 1 .. Len(s) /\ \A i \in DOMAIN s : s[i] \in Nat
  <1>1. DOMAIN s = 1 .. Len(s) /\ Len(s) \in Nat
    BY LenProperties
  <1>2. \A i \in DOMAIN s : s[i] \in Lines
    BY <1>1, ElementOfSeq
  <1> QED
    BY <1>1, <1>2, LinesAssumption DEF Lines

(* NoGap, element by element. *)
Skipless ==
  stream # "closed" /\ ~cut =>
    Len(sent) <= Len(content) /\ \A i \in 1 .. Len(sent) : sent[i] = content[i]

LEMMA NoGapElements == TypeOK => (NoGap <=> Skipless)
  BY PrefixElements DEF TypeOK, NoGap, Skipless

LEMMA NoGapElementsNext == TypeOK' => (NoGap' <=> Skipless')
  BY PrefixElements DEF TypeOK, NoGap, Skipless

(* The initial states. *)
LEMMA LogInit == Init => LogInv
  <1> SUFFICES ASSUME Init PROVE LogInv
    OBVIOUS
  <1>1. /\ kind \in {"test", "deployment"} /\ status = "running" /\ job = "open"
        /\ content = [i \in 1 .. written |-> i]
        /\ draining = FALSE /\ stream = "closed" /\ left = FALSE
        /\ offset = 0 /\ sent = <<>> /\ cut = FALSE /\ mishaps = 0
        /\ kind = "test" => written = 0
    BY Zenon DEF Init
  <1>2. exists \in BOOLEAN /\ (kind = "test" => ~exists)
    BY <1>1, Zenon DEF Init
  <1>3. written \in 0 .. MaxLines
    BY LinesAssumption, SMT DEF Init
  <1>4. content \in Seq(Lines) /\ Len(content) = written
    <2>1. written \in Nat /\ \A i \in 1 .. written : i \in Lines
      BY <1>3, LinesAssumption DEF Lines
    <2>2. content \in [1 .. written -> Lines]
      BY <1>1, <2>1
    <2> QED
      BY <2>1, <2>2, SeqDef, LenProperties
  <1>5. TypeOK
    <2>1. sent \in Seq(Lines) /\ offset = Len(sent)
      BY <1>1
    <2>2. Len(content) <= written
      BY <1>3, <1>4
    <2>3. mishaps \in 0 .. MaxMishaps
      BY <1>1, MishapAssumption
    <2> QED
      BY <1>1, <1>2, <1>3, <1>4, <2>1, <2>2, <2>3, Zenon DEF TypeOK
  <1>6. TestOrder /\ StreamOrder
    <2>1. StreamOrder
      BY <1>1, Zenon DEF StreamOrder
    <2>2. TestOrder
      BY <1>1, <1>2, Zenon DEF TestOrder, Opened, Finished
    <2> QED
      BY <2>1, <2>2
  <1>7. LinesGrow /\ SentInOrder /\ Skipless
    BY <1>1, <1>3 DEF LinesGrow, SentInOrder, Skipless
  <1> QED
    BY <1>5, <1>6, <1>7, NoGapElements DEF LogInv

(* A step that leaves the file and what was sent alone. *)
LEMMA QuietKeeps ==
  ASSUME LogInv, TypeOK', TestOrder', StreamOrder',
         UNCHANGED <<content, written, offset, sent>>,
         stream' # "closed" => stream # "closed", cut' = cut
  PROVE  LogInv'
  <1>1. LinesGrow' /\ SentInOrder'
    BY DEF LogInv, LinesGrow, SentInOrder
  <1>2. Skipless'
    BY NoGapElements DEF LogInv, Skipless
  <1> QED
    BY <1>1, <1>2, NoGapElementsNext DEF LogInv

(* A step after which nothing has been sent yet. *)
LEMMA FreshKeeps ==
  ASSUME LogInv, TypeOK', TestOrder', StreamOrder',
         UNCHANGED <<content, written>>, offset' = 0, sent' = <<>>
  PROVE  LogInv'
  <1>1. LinesGrow' /\ SentInOrder' /\ Skipless'
    BY DEF LogInv, LinesGrow, SentInOrder, Skipless, TypeOK
  <1> QED
    BY <1>1, NoGapElementsNext DEF LogInv

(* Truncation: only a redeployment has a stream with the file open. *)
LEMMA OpenKeeps ==
  ASSUME LogInv, OpenLog
  PROVE  LogInv'
  <1> USE DEF LogInv
  <1>1. CASE /\ exists' = TRUE /\ content' = <<>> /\ cut' = (cut \/ Opened)
             /\ job' = "write" /\ Fine /\ UNCHANGED status
    <2>1. cut' \in BOOLEAN
      BY <1>1, Zenon
    <2>2. TypeOK'
      BY <1>1, <2>1 DEF OpenLog, TypeOK, Fine
    <2>3. TestOrder'
      BY <1>1 DEF OpenLog, TypeOK, TestOrder, Finished, Opened
    <2>4. StreamOrder'
      <3>1. kind = "test" => ~Opened
        BY <1>1 DEF OpenLog, TestOrder
      <3>2. cut' => cut \/ Opened
        BY <1>1, Zenon
      <3> QED
        BY <3>1, <3>2 DEF OpenLog, TypeOK, StreamOrder
    <2>5. LinesGrow' /\ SentInOrder'
      BY <1>1 DEF OpenLog, LinesGrow, SentInOrder, TypeOK
    <2>6. Skipless'
      <3>1. cut' \/ ~Opened
        BY <1>1, Zenon
      <3>2. ~cut' /\ stream' # "closed" => sent = <<>>
        BY <1>1, <3>1, <2>2 DEF OpenLog, StreamOrder, Opened, TypeOK
      <3> QED
        BY <1>1, <3>2 DEF OpenLog, Skipless
    <2> QED
      BY <2>2, <2>3, <2>4, <2>5, <2>6, NoGapElementsNext
  <1>2. CASE /\ Mishap /\ job' = "gone"
             /\ status' = Recorded("failed") \/ UNCHANGED status
             /\ UNCHANGED <<exists, content, cut>>
    <2>1. TypeOK'
      BY <1>2, MishapAssumption DEF OpenLog, TypeOK, Recorded, Mishap
    <2>2. TestOrder' /\ StreamOrder'
      BY <1>2 DEF OpenLog, TypeOK, TestOrder, StreamOrder, Opened
    <2> QED
      BY <1>2, <2>1, <2>2, QuietKeeps DEF OpenLog
  <1> QED
    BY <1>1, <1>2, Zenon DEF OpenLog, Fine

(* A line is written: it is larger than all before it. *)
LEMMA WriteKeeps ==
  ASSUME LogInv, WriteLine
  PROVE  LogInv'
  <1> USE DEF LogInv
  <1>1. /\ written + 1 \in Lines /\ content' = Append(content, written + 1)
        /\ written' = written + 1 /\ UNCHANGED <<stream, cut, offset, sent>>
    BY LinesAssumption DEF WriteLine, TypeOK, Lines, reader
  <1>2. /\ content' \in Seq(Lines) /\ Len(content') = Len(content) + 1
        /\ \A i \in 1 .. Len(content) : content'[i] = content[i]
        /\ content'[Len(content) + 1] = written + 1
    BY <1>1, Appended DEF TypeOK
  <1>3. TypeOK'
    BY <1>1, <1>2 DEF WriteLine, TypeOK, reader, Lines
  <1>4. TestOrder' /\ StreamOrder'
    BY <1>1, <1>2 DEF WriteLine, TypeOK, TestOrder, StreamOrder, Finished, Opened, reader
  <1>5. LinesGrow'
    <2>1. DOMAIN content = 1 .. Len(content) /\ DOMAIN content' = 1 .. Len(content')
          /\ DOMAIN sent = 1 .. Len(sent) /\ sent' = sent
      BY <1>1, <1>2, LineNumbers DEF TypeOK
    <2>2. \A i \in DOMAIN content : content[i] \in Nat
      BY LineNumbers DEF TypeOK
    <2>3. \A i \in DOMAIN sent : sent[i] \in Nat
      BY LineNumbers DEF TypeOK
    <2>4. \A i \in DOMAIN content' : content'[i] <= written'
      BY <1>1, <1>2, <2>1, <2>2 DEF LinesGrow, TypeOK
    <2>5. ASSUME NEW i \in DOMAIN content', NEW j \in DOMAIN content', i < j
          PROVE  content'[i] < content'[j]
      <3>1. i \in DOMAIN content /\ content'[i] = content[i]
        BY <1>2, <2>1, <2>5 DEF TypeOK
      <3>2. CASE j \in DOMAIN content
        BY <1>2, <2>1, <2>5, <3>1, <3>2 DEF LinesGrow, TypeOK
      <3>3. CASE j = Len(content) + 1
        BY <1>1, <1>2, <2>2, <3>1, <3>3 DEF LinesGrow, TypeOK
      <3> QED
        BY <1>2, <2>1, <3>2, <3>3 DEF TypeOK
    <2>6. \A i \in DOMAIN sent : sent[i] <= written'
      BY <1>1, <2>3 DEF LinesGrow, TypeOK
    <2>7. ASSUME NEW i \in DOMAIN sent, NEW j \in offset + 1 .. Len(content')
          PROVE  sent[i] < content'[j]
      <3>1. CASE j \in offset + 1 .. Len(content)
        BY <1>2, <3>1 DEF LinesGrow, TypeOK
      <3>2. CASE j = Len(content) + 1
        BY <1>1, <1>2, <2>3, <3>2 DEF LinesGrow, TypeOK
      <3> QED
        BY <1>2, <3>1, <3>2 DEF TypeOK
    <2> QED
      BY <1>1, <2>1, <2>4, <2>5, <2>6, <2>7 DEF LinesGrow
  <1>6. SentInOrder'
    BY <1>1 DEF SentInOrder
  <1>7. Skipless'
    BY <1>1, <1>2, NoGapElements DEF Skipless, TypeOK
  <1> QED
    BY <1>3, <1>4, <1>5, <1>6, <1>7, NoGapElementsNext

(* A line is sent: it is the first that was not sent yet. *)
LEMMA SendKeeps ==
  ASSUME LogInv, Rest, stream \in {"read", "final"},
         offset' = offset + 1, sent' = Append(sent, content[offset + 1]),
         UNCHANGED <<kind, status, job, file, draining, stream, left, cut, mishaps>>
  PROVE  LogInv'
  <1> USE DEF LogInv, file
  <1>1. offset + 1 \in 1 .. Len(content) /\ content[offset + 1] \in Lines
    BY LenProperties, ElementOfSeq DEF TypeOK, Rest
  <1>2. /\ sent' \in Seq(Lines) /\ Len(sent') = Len(sent) + 1
        /\ \A i \in 1 .. Len(sent) : sent'[i] = sent[i]
        /\ sent'[Len(sent) + 1] = content[offset + 1]
    BY <1>1, Appended DEF TypeOK
  <1>3. TypeOK'
    BY <1>2 DEF TypeOK
  <1>4. TestOrder' /\ StreamOrder'
    BY DEF TestOrder, StreamOrder, Finished, Opened
  <1>5. DOMAIN content = 1 .. Len(content) /\ DOMAIN sent = 1 .. offset
        /\ DOMAIN sent' = 1 .. offset + 1
    BY <1>2, LineNumbers DEF TypeOK
  <1>6. /\ \A i \in DOMAIN content : content[i] \in Nat
        /\ \A i \in DOMAIN sent : sent[i] \in Nat
    BY LineNumbers DEF TypeOK
  <1>7. LinesGrow'
    <2>1. \A i \in DOMAIN sent' : sent'[i] <= written
      BY <1>1, <1>2, <1>5, <1>6 DEF LinesGrow, TypeOK
    <2>2. ASSUME NEW i \in DOMAIN sent', NEW j \in offset' + 1 .. Len(content)
          PROVE  sent'[i] < content[j]
      <3>1. j \in offset + 1 .. Len(content) /\ offset + 1 < j /\ j \in DOMAIN content
        BY <1>1, <1>5 DEF TypeOK
      <3>2. CASE i \in DOMAIN sent
        BY <1>2, <1>5, <3>1, <3>2 DEF LinesGrow, TypeOK
      <3>3. CASE i = offset + 1
        BY <1>1, <1>2, <1>5, <3>1, <3>3 DEF LinesGrow, TypeOK
      <3> QED
        BY <1>5, <3>2, <3>3 DEF TypeOK
    <2> QED
      BY <2>1, <2>2 DEF LinesGrow
  <1>8. SentInOrder'
    <2> SUFFICES ASSUME NEW i \in DOMAIN sent', NEW j \in DOMAIN sent', i < j
                 PROVE  sent'[i] < sent'[j]
      BY DEF SentInOrder
    <2>1. i \in DOMAIN sent /\ sent'[i] = sent[i]
      BY <1>2, <1>5 DEF TypeOK
    <2>2. CASE j \in DOMAIN sent
      BY <1>2, <1>5, <2>1, <2>2 DEF SentInOrder, TypeOK
    <2>3. CASE j = offset + 1
      BY <1>1, <1>2, <2>1, <2>3 DEF LinesGrow, TypeOK
    <2> QED
      BY <1>5, <2>2, <2>3 DEF TypeOK
  <1>9. Skipless'
    BY <1>1, <1>2, NoGapElements DEF Skipless, TypeOK
  <1> QED
    BY <1>3, <1>4, <1>7, <1>8, <1>9, NoGapElementsNext

(* The loops over the lines of the file: a line, its failure or the end. *)
LEMMA ReadKeeps ==
  ASSUME LogInv, ReadLines \/ FinalRead
  PROVE  LogInv'
  <1> USE DEF LogInv, file
  <1>1. CASE Rest /\ offset' = offset + 1 /\ stream' = stream
    BY <1>1, SendKeeps DEF ReadLines, FinalRead, SendLine
  <1>2. CASE UNCHANGED <<offset, sent>>
    <2>1. TypeOK'
      BY <1>2 DEF ReadLines, FinalRead, SendLine, TypeOK
    <2>2. offset <= Len(content) \/ cut
      BY NoGapElements DEF ReadLines, FinalRead, Skipless, TypeOK
    <2>3. TestOrder'
      BY <1>2, <2>2 DEF ReadLines, FinalRead, SendLine, Rest, TestOrder, StreamOrder,
                        Opened, Finished, TypeOK
    <2>4. StreamOrder'
      BY <1>2 DEF ReadLines, FinalRead, SendLine, StreamOrder, TestOrder, Finished
    <2> QED
      BY <1>2, <2>1, <2>3, <2>4, QuietKeeps DEF ReadLines, FinalRead, SendLine
  <1> QED
    BY <1>1, <1>2 DEF ReadLines, FinalRead, SendLine

(* The outcome is recorded: it is the last that a test does. *)
LEMMA RecordKeeps ==
  ASSUME LogInv, RecordTest \/ RecordDeployment
  PROVE  LogInv'
  <1> USE DEF LogInv, file, reader, RecordTest, RecordDeployment, Recorded
  <1>1. TypeOK'
    BY MishapAssumption DEF TypeOK, Mishap, Fine
  <1>2. TestOrder' /\ StreamOrder'
    BY DEF TypeOK, TestOrder, StreamOrder, Finished, Opened
  <1> QED
    BY <1>1, <1>2, QuietKeeps

(* The other steps of the stream. *)
LEMMA StreamKeeps ==
  ASSUME LogInv, Lookup \/ WaitTick \/ CheckStatus \/ PollTick \/ Cancelled
  PROVE  LogInv'
  <1> USE DEF LogInv, file, Lookup, WaitTick, CheckStatus, PollTick, Cancelled
  <1>1. TypeOK'
    BY MishapAssumption DEF TypeOK, Mishap, Fine
  <1>2. TestOrder'
    BY DEF TypeOK, TestOrder, Finished, Opened
  <1>3. StreamOrder'
    BY DEF TypeOK, StreamOrder, TestOrder, Finished
  <1> QED
    BY <1>1, <1>2, <1>3, QuietKeeps

(* Clients and handlers: none touches the file or what was sent. *)
LEMMA OthersKeep ==
  ASSUME LogInv, ClientLeaves \/ StopOrStart \/ DeleteDoc \/ RemoveLog \/ Drain
  PROVE  LogInv'
  <1> USE DEF LogInv, file, reader, ClientLeaves, StopOrStart, DeleteDoc, RemoveLog, Drain
  <1>1. TypeOK'
    BY DEF TypeOK
  <1>2. TestOrder' /\ StreamOrder'
    BY DEF TypeOK, TestOrder, StreamOrder, Finished, Opened
  <1> QED
    BY <1>1, <1>2, QuietKeeps

(* A new stream, or a new daemon without any. *)
LEMMA RenewKeeps ==
  ASSUME LogInv, Connect \/ Restart
  PROVE  LogInv'
  <1> USE DEF LogInv, file, Connect, Restart
  <1>1. TypeOK'
    <2>1. sent' \in Seq(Lines) /\ offset' = Len(sent')
      BY EmptySeq
    <2>2. mishaps' \in 0 .. MaxMishaps
      BY MishapAssumption DEF TypeOK, Mishap
    <2> QED
      BY <2>1, <2>2, Zenon DEF TypeOK
  <1>2. TestOrder' /\ StreamOrder'
    BY DEF TypeOK, TestOrder, StreamOrder, Finished, Opened
  <1> QED
    BY <1>1, <1>2, FreshKeeps

(* LogInv holds in every reachable state: the type invariant, the order of *)
(* sent lines and their completeness are parts of it or follow from it.    *)
THEOREM LogInvariant == Spec => []LogInv
  <1>1. LogInv /\ [Next]_vars => LogInv'
    <2> SUFFICES ASSUME LogInv, [Next]_vars
                 PROVE  LogInv'
      OBVIOUS
    <2>1. CASE Job
      BY <2>1, OpenKeeps, WriteKeeps, RecordKeeps DEF Job
    <2>2. CASE Connect \/ Restart
      BY <2>2, RenewKeeps, Zenon
    <2>3. CASE Stream
      BY <2>3, ReadKeeps, StreamKeeps, Zenon DEF Stream
    <2>4. CASE ClientLeaves \/ StopOrStart \/ DeleteDoc \/ RemoveLog \/ Drain
      BY <2>4, OthersKeep, Zenon
    <2>5. CASE UNCHANGED vars
      <3>1. TypeOK' /\ TestOrder' /\ StreamOrder'
        BY <2>5 DEF vars, file, reader, LogInv, TypeOK, TestOrder, StreamOrder,
                    Finished, Opened
      <3> QED
        BY <2>5, <3>1, QuietKeeps DEF vars, file, reader
    <2> QED
      BY <2>1, <2>2, <2>3, <2>4, <2>5 DEF Next
  <1> QED
    BY LogInit, <1>1, PTL DEF Spec

(* The stream of a test that ends by itself has sent the whole log,        *)
(* however the script's output, its end and the polls interleave.          *)
THEOREM CompleteTestLogs == Spec => []TestLogComplete
  <1>1. LogInv => TestLogComplete
    <2> SUFFICES ASSUME LogInv, kind = "test", stream = "done"
                 PROVE  sent = content
      BY DEF TestLogComplete
    <2>1. ~cut /\ Len(sent) = Len(content)
      BY DEF LogInv, TypeOK, TestOrder, StreamOrder
    <2>2. \A i \in 1 .. Len(sent) : sent[i] = content[i]
      BY <2>1, NoGapElements DEF LogInv, Skipless
    <2>3. sent \in [1 .. Len(sent) -> Lines] /\ content \in [1 .. Len(sent) -> Lines]
      BY <2>1, LenProperties DEF LogInv, TypeOK
    <2> QED
      BY <2>2, <2>3
  <1> QED
    BY LogInvariant, <1>1, PTL

(* No stream repeats or overtakes a line, even if a redeployment truncates *)
(* the file while it reads.                                                *)
THEOREM OrderedStreams == Spec => []SentInOrder
  <1>1. LogInv => SentInOrder
    BY DEF LogInv
  <1> QED
    BY LogInvariant, <1>1, PTL

(* No stream skips a line of a file that is not truncated while it reads.  *)
THEOREM GaplessStreams == Spec => []NoGap
  <1>1. LogInv => NoGap
    BY DEF LogInv
  <1> QED
    BY LogInvariant, <1>1, PTL

(* Files, streams and documents keep their types across truncations,       *)
(* deletions, restarts and calls that fail.                                *)
THEOREM StreamTypes == Spec => []TypeOK
  <1>1. LogInv => TypeOK
    BY DEF LogInv
  <1> QED
    BY LogInvariant, <1>1, PTL
=============================================================================
