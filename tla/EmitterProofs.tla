--------------------------- MODULE EmitterProofs ---------------------------
(***************************************************************************)
(* Proofs about Emitter, for every size of the channel and of the batches. *)
(* The worker never holds more than a batch (EmitterInv), so that batch    *)
(* and channel together are EventLog's bounded queue; each step of the     *)
(* emitter is a step of that queue or leaves it alone (Refines).  That an  *)
(* event is accounted for and written at most once is then what EventLog   *)
(* implies, read through the refinement mapping.                           *)
(***************************************************************************)
EXTENDS Emitter, SequenceTheorems, FiniteSetTheorems, TLAPS

\* A worker that waits has room in its batch; one that writes has a batch.
Room ==
  /\ worker = "select" => Len(batch) < BatchSize
  /\ worker \in {"flush", "last"} => batch # <<>>

\* The invariant of the refinement.
EmitterInv == TypeOK /\ Room

(* A sequence of event numbers that grew at its end, or lost its head. *)
LEMMA Grown ==
  ASSUME NEW s \in Seq(Numbers), NEW e \in Numbers
  PROVE  /\ Append(s, e) \in Seq(Numbers) /\ Append(s, e) # <<>>
         /\ Len(Append(s, e)) = Len(s) + 1
  BY AppendProperties

\* Lengths are numbers, and the queue is as long as both its parts.
LEMMA Lengths ==
  ASSUME TypeOK
  PROVE  Len(buf) \in Nat /\ Len(batch) \in Nat /\ Len(batch \o buf) = Len(batch) + Len(buf)
  BY LenProperties, ConcatProperties DEF TypeOK

(* What the worker takes from the channel moves to the end of the batch:   *)
(* the queue they form is the same.                                        *)
LEMMA ReceiveMoves ==
  ASSUME NEW s \in Seq(Numbers), NEW t \in Seq(Numbers), t # <<>>
  PROVE  /\ Head(t) \in Numbers /\ Tail(t) \in Seq(Numbers) /\ Len(Tail(t)) = Len(t) - 1
         /\ Append(s, Head(t)) \o Tail(t) = s \o t
  <1>1. /\ Head(t) \in Numbers /\ Tail(t) \in Seq(Numbers) /\ Len(Tail(t)) = Len(t) - 1
        /\ \A i \in 1 .. Len(Tail(t)) : Tail(t)[i] = t[i + 1]
    BY HeadTailProperties
  <1>2. Len(s) \in Nat /\ Len(t) \in Nat \ {0} /\ Head(t) = t[1]
    BY LenProperties, EmptySeq
  <1> DEFINE u == Append(s, Head(t))
  <1>3. /\ u \in Seq(Numbers) /\ Len(u) = Len(s) + 1
        /\ \A i \in 1 .. Len(s) : u[i] = s[i]
        /\ u[Len(s) + 1] = t[1]
    BY <1>1, <1>2, AppendProperties
  <1> HIDE DEF u
  <1>4. /\ u \o Tail(t) \in Seq(Numbers) /\ Len(u \o Tail(t)) = Len(s) + Len(t)
        /\ \A i \in 1 .. Len(u) + Len(Tail(t)) :
             (u \o Tail(t))[i] = IF i <= Len(u) THEN u[i] ELSE Tail(t)[i - Len(u)]
    <2>1. Len(u) + Len(Tail(t)) = Len(s) + Len(t)
      BY <1>1, <1>2, <1>3
    <2>2. /\ u \o Tail(t) \in Seq(Numbers) /\ Len(u \o Tail(t)) = Len(u) + Len(Tail(t))
          /\ \A i \in 1 .. Len(u) + Len(Tail(t)) :
               (u \o Tail(t))[i] = IF i <= Len(u) THEN u[i] ELSE Tail(t)[i - Len(u)]
      BY <1>1, <1>3, ConcatProperties, Zenon
    <2> QED
      BY <2>1, <2>2, Zenon
  <1>5. /\ s \o t \in Seq(Numbers) /\ Len(s \o t) = Len(s) + Len(t)
        /\ \A i \in 1 .. Len(s) + Len(t) :
             (s \o t)[i] = IF i <= Len(s) THEN s[i] ELSE t[i - Len(s)]
    BY ConcatProperties
  <1>6. ASSUME NEW i \in 1 .. Len(s) + Len(t) PROVE (u \o Tail(t))[i] = (s \o t)[i]
    <2>0. i \in Nat /\ i >= 1 /\ i <= Len(s) + Len(t)
          /\ Len(u) + Len(Tail(t)) = Len(s) + Len(t)
      BY <1>1, <1>2, <1>3
    <2>1. CASE i <= Len(s)
      <3>1. i \in 1 .. Len(s) /\ i <= Len(u)
        BY <1>2, <1>3, <2>0, <2>1
      <3> QED
        BY <1>3, <1>4, <1>5, <2>0, <3>1
    <2>2. CASE i = Len(s) + 1
      <3>1. i <= Len(u) /\ ~ i <= Len(s) /\ i - Len(s) = 1
        BY <1>2, <1>3, <2>2
      <3> QED
        BY <1>3, <1>4, <1>5, <2>0, <2>2, <3>1
    <2>3. CASE i > Len(s) + 1
      <3>1. /\ ~ i <= Len(u) /\ ~ i <= Len(s)
            /\ i - Len(u) \in 1 .. Len(Tail(t)) /\ (i - Len(u)) + 1 = i - Len(s)
        BY <1>1, <1>2, <1>3, <2>0, <2>3
      <3>2. Tail(t)[i - Len(u)] = t[i - Len(s)]
        BY <1>1, <3>1
      <3> QED
        BY <1>4, <1>5, <2>0, <3>1, <3>2
    <2> QED
      BY <1>2, <2>0, <2>1, <2>2, <2>3
  <1>7. u \o Tail(t) = s \o t
    BY <1>4, <1>5, <1>6, SeqEqual
  <1> QED
    BY <1>1, <1>7 DEF u

(* The type invariant and the room in the batch are inductive. *)
LEMMA EmitterStarts == Init => EmitterInv
  <1> SUFFICES ASSUME Init PROVE EmitterInv
    OBVIOUS
  <1>1. TypeOK
    <2>1. \A S : <<>> \in Seq(S) /\ Len(<<>>) = 0
      BY EmptySeq
    <2>2. emitted \in 0 .. MaxEvents /\ mishaps \in 0 .. MaxMishaps
          /\ 0 <= Buffer /\ 0 <= BatchSize
      BY BufferAssumption, BoundAssumption DEF Init
    <2> QED
      BY <2>1, <2>2 DEF Init, TypeOK
  <1>2. Room
    BY BufferAssumption, EmptySeq DEF Init, Room
  <1> QED
    BY <1>1, <1>2 DEF EmitterInv

\* Every step keeps them.
LEMMA EmitterStep == EmitterInv /\ [Next]_vars => EmitterInv'
  <1> SUFFICES ASSUME EmitterInv, [Next]_vars PROVE EmitterInv'
    OBVIOUS
  <1> USE BufferAssumption, BoundAssumption DEF EmitterInv
  <1>0. TypeOK /\ Room /\ Len(buf) \in Nat /\ Len(batch) \in Nat
    BY Lengths
  <1>1. CASE Emit
    <2>1. emitted' \in Numbers /\ emitted' \in 0 .. MaxEvents
      BY <1>0, <1>1 DEF Emit, TypeOK, Numbers
    <2>2. CASE Len(buf) < Buffer /\ buf' = Append(buf, emitted') /\ UNCHANGED <<direct, overflow>>
      <3>1. buf' \in Seq(Numbers) /\ Len(buf') <= Buffer
        BY <1>0, <2>1, <2>2, Grown DEF TypeOK
      <3> QED
        BY <1>0, <1>1, <2>1, <2>2, <3>1 DEF Emit, TypeOK, Room
    <2>3. CASE direct' = direct \cup {emitted'} /\ overflow' = overflow \cup {emitted'}
               /\ UNCHANGED buf
      BY <1>0, <1>1, <2>1, <2>3 DEF Emit, TypeOK, Room
    <2> QED
      BY <1>1, <2>2, <2>3 DEF Emit
  <1>2. ASSUME NEW e \in 1 .. MaxEvents, InsertOne(e) PROVE EmitterInv'
    <2>1. log' \in Seq(Numbers) /\ lost' \subseteq Numbers /\ mishaps' \in 0 .. MaxMishaps
      <3>1. e \in Numbers
        BY DEF Numbers
      <3>2. CASE log' = Append(log, e) /\ UNCHANGED <<lost, mishaps>>
        BY <1>0, <3>1, <3>2, Grown DEF TypeOK
      <3>3. CASE Mishap /\ lost' = lost \cup {e} /\ UNCHANGED log
        BY <1>0, <3>1, <3>3 DEF Mishap, TypeOK
      <3> QED
        BY <1>2, <3>2, <3>3 DEF InsertOne
    <2> QED
      BY <1>0, <1>2, <2>1 DEF InsertOne, TypeOK, Room
  <1>3. CASE Receive
    <2>1. /\ batch' \in Seq(Numbers) /\ Len(batch') = Len(batch) + 1 /\ batch' # <<>>
          /\ buf' \in Seq(Numbers) /\ Len(buf') = Len(buf) - 1
      BY <1>0, <1>3, Grown, ReceiveMoves DEF Receive, TypeOK
    <2>2. Len(batch') <= BatchSize /\ Len(buf') <= Buffer
      BY <1>0, <1>3, <2>1 DEF Receive, TypeOK, Room
    <2>3. worker' = (IF Len(batch') >= BatchSize THEN "flush" ELSE "select")
      BY <1>3 DEF Receive
    <2>4. TypeOK'
      BY <1>0, <1>3, <2>1, <2>2, <2>3 DEF Receive, TypeOK
    <2>5. Room'
      BY <1>0, <2>1, <2>2, <2>3 DEF Room
    <2> QED
      BY <2>4, <2>5
  <1>4. CASE TimerFires
    BY <1>0, <1>4 DEF TimerFires, Flushed, TypeOK, Room
  <1>5. CASE InsertMany
    <2>1. batch' = <<>> /\ batch' \in Seq(Numbers) /\ Len(batch') = 0
      BY <1>5, EmptySeq DEF InsertMany
    <2>2. worker' \in {"gone", "select"}
      BY <1>5 DEF InsertMany, AfterFlush
    <2>3. log' \in Seq(Numbers) /\ lost' \subseteq Numbers /\ mishaps' \in 0 .. MaxMishaps
      <3>1. CASE log' = log \o batch /\ UNCHANGED <<lost, mishaps>>
        BY <1>0, <3>1, ConcatProperties DEF TypeOK
      <3>2. CASE /\ Mishap
                 /\ \E n \in 0 .. Len(batch) - 1 :
                      /\ log' = log \o SubSeq(batch, 1, n)
                      /\ lost' = lost \cup {batch[i] : i \in n + 1 .. Len(batch)}
        <4>1. PICK n \in 0 .. Len(batch) - 1 :
                /\ log' = log \o SubSeq(batch, 1, n)
                /\ lost' = lost \cup {batch[i] : i \in n + 1 .. Len(batch)}
          BY <3>2
        <4>2. \A i \in 1 .. Len(batch) : batch[i] \in Numbers
          BY <1>0, ElementOfSeq DEF TypeOK
        <4>3. SubSeq(batch, 1, n) \in Seq(Numbers)
          BY <1>0, <4>2, SubSeqProperties
        <4>4. log' \in Seq(Numbers)
          BY <1>0, <4>1, <4>3, ConcatProperties DEF TypeOK
        <4>5. \A i \in n + 1 .. Len(batch) : i \in 1 .. Len(batch)
          BY <1>0
        <4>6. lost' \subseteq Numbers
          BY <1>0, <4>1, <4>2, <4>5 DEF TypeOK
        <4> QED
          BY <1>0, <3>2, <4>4, <4>6 DEF Mishap, TypeOK
      <3> QED
        BY <1>5, <3>1, <3>2 DEF InsertMany
    <2> QED
      BY <1>0, <1>5, <2>1, <2>2, <2>3 DEF InsertMany, TypeOK, Room
  <1>6. CASE ChannelEnds
    BY <1>0, <1>6 DEF ChannelEnds, TypeOK, Room
  <1>7. CASE Close
    BY <1>0, <1>7 DEF Close, TypeOK, Room
  <1>8. CASE Exit
    <2>1. ToSet(buf) \subseteq Numbers /\ ToSet(batch) \subseteq Numbers
      BY <1>0, ElementOfSeq, LenProperties DEF ToSet, TypeOK
    <2>2. buf' = <<>> /\ batch' = <<>> /\ Len(buf') = 0 /\ Len(batch') = 0
          /\ buf' \in Seq(Numbers) /\ batch' \in Seq(Numbers)
      BY <1>8, EmptySeq DEF Exit
    <2>3. mishaps' \in 0 .. MaxMishaps /\ 0 <= Buffer /\ 0 <= BatchSize /\ 0 < BatchSize
      BY <1>0, <1>8 DEF Exit, Mishap, TypeOK
    <2>4. lost' \subseteq Numbers
      BY <1>0, <1>8, <2>1 DEF Exit, TypeOK
    <2>5. TypeOK'
      BY <1>0, <1>8, <2>2, <2>3, <2>4 DEF Exit, TypeOK
    <2>6. Room'
      BY <1>8, <2>2, <2>3 DEF Exit, Room
    <2> QED
      BY <2>5, <2>6
  <1>9. CASE UNCHANGED vars
    BY <1>0, <1>9 DEF vars, TypeOK, Room
  <1> QED
    BY <1>1, <1>2, <1>3, <1>4, <1>5, <1>6, <1>7, <1>8, <1>9 DEF Next, Worker

(* The channel and the batch never exceed their capacities, whatever these *)
(* are.                                                                    *)
THEOREM EmitterTypeOK == Spec => []TypeOK
  <1>1. EmitterInv => TypeOK
    BY DEF EmitterInv
  <1> QED
    BY <1>1, EmitterStarts, EmitterStep, PTL DEF Spec

(* A flush writes a prefix of the batch, which is a prefix of the queue,   *)
(* and leaves the channel as the rest of the queue.                        *)
LEMMA FlushIsPrefix ==
  ASSUME NEW s \in Seq(Numbers), NEW t \in Seq(Numbers), NEW n \in 0 .. Len(s)
  PROVE  /\ SubSeq(s \o t, 1, n) = SubSeq(s, 1, n)
         /\ {(s \o t)[i] : i \in n + 1 .. Len(s)} = {s[i] : i \in n + 1 .. Len(s)}
         /\ SubSeq(s \o t, Len(s) + 1, Len(s \o t)) = t
  <1> DEFINE q == s \o t
  <1>1. /\ Len(s) \in Nat /\ Len(t) \in Nat
        /\ q \in Seq(Numbers) /\ Len(q) = Len(s) + Len(t)
        /\ \A i \in 1 .. Len(s) + Len(t) : q[i] = IF i <= Len(s) THEN s[i] ELSE t[i - Len(s)]
    BY LenProperties, ConcatProperties
  <1> HIDE DEF q
  <1>2. /\ \A i \in 1 .. Len(s) : i \in 1 .. Len(s) + Len(t) /\ q[i] = s[i]
        /\ \A i \in 1 .. Len(s) : q[i] \in Numbers /\ s[i] \in Numbers
    BY <1>1, ElementOfSeq
  <1>3. SubSeq(q, 1, n) = SubSeq(s, 1, n)
    <2>1. \A i \in 1 .. n : i \in 1 .. Len(s)
      BY <1>1
    <2>2. /\ SubSeq(q, 1, n) \in Seq(Numbers) /\ Len(SubSeq(q, 1, n)) = n
          /\ \A i \in 1 .. n : SubSeq(q, 1, n)[i] = q[i]
      BY <1>1, <1>2, <2>1, SubSeqProperties
    <2>3. /\ SubSeq(s, 1, n) \in Seq(Numbers) /\ Len(SubSeq(s, 1, n)) = n
          /\ \A i \in 1 .. n : SubSeq(s, 1, n)[i] = s[i]
      BY <1>1, <1>2, <2>1, SubSeqProperties
    <2>4. \A i \in 1 .. n : SubSeq(q, 1, n)[i] = SubSeq(s, 1, n)[i]
      BY <1>2, <2>1, <2>2, <2>3
    <2> QED
      BY <2>2, <2>3, <2>4, SeqEqual
  <1>4. {q[i] : i \in n + 1 .. Len(s)} = {s[i] : i \in n + 1 .. Len(s)}
    <2>1. \A i \in n + 1 .. Len(s) : i \in 1 .. Len(s)
      BY <1>1
    <2>2. \A i \in n + 1 .. Len(s) : q[i] = s[i]
      BY <1>2, <2>1
    <2> QED
      BY <2>2
  <1>5. SubSeq(q, Len(s) + 1, Len(q)) = t
    <2> DEFINE k == Len(s) + 1
               r == SubSeq(q, k, Len(q))
    <2>1. k \in Int /\ Len(q) \in Int /\ \A i \in k .. Len(q) : q[i] \in Numbers
      <3>1. \A i \in k .. Len(q) : i \in 1 .. Len(q)
        BY <1>1
      <3> QED
        BY <1>1, <3>1, ElementOfSeq
    <2>2. /\ r \in Seq(Numbers)
          /\ Len(r) = IF k <= Len(q) THEN Len(q) - k + 1 ELSE 0
          /\ \A i \in 1 .. Len(q) - k + 1 : r[i] = q[k + i - 1]
      BY <2>1, SubSeqProperties
    <2>3. Len(q) - k + 1 = Len(t) /\ (k <= Len(q) \/ Len(t) = 0)
      BY <1>1
    <2>4. ASSUME NEW i \in 1 .. Len(t)
          PROVE  /\ k + i - 1 = Len(s) + i /\ k + i - 1 \in 1 .. Len(s) + Len(t)
                 /\ ~ k + i - 1 <= Len(s) /\ (k + i - 1) - Len(s) = i
      BY <1>1
    <2> HIDE DEF k, r
    <2>5. Len(r) = Len(t)
      <3>1. CASE k <= Len(q)
        BY <2>2, <2>3, <3>1, Zenon
      <3>2. CASE ~ k <= Len(q)
        BY <2>2, <2>3, <3>2, Zenon
      <3> QED
        BY <3>1, <3>2
    <2>6. ASSUME NEW i \in 1 .. Len(t) PROVE r[i] = t[i]
      <3>1. r[i] = q[k + i - 1]
        BY <2>2, <2>3
      <3>2. q[k + i - 1] = t[(k + i - 1) - Len(s)]
        BY <1>1, <2>4
      <3> QED
        BY <2>4, <3>1, <3>2
    <2>7. r = t
      BY <2>2, <2>5, <2>6, SeqEqual
    <2> QED
      BY <2>7 DEF k, r
  <1> QED
    BY <1>1, <1>3, <1>4, <1>5 DEF q

(* The words of the library mean the same in both modules.                 *)
LEMMA SameWords ==
  ASSUME NEW s
  PROVE  Queue!ToSet(s) = ToSet(s) /\ (Queue!IsInjective(s) <=> IsInjective(s))
  BY DEF ToSet, IsInjective, Queue!ToSet, Queue!IsInjective

(* The elements of the queue are those of the batch and of the channel.    *)
LEMMA QueueElements ==
  ASSUME TypeOK
  PROVE  ToSet(batch \o buf) = ToSet(batch) \cup ToSet(buf)
  <1>1. batch \in Seq(Nat) /\ buf \in Seq(Nat)
    BY SeqMonotonic, BoundAssumption DEF TypeOK, Numbers
  <1> QED
    BY <1>1, Queue!ConcatElements, SameWords

(* Each step of the emitter is a step of the queue, or leaves it alone.    *)
LEMMA StepMaps == EmitterInv /\ EmitterInv' /\ [Next]_vars => [Queue!Next]_(Queue!vars)
  <1> SUFFICES ASSUME EmitterInv, EmitterInv', [Next]_vars
               PROVE  [Queue!Next]_(Queue!vars)
    OBVIOUS
  <1>0. /\ TypeOK /\ Room /\ TypeOK'
        /\ Len(buf) \in Nat /\ Len(batch) \in Nat /\ Len(batch \o buf) = Len(batch) + Len(buf)
    BY Lengths DEF EmitterInv
  <1>1. CASE Emit
    <2>1. CASE Len(buf) < Buffer /\ buf' = Append(buf, emitted') /\ UNCHANGED <<direct, overflow>>
      <3>1. Len(batch \o buf) < Buffer + BatchSize
        BY <1>0, <2>1, BufferAssumption DEF TypeOK
      <3>2. emitted' \in Numbers
        BY <1>0, <1>1, BoundAssumption DEF Emit, TypeOK, Numbers
      <3>3. (batch \o buf)' = Append(batch \o buf, emitted')
        BY <1>0, <1>1, <2>1, <3>2 DEF Emit, TypeOK
      <3> QED
        BY <1>1, <2>1, <3>1, <3>3 DEF Emit, Queue!Next, Queue!Emit
    <2>2. CASE direct' = direct \cup {emitted'} /\ UNCHANGED buf
      BY <1>1, <2>2 DEF Emit, Queue!Next, Queue!Emit
    <2> QED
      BY <1>1, <2>1, <2>2 DEF Emit
  <1>2. ASSUME NEW e \in 1 .. MaxEvents, InsertOne(e) PROVE Queue!Next
    <2>1. Queue!WriteDirect(e)
      BY <1>2 DEF InsertOne, Queue!WriteDirect
    <2> QED
      BY <1>2, <2>1 DEF InsertOne, Queue!Next
  <1>3. CASE Receive
    <2>1. (batch \o buf)' = batch \o buf
      BY <1>0, <1>3, ReceiveMoves DEF Receive, TypeOK
    <2> QED
      BY <1>3, <2>1 DEF Receive, Queue!vars
  <1>4. CASE TimerFires
    BY <1>4 DEF TimerFires, Queue!vars
  <1>5. CASE InsertMany
    <2>1. Len(batch) \in 1 .. Len(batch \o buf)
      BY <1>0, <1>5, EmptySeq DEF InsertMany, Room, TypeOK
    <2>2. batch' = <<>> /\ buf' = buf /\ (batch \o buf)' = buf
      BY <1>0, <1>5, ConcatEmptySeq DEF InsertMany, TypeOK
    <2>3. ASSUME NEW n \in 0 .. Len(batch), log' = log \o SubSeq(batch, 1, n),
                 lost' = lost \cup {batch[i] : i \in n + 1 .. Len(batch)}
          PROVE  Queue!Next
      <3>1. /\ SubSeq(batch \o buf, 1, n) = SubSeq(batch, 1, n)
            /\ {(batch \o buf)[i] : i \in n + 1 .. Len(batch)}
                 = {batch[i] : i \in n + 1 .. Len(batch)}
            /\ SubSeq(batch \o buf, Len(batch) + 1, Len(batch \o buf)) = buf
        BY <1>0, FlushIsPrefix DEF TypeOK
      <3>2. Queue!Write(n, Len(batch))
        BY <1>5, <2>2, <2>3, <3>1 DEF InsertMany, Queue!Write
      <3> QED
        BY <2>1, <3>2 DEF Queue!Next
    <2>4. CASE log' = log \o batch /\ UNCHANGED <<lost, mishaps>>
      <3>1. SubSeq(batch, 1, Len(batch)) = batch
        BY <1>0, SubSeqFull DEF TypeOK
      <3>2. {batch[i] : i \in Len(batch) + 1 .. Len(batch)} = {}
        BY <1>0
      <3>3. Len(batch) \in 0 .. Len(batch)
        BY <1>0
      <3> QED
        BY <2>3, <2>4, <3>1, <3>2, <3>3
    <2>5. CASE \E n \in 0 .. Len(batch) - 1 :
                 /\ log' = log \o SubSeq(batch, 1, n)
                 /\ lost' = lost \cup {batch[i] : i \in n + 1 .. Len(batch)}
      <3>1. PICK n \in 0 .. Len(batch) - 1 :
              /\ log' = log \o SubSeq(batch, 1, n)
              /\ lost' = lost \cup {batch[i] : i \in n + 1 .. Len(batch)}
        BY <2>5
      <3>2. n \in 0 .. Len(batch)
        BY <1>0
      <3> QED
        BY <2>3, <3>1, <3>2
    <2> QED
      BY <1>5, <2>4, <2>5 DEF InsertMany
  <1>6. CASE ChannelEnds
    BY <1>6 DEF ChannelEnds, Queue!vars
  <1>7. CASE Close
    BY <1>7 DEF Close, Queue!vars
  <1>8. CASE Exit
    <2>1. (batch \o buf)' = <<>>
      BY <1>8 DEF Exit
    <2>2. Queue!ToSet(batch \o buf) = ToSet(batch) \cup ToSet(buf)
      BY <1>0, QueueElements, SameWords
    <2>3. lost' = lost \cup Queue!ToSet(batch \o buf) \cup direct
      BY <1>8, <2>2 DEF Exit
    <2> QED
      BY <1>8, <2>1, <2>3 DEF Exit, Queue!Next, Queue!Exit
  <1>9. CASE UNCHANGED vars
    BY <1>9 DEF vars, Queue!vars
  <1> QED
    BY <1>1, <1>2, <1>3, <1>4, <1>5, <1>6, <1>7, <1>8, <1>9 DEF Next, Worker

(* The emitter, with its channel, batches, timer, overflow and exits, is   *)
(* the bounded queue of EventLog.                                          *)
THEOREM EmitterIsQueue == Spec => LogSpec
  <1>1. Init => Queue!Init
    BY ConcatEmptySeq, EmptySeq DEF Init, Queue!Init
  <1> QED
    BY <1>1, EmitterStarts, EmitterStep, StepMaps, PTL DEF Spec, LogSpec, Queue!Spec

(* No event is written twice, and none that counts as lost is written.     *)
THEOREM EmitterWritesOnce == Spec => []WrittenOnce
  <1>1. Queue!QueueInv => WrittenOnce
    BY SameWords DEF Queue!QueueInv, Queue!Apart, WrittenOnce
  <1> QED
    BY <1>1, EmitterIsQueue, Queue!QueueKeepsAccount, PTL DEF LogSpec

(* Only a failed write or an exit of the process loses an event.           *)
Mourned == mishaps \in Nat /\ (mishaps = 0 => lost = {})

\* Every step keeps that.
LEMMA LossNeedsMishap == Mourned /\ [Next]_vars => Mourned'
  <1> SUFFICES ASSUME Mourned, [Next]_vars PROVE Mourned'
    OBVIOUS
  <1>1. CASE UNCHANGED <<lost, mishaps>>
    BY <1>1 DEF Mourned
  <1>2. CASE Mishap
    BY <1>2 DEF Mishap, Mourned
  <1> QED
    BY <1>1, <1>2 DEF Next, Worker, vars, Emit, InsertOne, Receive, TimerFires,
                      InsertMany, ChannelEnds, Close, Exit

(* Every event that was emitted is written, on its way or lost, and        *)
(* nothing is lost as long as every write succeeds and the process runs.   *)
THEOREM EmitterAccounts == Spec => []Accounted
  <1>1. Init => Mourned
    BY DEF Init, Mourned
  <1>2. TypeOK /\ Queue!QueueInv /\ Mourned => Accounted
    <2> SUFFICES ASSUME TypeOK, Queue!QueueInv, Mourned PROVE Accounted
      OBVIOUS
    <2>1. 1 .. emitted = ToSet(log) \cup lost \cup ToSet(batch \o buf) \cup direct
      BY SameWords DEF Queue!QueueInv, Queue!Accounted
    <2> QED
      BY <2>1, QueueElements DEF Mourned, Accounted
  <1> QED
    BY <1>1, <1>2, LossNeedsMishap, EmitterTypeOK, EmitterIsQueue,
       Queue!QueueKeepsAccount, PTL DEF Spec, LogSpec

-----------------------------------------------------------------------------
(* How far an event its caller writes may get ahead.                       *)

\* What waits in the batch or in the channel.
Waits == ToSet(batch) \cup ToSet(buf)

\* The events behind position i of the log that were emitted before what
\* stands there: written later, or still waiting.
Owed(i) ==
  {f \in Numbers \ overflow :
     /\ f < log[i]
     /\ f \in Waits \/ \E j \in DOMAIN log : i < j /\ log[j] = f}

\* Those that wait came through the channel; who is owed what fits in the
\* channel and the batch.
OvertakeInv ==
  /\ direct \subseteq overflow /\ overflow \subseteq 1 .. emitted
  /\ Waits \cap overflow = {}
  /\ \A i \in DOMAIN log : log[i] \in overflow => Cardinality(Owed(i)) <= Buffer + BatchSize

\* No more waits than the channel and the batch hold.
LEMMA WaitsFew ==
  ASSUME TypeOK
  PROVE  IsFiniteSet(Waits) /\ Cardinality(Waits) \in Nat /\ Cardinality(Waits) <= Buffer + BatchSize
  <1> DEFINE q == batch \o buf
  <1>1. /\ q \in Seq(Numbers) /\ Len(q) \in Nat /\ Len(q) = Len(batch) + Len(buf)
        /\ Len(batch) \in Nat /\ Len(buf) \in Nat
    BY Lengths, ConcatProperties DEF TypeOK
  <1>2. Len(q) <= Buffer + BatchSize
    BY <1>1, BufferAssumption DEF TypeOK
  <1>3. ToSet(q) = Waits
    BY QueueElements DEF Waits
  <1> HIDE DEF q
  <1>4. q \in [1 .. Len(q) -> ToSet(q)] /\ \A f \in ToSet(q) : \E j \in 1 .. Len(q) : q[j] = f
    BY <1>1 DEF ToSet
  <1>5. q \in Surjection(1 .. Len(q), ToSet(q))
    BY <1>4 DEF Surjection
  <1>6. IsFiniteSet(1 .. Len(q))
    BY <1>1, FS_Interval
  <1>7. IsFiniteSet(ToSet(q))
    BY <1>5, <1>6, FS_Surjection
  <1>8. Cardinality(ToSet(q)) <= Len(q)
    BY <1>1, <1>5, FS_SurjCardinalityBound DEF ExistsSurjection
  <1>9. Cardinality(ToSet(q)) \in Nat
    BY <1>7, FS_CardinalityType
  <1> QED
    BY <1>1, <1>2, <1>3, <1>7, <1>8, <1>9, BufferAssumption

\* A part of a small finite set is small.
LEMMA Fewer ==
  ASSUME NEW S, IsFiniteSet(S), NEW T, T \subseteq S, NEW n \in Nat, Cardinality(S) <= n
  PROVE  Cardinality(T) <= n
  <1>1. Cardinality(S) \in Nat /\ Cardinality(T) \in Nat /\ Cardinality(T) <= Cardinality(S)
    BY FS_Subset, FS_CardinalityType
  <1> QED
    BY <1>1

\* A step that writes only what waited or what callers held, and lets only
\* new events wait, adds nothing to what is owed.
LEMMA OwedShrinks ==
  ASSUME EmitterInv, EmitterInv', Accounted, OvertakeInv,
         \A i \in DOMAIN log : i \in DOMAIN log' /\ log'[i] = log[i],
         \A i \in DOMAIN log' \ DOMAIN log : log'[i] \in Waits \cup direct,
         \A f \in Waits' : f \in Waits \/ f > emitted,
         overflow \subseteq overflow', \A f \in overflow' \ overflow : f > emitted,
         direct' \subseteq overflow', overflow' \subseteq 1 .. emitted',
         Waits' \cap overflow' = {}
  PROVE  OvertakeInv'
  <1>0. /\ TypeOK /\ emitted \in Nat /\ Buffer + BatchSize \in Nat
        /\ direct \subseteq overflow /\ Waits \cap overflow = {}
    BY BufferAssumption, BoundAssumption DEF EmitterInv, TypeOK, OvertakeInv
  <1>1. /\ \A i \in DOMAIN log : log[i] \in 1 .. emitted
        /\ \A f \in Waits \cup direct : f \in 1 .. emitted
    BY DEF Accounted, ToSet, Waits
  <1>2. ASSUME NEW i \in DOMAIN log', log'[i] \in overflow'
        PROVE  Cardinality(Owed(i)') <= Buffer + BatchSize
    <2>1. \A f \in Numbers : f \in Nat
      BY DEF Numbers
    <2>2. log'[i] \in 1 .. emitted
      BY <1>1, <1>2
    <2>3. log'[i] \in overflow
      BY <1>0, <1>2, <2>2
    <2>4. ASSUME NEW f \in Owed(i)'
          PROVE  /\ f \in Numbers \ overflow /\ f < log'[i]
                 /\ f \in Waits \/ \E j \in DOMAIN log : i < j /\ log[j] = f
      <3>1. /\ f \in Numbers \ overflow' /\ f < log'[i]
            /\ f \in Waits' \/ \E j \in DOMAIN log' : i < j /\ log'[j] = f
        BY DEF Owed, Numbers
      <3>2. f \notin overflow /\ f \notin direct
        BY <1>0, <3>1
      <3>3. CASE f \in Waits'
        <4>1. ~(f > emitted)
          BY <1>0, <2>1, <2>2, <3>1
        <4> QED
          BY <3>1, <3>2, <3>3, <4>1
      <3>4. ASSUME NEW j \in DOMAIN log', i < j, log'[j] = f
            PROVE  f \in Waits \/ \E k \in DOMAIN log : i < k /\ log[k] = f
        BY <3>2, <3>4
      <3> QED
        BY <3>1, <3>2, <3>3, <3>4
    <2>5. CASE i \in DOMAIN log
      <3>1. log[i] \in overflow /\ log'[i] = log[i]
        BY <2>3, <2>5
      <3>2. Owed(i)' \subseteq Owed(i)
        BY <2>4, <3>1 DEF Owed
      <3>3. Cardinality(Owed(i)) <= Buffer + BatchSize
        BY <2>5, <3>1 DEF OvertakeInv
      <3>4. IsFiniteSet(Owed(i))
        <4>1. IsFiniteSet(Numbers)
          BY FS_Interval, BoundAssumption DEF Numbers
        <4>2. Owed(i) \in SUBSET Numbers
          BY DEF Owed
        <4> QED
          BY <4>1, <4>2, FS_Subset
      <3> QED
        BY <1>0, <3>2, <3>3, <3>4, Fewer
    <2>6. CASE i \notin DOMAIN log
      <3>1. DOMAIN log = 1 .. Len(log) /\ DOMAIN log' = 1 .. Len(log') /\ Len(log) \in Nat
            /\ Len(log') \in Nat
        BY LenProperties DEF EmitterInv, TypeOK
      <3>2. \A j \in DOMAIN log : ~(i < j)
        BY <1>2, <2>6, <3>1
      <3>3. Owed(i)' \subseteq Waits
        BY <2>4, <3>2
      <3> QED
        BY <1>0, <3>3, WaitsFew, Fewer
    <2> QED
      BY <2>5, <2>6
  <1> QED
    BY <1>2 DEF OvertakeInv

\* How the log grows: by one event, or by a sequence.
LEMMA LogAppended ==
  ASSUME NEW s \in Seq(Numbers), NEW e \in Numbers
  PROVE  /\ \A i \in DOMAIN s : i \in DOMAIN Append(s, e) /\ Append(s, e)[i] = s[i]
         /\ \A i \in DOMAIN Append(s, e) \ DOMAIN s : Append(s, e)[i] = e
         /\ ToSet(Append(s, e)) = ToSet(s) \cup {e}
  <1>1. /\ Len(s) \in Nat /\ DOMAIN s = 1 .. Len(s)
        /\ DOMAIN Append(s, e) = 1 .. Len(s) + 1
        /\ \A i \in 1 .. Len(s) : Append(s, e)[i] = s[i]
        /\ Append(s, e)[Len(s) + 1] = e
    BY AppendProperties, LenProperties
  <1> QED
    BY <1>1 DEF ToSet

\* By a part of a batch, each event of which is in the batch.
LEMMA LogConcatenated ==
  ASSUME NEW s \in Seq(Numbers), NEW t \in Seq(Numbers), NEW n \in 0 .. Len(t)
  PROVE  /\ \A i \in DOMAIN s : i \in DOMAIN (s \o SubSeq(t, 1, n))
                                /\ (s \o SubSeq(t, 1, n))[i] = s[i]
         /\ \A i \in DOMAIN (s \o SubSeq(t, 1, n)) \ DOMAIN s :
              (s \o SubSeq(t, 1, n))[i] \in ToSet(t)
  <1> DEFINE u == SubSeq(t, 1, n)
             q == s \o u
  <1>1. Len(s) \in Nat /\ Len(t) \in Nat /\ DOMAIN s = 1 .. Len(s) /\ DOMAIN t = 1 .. Len(t)
    BY LenProperties
  <1>2. \A i \in 1 .. n : i \in DOMAIN t /\ t[i] \in Numbers
    BY <1>1, ElementOfSeq
  <1>3. u \in Seq(Numbers) /\ Len(u) = n /\ \A i \in 1 .. n : u[i] = t[i]
    BY <1>1, <1>2, SubSeqProperties
  <1> HIDE DEF u
  <1>4. /\ q \in Seq(Numbers) /\ Len(q) = Len(s) + n
        /\ \A i \in 1 .. Len(s) + n : q[i] = IF i <= Len(s) THEN s[i] ELSE u[i - Len(s)]
    BY <1>3, ConcatProperties
  <1>5. DOMAIN q = 1 .. Len(s) + n
    BY <1>4, LenProperties
  <1> HIDE DEF q
  <1>6. ASSUME NEW i \in DOMAIN s PROVE i \in DOMAIN q /\ q[i] = s[i]
    BY <1>1, <1>4, <1>5
  <1>7. ASSUME NEW i \in DOMAIN q \ DOMAIN s PROVE q[i] \in ToSet(t)
    <2>1. i \in 1 .. Len(s) + n /\ ~(i <= Len(s)) /\ i - Len(s) \in 1 .. n
      BY <1>1, <1>5
    <2>2. q[i] = t[i - Len(s)]
      BY <1>3, <1>4, <2>1
    <2> QED
      BY <1>2, <2>1, <2>2 DEF ToSet
  <1> QED
    BY <1>6, <1>7 DEF q, u

\* OvertakeInv is inductive, given the account of the events.
LEMMA OvertakeStep ==
  ASSUME EmitterInv, EmitterInv', Accounted, OvertakeInv, [Next]_vars
  PROVE  OvertakeInv'
  <1>0. /\ TypeOK /\ TypeOK' /\ Room /\ emitted \in Nat
        /\ direct \subseteq overflow /\ overflow \subseteq 1 .. emitted /\ Waits \cap overflow = {}
    BY DEF EmitterInv, TypeOK, OvertakeInv
  <1>1. ASSUME NEW s, s = <<>> PROVE ToSet(s) = {}
    BY <1>1 DEF ToSet
  <1>2. CASE Emit
    <2>1. /\ emitted' = emitted + 1 /\ UNCHANGED <<batch, log>>
          /\ emitted' \in Numbers
      BY <1>0, <1>2, BoundAssumption DEF Emit, TypeOK, Numbers
    <2>2. CASE buf' = Append(buf, emitted') /\ UNCHANGED <<direct, overflow>>
      <3> DEFINE e == emitted + 1
      <3>1. ToSet(buf') = ToSet(buf) \cup {e}
        BY <1>0, <2>1, <2>2, LogAppended DEF TypeOK
      <3>2. Waits' = Waits \cup {e}
        BY <2>1, <3>1 DEF Waits
      <3>3. e > emitted /\ e \notin overflow /\ emitted' = e
            /\ overflow \subseteq 1 .. e
        BY <1>0, <2>1
      <3> HIDE DEF e
      <3> QED
        BY <1>0, <2>1, <2>2, <3>2, <3>3, OwedShrinks
    <2>3. CASE direct' = direct \cup {emitted'} /\ overflow' = overflow \cup {emitted'}
               /\ UNCHANGED buf
      <3> DEFINE e == emitted + 1
      <3>1. Waits' = Waits
        BY <2>1, <2>3 DEF Waits
      <3>2. \A f \in Waits : f \in 1 .. emitted
        BY DEF Accounted, Waits
      <3>3. /\ e > emitted /\ e \notin Waits /\ emitted' = e
            /\ overflow \cup {e} \subseteq 1 .. e
        BY <1>0, <2>1, <3>2
      <3> HIDE DEF e
      <3> QED
        BY <1>0, <2>1, <2>3, <3>1, <3>3, OwedShrinks
    <2> QED
      BY <1>2, <2>2, <2>3 DEF Emit
  <1>3. ASSUME UNCHANGED <<emitted, overflow>>, direct' \subseteq direct, Waits' \subseteq Waits,
               \/ log' = log
               \/ \E e \in direct : log' = Append(log, e)
               \/ \E n \in 0 .. Len(batch) : log' = log \o SubSeq(batch, 1, n)
        PROVE  OvertakeInv'
    <2>1. CASE log' = log
      BY <1>0, <1>3, <2>1, OwedShrinks
    <2>2. CASE \E e \in direct : log' = Append(log, e)
      <3>1. PICK e \in direct : log' = Append(log, e)
        BY <2>2
      <3>2. e \in Numbers /\ log \in Seq(Numbers)
        BY <1>0 DEF TypeOK
      <3>3. /\ \A i \in DOMAIN log : i \in DOMAIN log' /\ log'[i] = log[i]
            /\ \A i \in DOMAIN log' \ DOMAIN log : log'[i] \in Waits \cup direct
        BY <3>1, <3>2, LogAppended
      <3> QED
        BY <1>0, <1>3, <3>3, OwedShrinks
    <2>3. CASE \E n \in 0 .. Len(batch) : log' = log \o SubSeq(batch, 1, n)
      <3>1. log \in Seq(Numbers) /\ batch \in Seq(Numbers)
        BY <1>0 DEF TypeOK
      <3>2. /\ \A i \in DOMAIN log : i \in DOMAIN log' /\ log'[i] = log[i]
            /\ \A i \in DOMAIN log' \ DOMAIN log : log'[i] \in Waits \cup direct
        BY <2>3, <3>1, LogConcatenated DEF Waits
      <3> QED
        BY <1>0, <1>3, <3>2, OwedShrinks
    <2> QED
      BY <1>3, <2>1, <2>2, <2>3
  <1>4. ASSUME NEW e \in 1 .. MaxEvents, InsertOne(e) PROVE OvertakeInv'
    <2>1. Waits' = Waits
      BY <1>4 DEF InsertOne, Waits
    <2> QED
      BY <1>3, <1>4, <2>1 DEF InsertOne
  <1>5. CASE Receive
    <2>1. /\ buf \in Seq(Numbers) /\ buf # <<>> /\ batch \in Seq(Numbers)
          /\ batch' = Append(batch, Head(buf)) /\ buf' = Tail(buf)
          /\ UNCHANGED <<emitted, direct, overflow, log>>
      BY <1>0, <1>5 DEF Receive, TypeOK
    <2>2. Head(buf) \in Numbers /\ (Head(buf) \in ToSet(buf))
      <3>1. Len(buf) \in Nat \ {0} /\ DOMAIN buf = 1 .. Len(buf) /\ Head(buf) = buf[1]
        BY <2>1, LenProperties, EmptySeq
      <3> QED
        BY <2>1, <3>1, ElementOfSeq DEF ToSet
    <2>3. ToSet(Tail(buf)) \subseteq ToSet(buf)
      <3>1. /\ Tail(buf) \in Seq(Numbers) /\ Len(Tail(buf)) = Len(buf) - 1
            /\ \A i \in 1 .. Len(Tail(buf)) : Tail(buf)[i] = buf[i + 1]
        BY <2>1, HeadTailProperties
      <3>2. /\ DOMAIN Tail(buf) = 1 .. Len(Tail(buf)) /\ DOMAIN buf = 1 .. Len(buf)
            /\ Len(buf) \in Nat
        BY <2>1, <3>1, LenProperties
      <3>3. \A i \in 1 .. Len(Tail(buf)) : i + 1 \in DOMAIN buf
        BY <3>1, <3>2
      <3> QED
        BY <3>1, <3>2, <3>3 DEF ToSet
    <2>4. ToSet(batch') = ToSet(batch) \cup {Head(buf)}
      BY <2>1, <2>2, LogAppended
    <2>5. Waits' \subseteq Waits
      BY <2>1, <2>2, <2>3, <2>4 DEF Waits
    <2> QED
      BY <1>3, <2>1, <2>5
  <1>6. CASE InsertMany
    <2>1. batch' = <<>> /\ UNCHANGED <<emitted, buf, direct, overflow>>
      BY <1>6 DEF InsertMany
    <2>2. Waits' \subseteq Waits
      BY <1>1, <2>1 DEF Waits
    <2>3. \E n \in 0 .. Len(batch) : log' = log \o SubSeq(batch, 1, n)
      <3>1. Len(batch) \in Nat /\ SubSeq(batch, 1, Len(batch)) = batch
        BY <1>0, LenProperties, SubSeqFull DEF TypeOK
      <3>2. \A n \in 0 .. Len(batch) - 1 : n \in 0 .. Len(batch)
        BY <3>1
      <3>3. log' = log \o batch \/ \E n \in 0 .. Len(batch) - 1 : log' = log \o SubSeq(batch, 1, n)
        BY <1>6 DEF InsertMany
      <3>4. Len(batch) \in 0 .. Len(batch)
        BY <3>1
      <3> QED
        BY <3>1, <3>2, <3>3, <3>4
    <2> QED
      BY <1>3, <2>1, <2>2, <2>3
  <1>7. CASE Exit
    <2>1. Waits' \subseteq Waits
      BY <1>1, <1>7 DEF Exit, Waits
    <2> QED
      BY <1>3, <1>7, <2>1 DEF Exit
  <1>8. CASE UNCHANGED <<emitted, buf, batch, direct, overflow, log>>
    <2>1. Waits' = Waits
      BY <1>8 DEF Waits
    <2> QED
      BY <1>3, <1>8, <2>1
  <1> QED
    BY <1>2, <1>4, <1>5, <1>6, <1>7, <1>8
       DEF Next, Worker, TimerFires, ChannelEnds, Close, vars

\* What is counted behind position i is owed to it, each event once.
LEMMA OvertakersOwed ==
  ASSUME TypeOK, WrittenOnce, OvertakeInv
  PROVE  OvertakesBounded
  <1> SUFFICES ASSUME NEW i \in DOMAIN log, log[i] \in overflow
               PROVE  Cardinality({j \in DOMAIN log :
                                     i < j /\ log[j] < log[i] /\ log[j] \notin overflow})
                        <= Buffer + BatchSize
    BY DEF OvertakesBounded
  <1> DEFINE S == {j \in DOMAIN log : i < j /\ log[j] < log[i] /\ log[j] \notin overflow}
             f == [j \in S |-> log[j]]
  <1>1. \A j \in S : log[j] \in Owed(i)
    <2>1. \A j \in DOMAIN log : log[j] \in Numbers
      BY ElementOfSeq, LenProperties DEF TypeOK
    <2> QED
      BY <2>1 DEF Owed
  <1>2. \A j, k \in S : log[j] = log[k] => j = k
    BY DEF WrittenOnce, IsInjective
  <1>3. IsFiniteSet(Owed(i))
    <2>1. IsFiniteSet(Numbers)
      BY FS_Interval, BoundAssumption DEF Numbers
    <2>2. Owed(i) \in SUBSET Numbers
      BY DEF Owed
    <2> QED
      BY <2>1, <2>2, FS_Subset
  <1> HIDE DEF S
  <1>4. f \in [S -> Owed(i)] /\ IsInjective(f)
    BY <1>1, <1>2 DEF IsInjective
  <1>5. f \in Injection(S, Owed(i))
    BY <1>4 DEF Injection
  <1> HIDE DEF f
  <1>6. IsFiniteSet(S) /\ Cardinality(S) <= Cardinality(Owed(i))
    BY <1>3, <1>5, FS_Injection
  <1>7. /\ Cardinality(S) \in Nat /\ Cardinality(Owed(i)) \in Nat
        /\ Cardinality(Owed(i)) <= Buffer + BatchSize
    BY <1>3, <1>6, FS_CardinalityType DEF OvertakeInv
  <1>8. Cardinality(S) <= Buffer + BatchSize
    BY <1>6, <1>7, BufferAssumption
  <1> QED
    BY <1>8 DEF S

(* An event its caller wrote overtakes at most a channel and a batch of    *)
(* events, whatever was lost or written since it was emitted.              *)
THEOREM EmitterOvertakes == Spec => []OvertakesBounded
  <1>1. Init => OvertakeInv
    BY DEF Init, OvertakeInv, Waits, ToSet
  <1>2. OvertakeInv /\ EmitterInv /\ EmitterInv' /\ Accounted /\ [Next]_vars => OvertakeInv'
    BY OvertakeStep
  <1>3. EmitterInv /\ WrittenOnce /\ OvertakeInv => OvertakesBounded
    BY OvertakersOwed DEF EmitterInv
  <1> QED
    BY <1>1, <1>2, <1>3, EmitterStarts, EmitterStep, EmitterAccounts, EmitterWritesOnce,
       PTL DEF Spec
=============================================================================
