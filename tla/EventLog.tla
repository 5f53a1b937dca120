------------------------------ MODULE EventLog ------------------------------
(***************************************************************************)
(* What the audit log promises to those who emit events: a queue of bounded*)
(* length from whose head events are written in the order they were        *)
(* emitted, past which an event may be handed to its caller to write, and  *)
(* from which nothing disappears without being written or counted as lost. *)
(* There is no channel here, no batch, no timer and no worker: Emitter     *)
(* implements this module, with the batch and the channel as the queue.    *)
(***************************************************************************)
EXTENDS Integers, Sequences, SequencesExt, SequenceTheorems, TLAPS

CONSTANT Capacity   \* how many events may wait

VARIABLES
  emitted,   \* number of events emitted so far
  waiting,   \* the events that wait to be written, oldest first
  direct,    \* events their callers are writing themselves
  log,       \* the events collection
  lost       \* events that will never be written

vars == <<emitted, waiting, direct, log, lost>>

Init ==
  /\ emitted = 0
  /\ waiting = <<>> /\ direct = {}
  /\ log = <<>> /\ lost = {}

\* An event is taken: into the queue, or back to its caller.
Emit ==
  /\ emitted' = emitted + 1
  /\ \/ /\ Len(waiting) < Capacity
        /\ waiting' = Append(waiting, emitted')
        /\ UNCHANGED direct
     \/ direct' = direct \cup {emitted'} /\ UNCHANGED waiting
  /\ UNCHANGED <<log, lost>>

\* The caller's own write succeeds or fails.
WriteDirect(e) ==
  /\ e \in direct
  /\ direct' = direct \ {e}
  /\ \/ log' = Append(log, e) /\ UNCHANGED lost
     \/ lost' = lost \cup {e} /\ UNCHANGED log
  /\ UNCHANGED <<emitted, waiting>>

\* The first m events leave the queue; n of them are written, in order, and
\* the others are lost.
Write(n, m) ==
  /\ log' = log \o SubSeq(waiting, 1, n)
  /\ lost' = lost \cup {waiting[i] : i \in n + 1 .. m}
  /\ waiting' = SubSeq(waiting, m + 1, Len(waiting))
  /\ UNCHANGED <<emitted, direct>>

\* Everything that waits is lost.
Exit ==
  /\ lost' = lost \cup ToSet(waiting) \cup direct
  /\ waiting' = <<>> /\ direct' = {}
  /\ UNCHANGED <<emitted, log>>

Next ==
  \/ Emit
  \/ \E e \in direct : WriteDirect(e)
  \/ \E m \in 1 .. Len(waiting) : \E n \in 0 .. m : Write(n, m)
  \/ Exit

Spec == Init /\ [][Next]_vars
-----------------------------------------------------------------------------
(* What follows, for a queue of any capacity.                              *)

TypeOK ==
  /\ emitted \in Nat
  /\ waiting \in Seq(Nat) /\ log \in Seq(Nat)
  /\ direct \subseteq Nat /\ lost \subseteq Nat

\* Every event is in one place: the log, the queue, its caller's hands, or
\* gone for good.
Accounted == 1 .. emitted = ToSet(log) \cup lost \cup ToSet(waiting) \cup direct

Apart ==
  /\ IsInjective(log) /\ IsInjective(waiting)
  /\ ToSet(log) \cap lost = {} /\ ToSet(log) \cap ToSet(waiting) = {}
  /\ ToSet(log) \cap direct = {} /\ lost \cap ToSet(waiting) = {}
  /\ lost \cap direct = {} /\ ToSet(waiting) \cap direct = {}

QueueInv == TypeOK /\ Accounted /\ Apart

(* The elements of a sequence that grew by one. *)
LEMMA AppendElements ==
  ASSUME NEW s \in Seq(Nat), NEW e \in Nat
  PROVE  /\ Append(s, e) \in Seq(Nat)
         /\ ToSet(Append(s, e)) = ToSet(s) \cup {e}
         /\ IsInjective(s) /\ e \notin ToSet(s) => IsInjective(Append(s, e))
  <1>1. /\ Append(s, e) \in Seq(Nat) /\ Len(s) \in Nat
        /\ DOMAIN s = 1 .. Len(s)
        /\ DOMAIN Append(s, e) = 1 .. Len(s) + 1
        /\ \A i \in 1 .. Len(s) : Append(s, e)[i] = s[i]
        /\ Append(s, e)[Len(s) + 1] = e
    BY AppendProperties, LenProperties
  <1> QED
    BY <1>1 DEF ToSet, IsInjective

(* The elements of the two ends of a sequence. *)
LEMMA SplitElements ==
  ASSUME NEW s \in Seq(Nat), NEW m \in 0 .. Len(s), NEW n \in 0 .. m
  PROVE  /\ SubSeq(s, 1, n) \in Seq(Nat)
         /\ SubSeq(s, m + 1, Len(s)) \in Seq(Nat)
         /\ ToSet(SubSeq(s, 1, n)) = {s[i] : i \in 1 .. n}
         /\ ToSet(SubSeq(s, m + 1, Len(s))) = {s[i] : i \in m + 1 .. Len(s)}
         /\ ToSet(s) = {s[i] : i \in 1 .. n} \cup {s[i] : i \in n + 1 .. m}
                         \cup {s[i] : i \in m + 1 .. Len(s)}
         /\ IsInjective(s) => /\ IsInjective(SubSeq(s, 1, n))
                              /\ IsInjective(SubSeq(s, m + 1, Len(s)))
  <1>1. Len(s) \in Nat /\ DOMAIN s = 1 .. Len(s) /\ \A i \in 1 .. Len(s) : s[i] \in Nat
    BY LenProperties, ElementOfSeq
  <1>2. /\ SubSeq(s, 1, n) \in Seq(Nat) /\ Len(SubSeq(s, 1, n)) = n
        /\ \A i \in 1 .. n : SubSeq(s, 1, n)[i] = s[i]
    BY <1>1, SubSeqProperties
  <1>3. /\ SubSeq(s, m + 1, Len(s)) \in Seq(Nat)
        /\ Len(SubSeq(s, m + 1, Len(s))) = Len(s) - m
        /\ \A i \in 1 .. Len(s) - m : SubSeq(s, m + 1, Len(s))[i] = s[m + i]
    <2> DEFINE k == m + 1
    <2>1. k \in Int /\ Len(s) \in Int /\ \A i \in k .. Len(s) : s[i] \in Nat
      BY <1>1
    <2>2. /\ SubSeq(s, k, Len(s)) \in Seq(Nat)
          /\ Len(SubSeq(s, k, Len(s))) = IF k <= Len(s) THEN Len(s) - k + 1 ELSE 0
          /\ \A i \in 1 .. Len(s) - k + 1 : SubSeq(s, k, Len(s))[i] = s[k + i - 1]
      BY <2>1, SubSeqProperties
    <2>3. ASSUME NEW i \in 1 .. Len(s) - m
          PROVE  i \in 1 .. Len(s) - k + 1 /\ k + i - 1 = m + i
      BY <1>1
    <2>4. /\ Len(s) - k + 1 = Len(s) - m
          /\ k <= Len(s) \/ Len(s) - m = 0
      <3>1. m \in Int /\ Len(s) \in Int /\ m <= Len(s)
        BY <1>1
      <3>2. k <= Len(s) \/ m = Len(s)
        BY <3>1
      <3> QED
        BY <3>1, <3>2
    <2> HIDE DEF k
    <2>5. ASSUME NEW i \in 1 .. Len(s) - m PROVE SubSeq(s, k, Len(s))[i] = s[m + i]
      <3>1. i \in 1 .. Len(s) - k + 1 /\ k + i - 1 = m + i
        BY <2>3
      <3>2. SubSeq(s, k, Len(s))[i] = s[k + i - 1]
        BY <2>2, <3>1, Zenon
      <3> QED
        BY <3>1, <3>2
    <2>6. Len(SubSeq(s, k, Len(s))) = Len(s) - m
      <3>1. CASE k <= Len(s)
        BY <2>2, <2>4, <3>1, Zenon
      <3>2. CASE ~ k <= Len(s)
        BY <2>2, <2>4, <3>2, Zenon
      <3> QED
        BY <3>1, <3>2
    <2> USE DEF k
    <2> QED
      BY <2>2, <2>5, <2>6
  <1>4. /\ DOMAIN SubSeq(s, 1, n) = 1 .. n
        /\ DOMAIN SubSeq(s, m + 1, Len(s)) = 1 .. Len(s) - m
    BY <1>2, <1>3, LenProperties
  <1>5. ToSet(SubSeq(s, 1, n)) = {s[i] : i \in 1 .. n}
    BY <1>2, <1>4 DEF ToSet
  <1>6. ToSet(SubSeq(s, m + 1, Len(s))) = {s[i] : i \in m + 1 .. Len(s)}
    <2>1. \A i \in m + 1 .. Len(s) : i - m \in 1 .. Len(s) - m /\ m + (i - m) = i
      BY <1>1
    <2>2. \A i \in 1 .. Len(s) - m : m + i \in m + 1 .. Len(s)
      BY <1>1
    <2> DEFINE tail == SubSeq(s, m + 1, Len(s))
    <2>3. \A i \in DOMAIN tail : \E j \in m + 1 .. Len(s) : tail[i] = s[j]
      BY <1>3, <1>4, <2>2, Zenon
    <2>4. ASSUME NEW j \in m + 1 .. Len(s)
          PROVE  \E i \in DOMAIN tail : s[j] = tail[i]
      <3>1. j - m \in DOMAIN tail /\ m + (j - m) = j
        BY <1>4, <2>1, Zenon
      <3>2. tail[j - m] = s[m + (j - m)]
        BY <1>3, <1>4, <3>1, Zenon
      <3> QED
        BY <3>1, <3>2, Zenon
    <2> HIDE DEF tail
    <2>5. ToSet(tail) = {s[i] : i \in m + 1 .. Len(s)}
      <3>1. ToSet(tail) \subseteq {s[i] : i \in m + 1 .. Len(s)}
        BY <2>3 DEF ToSet
      <3>2. {s[i] : i \in m + 1 .. Len(s)} \subseteq ToSet(tail)
        BY <2>4 DEF ToSet
      <3> QED
        BY <3>1, <3>2
    <2> QED
      BY <2>5 DEF tail
  <1>7. 1 .. Len(s) = 1 .. n \cup n + 1 .. m \cup m + 1 .. Len(s)
    BY <1>1
  <1>8. IsInjective(s) => IsInjective(SubSeq(s, 1, n))
    BY <1>1, <1>2, <1>4 DEF IsInjective
  <1>9. IsInjective(s) => IsInjective(SubSeq(s, m + 1, Len(s)))
    <2> SUFFICES ASSUME IsInjective(s),
                        NEW i \in 1 .. Len(s) - m, NEW j \in 1 .. Len(s) - m,
                        s[m + i] = s[m + j]
                 PROVE  i = j
      BY <1>3, <1>4 DEF IsInjective
    <2>1. m + i \in DOMAIN s /\ m + j \in DOMAIN s
      BY <1>1
    <2> QED
      BY <2>1 DEF IsInjective
  <1> QED
    BY <1>1, <1>2, <1>3, <1>5, <1>6, <1>7, <1>8, <1>9 DEF ToSet

(* The elements of two sequences put together. *)
LEMMA ConcatElements ==
  ASSUME NEW s \in Seq(Nat), NEW t \in Seq(Nat)
  PROVE  /\ s \o t \in Seq(Nat)
         /\ ToSet(s \o t) = ToSet(s) \cup ToSet(t)
         /\ IsInjective(s) /\ IsInjective(t) /\ ToSet(s) \cap ToSet(t) = {}
              => IsInjective(s \o t)
  <1>1. /\ Len(s) \in Nat /\ Len(t) \in Nat
        /\ DOMAIN s = 1 .. Len(s) /\ DOMAIN t = 1 .. Len(t)
    BY LenProperties
  <1>2. /\ s \o t \in Seq(Nat) /\ DOMAIN (s \o t) = 1 .. Len(s) + Len(t)
        /\ \A i \in 1 .. Len(s) : (s \o t)[i] = s[i]
        /\ \A i \in Len(s) + 1 .. Len(s) + Len(t) : (s \o t)[i] = t[i - Len(s)]
    BY <1>1, ConcatProperties, LenProperties
  <1>3. /\ \A i \in 1 .. Len(t) : Len(s) + i \in Len(s) + 1 .. Len(s) + Len(t)
                                    /\ (Len(s) + i) - Len(s) = i
        /\ \A i \in Len(s) + 1 .. Len(s) + Len(t) : i - Len(s) \in 1 .. Len(t)
        /\ 1 .. Len(s) + Len(t) = 1 .. Len(s) \cup Len(s) + 1 .. Len(s) + Len(t)
    BY <1>1
  <1>4. ToSet(s \o t) = ToSet(s) \cup ToSet(t)
    <2>1. \A i \in DOMAIN (s \o t) : (s \o t)[i] \in ToSet(s) \cup ToSet(t)
      BY <1>1, <1>2, <1>3 DEF ToSet
    <2>2. \A i \in DOMAIN s : s[i] \in ToSet(s \o t)
      BY <1>1, <1>2, <1>3 DEF ToSet
    <2>3. \A i \in DOMAIN t : t[i] \in ToSet(s \o t)
      <3> SUFFICES ASSUME NEW i \in 1 .. Len(t) PROVE t[i] \in ToSet(s \o t)
        BY <1>1
      <3>1. Len(s) + i \in DOMAIN (s \o t) /\ (s \o t)[Len(s) + i] = t[i]
        BY <1>1, <1>2, <1>3
      <3> QED
        BY <3>1 DEF ToSet
    <2> QED
      BY <2>1, <2>2, <2>3, Zenon DEF ToSet
  <1>5. ASSUME IsInjective(s), IsInjective(t), ToSet(s) \cap ToSet(t) = {},
               NEW i \in 1 .. Len(s) + Len(t), NEW j \in 1 .. Len(s) + Len(t),
               (s \o t)[i] = (s \o t)[j]
        PROVE  i = j
    <2>1. CASE i \in 1 .. Len(s) /\ j \in 1 .. Len(s)
      BY <1>1, <1>2, <1>5, <2>1 DEF IsInjective
    <2>2. CASE i \in Len(s) + 1 .. Len(s) + Len(t) /\ j \in Len(s) + 1 .. Len(s) + Len(t)
      <3>1. i - Len(s) = j - Len(s)
        BY <1>1, <1>2, <1>3, <1>5, <2>2 DEF IsInjective
      <3> QED
        BY <1>1, <3>1
    <2>3. \A a \in 1 .. Len(s), b \in Len(s) + 1 .. Len(s) + Len(t) :
            (s \o t)[a] # (s \o t)[b]
      <3> SUFFICES ASSUME NEW a \in 1 .. Len(s), NEW b \in Len(s) + 1 .. Len(s) + Len(t)
                   PROVE  (s \o t)[a] # (s \o t)[b]
        OBVIOUS
      <3>1. (s \o t)[a] \in ToSet(s)
        BY <1>1, <1>2 DEF ToSet
      <3>2. (s \o t)[b] \in ToSet(t)
        BY <1>1, <1>2, <1>3 DEF ToSet
      <3> QED
        BY <1>5, <3>1, <3>2
    <2> QED
      BY <1>3, <1>5, <2>1, <2>2, <2>3
  <1> QED
    BY <1>2, <1>4, <1>5 DEF IsInjective

(* Every step keeps an event in one place. *)
LEMMA QueueStep == QueueInv /\ [Next]_vars => QueueInv'
  <1> SUFFICES ASSUME QueueInv, [Next]_vars PROVE QueueInv'
    OBVIOUS
  <1> USE DEF QueueInv, TypeOK, Accounted, Apart
  <1>1. CASE Emit
    <2>1. emitted' \in Nat /\ 1 .. emitted' = 1 .. emitted \cup {emitted'}
          /\ emitted' \notin 1 .. emitted
      BY <1>1 DEF Emit
    <2>2. CASE waiting' = Append(waiting, emitted') /\ UNCHANGED direct
      <3>1. /\ waiting' \in Seq(Nat) /\ ToSet(waiting') = ToSet(waiting) \cup {emitted'}
            /\ IsInjective(waiting')
        BY <2>1, <2>2, AppendElements
      <3> QED
        BY <1>1, <2>1, <2>2, <3>1 DEF Emit
    <2>3. CASE direct' = direct \cup {emitted'} /\ UNCHANGED waiting
      BY <1>1, <2>1, <2>3 DEF Emit
    <2> QED
      BY <1>1, <2>2, <2>3 DEF Emit
  <1>2. ASSUME NEW e \in direct, WriteDirect(e) PROVE QueueInv'
    <2>1. CASE log' = Append(log, e) /\ UNCHANGED lost
      <3>1. /\ log' \in Seq(Nat) /\ ToSet(log') = ToSet(log) \cup {e} /\ IsInjective(log')
        BY <2>1, AppendElements
      <3> QED
        BY <1>2, <2>1, <3>1 DEF WriteDirect
    <2>2. CASE lost' = lost \cup {e} /\ UNCHANGED log
      BY <1>2, <2>2 DEF WriteDirect
    <2> QED
      BY <1>2, <2>1, <2>2 DEF WriteDirect
  <1>3. ASSUME NEW m \in 1 .. Len(waiting), NEW n \in 0 .. m, Write(n, m) PROVE QueueInv'
    <2> DEFINE first == {waiting[i] : i \in 1 .. n}
               gone == {waiting[i] : i \in n + 1 .. m}
               rest == {waiting[i] : i \in m + 1 .. Len(waiting)}
    <2>1. m \in 0 .. Len(waiting) /\ Len(waiting) \in Nat /\ DOMAIN waiting = 1 .. Len(waiting)
      BY LenProperties
    <2>2. /\ SubSeq(waiting, 1, n) \in Seq(Nat) /\ ToSet(SubSeq(waiting, 1, n)) = first
          /\ waiting' \in Seq(Nat) /\ ToSet(waiting') = rest /\ IsInjective(waiting')
          /\ IsInjective(SubSeq(waiting, 1, n))
          /\ ToSet(waiting) = first \cup gone \cup rest
      BY <1>3, <2>1, SplitElements DEF Write
    <2>3. first \cap gone = {} /\ first \cap rest = {} /\ gone \cap rest = {}
      <3>1. \A i, j \in 1 .. Len(waiting) : waiting[i] = waiting[j] => i = j
        BY <2>1 DEF IsInjective
      <3>2. /\ \A i \in 1 .. n : i \in 1 .. Len(waiting) /\ i \notin n + 1 .. m
                                   /\ i \notin m + 1 .. Len(waiting)
            /\ \A i \in n + 1 .. m : i \in 1 .. Len(waiting)
                                       /\ i \notin m + 1 .. Len(waiting)
            /\ \A i \in m + 1 .. Len(waiting) : i \in 1 .. Len(waiting)
        BY <2>1
      <3>3. ASSUME NEW x, x \in first, x \in gone PROVE FALSE
        <4>1. PICK i \in 1 .. n : x = waiting[i]
          BY <3>3
        <4>2. PICK j \in n + 1 .. m : x = waiting[j]
          BY <3>3
        <4> QED
          BY <3>1, <3>2, <4>1, <4>2
      <3>4. ASSUME NEW x, x \in first, x \in rest PROVE FALSE
        <4>1. PICK i \in 1 .. n : x = waiting[i]
          BY <3>4
        <4>2. PICK j \in m + 1 .. Len(waiting) : x = waiting[j]
          BY <3>4
        <4> QED
          BY <3>1, <3>2, <4>1, <4>2
      <3>5. ASSUME NEW x, x \in gone, x \in rest PROVE FALSE
        <4>1. PICK i \in n + 1 .. m : x = waiting[i]
          BY <3>5
        <4>2. PICK j \in m + 1 .. Len(waiting) : x = waiting[j]
          BY <3>5
        <4> QED
          BY <3>1, <3>2, <4>1, <4>2
      <3> HIDE DEF first, gone, rest
      <3> QED
        BY <3>3, <3>4, <3>5
    <2> HIDE DEF first, gone, rest
    <2>4. /\ log' \in Seq(Nat) /\ ToSet(log') = ToSet(log) \cup first /\ IsInjective(log')
      BY <1>3, <2>2, ConcatElements DEF Write
    <2>5. lost' = lost \cup gone
      BY <1>3 DEF Write, gone
    <2>6. gone \subseteq Nat
      BY <2>1, ElementOfSeq DEF gone
    <2> QED
      BY <1>3, <2>2, <2>3, <2>4, <2>5, <2>6 DEF Write
  <1>4. CASE Exit
    <2>1. waiting' = <<>> /\ ToSet(waiting') = {} /\ IsInjective(waiting')
      BY <1>4 DEF Exit, ToSet, IsInjective
    <2>2. ToSet(waiting) \subseteq Nat
      BY ElementOfSeq, LenProperties DEF ToSet
    <2> QED
      BY <1>4, <2>1, <2>2 DEF Exit
  <1>5. CASE UNCHANGED vars
    BY <1>5 DEF vars
  <1> QED
    BY <1>1, <1>2, <1>3, <1>4, <1>5 DEF Next

(* No event is in two places, or in none: what such a queue implies for    *)
(* whoever implements it.                                                  *)
THEOREM QueueKeepsAccount == Spec => []QueueInv
  <1>1. Init => QueueInv
    BY DEF Init, QueueInv, TypeOK, Accounted, Apart, ToSet, IsInjective
  <1> QED
    BY <1>1, QueueStep, PTL DEF Spec
=============================================================================
