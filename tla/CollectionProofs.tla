-------------------------- MODULE CollectionProofs --------------------------
(***************************************************************************)
(* What the calls of Collection return, preserve and change, for every     *)
(* sequence of documents.                                                  *)
(***************************************************************************)
EXTENDS Collection, SequenceTheorems, NaturalsInduction, WellFoundedInduction, TLAPS

\* A nonempty set of naturals has a least element.
LEMMA LeastNat ==
  ASSUME NEW T, T \subseteq Nat, T # {}
  PROVE  \E x \in T : \A y \in T : x <= y
<1>1. \E x \in T : \A y \in T : ~(<<y, x>> \in OpToRel(<, Nat))
  BY WFMin, NatLessThanWellFounded, Zenon
<1>2. PICK x \in T : \A y \in T : ~(<<y, x>> \in OpToRel(<, Nat))
  BY <1>1
<1>3. ASSUME NEW y \in T
      PROVE  x <= y
  <2>1. ~(y < x)
    BY <1>2, <1>3, Zenon DEF OpToRel
  <2>2. QED
    BY <2>1
<1>4. QED
  BY <1>3

\* What FirstIndex returns when there is a match.
LEMMA FirstIndexFact ==
  ASSUME NEW S, NEW coll \in Seq(S), NEW id, Found(coll, id)
  PROVE  /\ FirstIndex(coll, id) \in 1 .. Len(coll)
         /\ coll[FirstIndex(coll, id)].id = id
         /\ \A j \in 1 .. FirstIndex(coll, id) - 1 : coll[j].id # id
<1> DEFINE T == {i \in 1 .. Len(coll) : coll[i].id = id}
<1>1. T \subseteq Nat /\ T # {}
  BY DEF Found
<1>2. PICK x \in T : \A y \in T : x <= y
  BY <1>1, LeastNat
<1>3. \A j \in 1 .. x - 1 : coll[j].id # id
  BY <1>2
<1>4. \E i \in DOMAIN coll : /\ coll[i].id = id
                             /\ \A j \in 1 .. i - 1 : coll[j].id # id
  BY <1>2, <1>3
<1>5. /\ FirstIndex(coll, id) \in DOMAIN coll
      /\ coll[FirstIndex(coll, id)].id = id
      /\ \A j \in 1 .. FirstIndex(coll, id) - 1 : coll[j].id # id
  BY <1>4, Zenon DEF FirstIndex
<1>6. QED
  BY <1>5

\* FindOne returns a document of the collection.
LEMMA FindOneFact ==
  ASSUME NEW S, NEW coll \in Seq(S), NEW id, Found(coll, id)
  PROVE  FindOne(coll, id) \in S /\ FindOne(coll, id).id = id
  BY FirstIndexFact DEF FindOne

\* Replacing keeps the length and changes at most one place, which has the
\* same id before and after.
LEMMA ReplaceOneFact ==
  ASSUME NEW S, NEW coll \in Seq(S), NEW doc \in S
  PROVE  /\ ReplaceOne(coll, doc) \in Seq(S)
         /\ Len(ReplaceOne(coll, doc)) = Len(coll)
         /\ \A i \in 1 .. Len(coll) :
              /\ ReplaceOne(coll, doc)[i].id = coll[i].id
              /\ ReplaceOne(coll, doc)[i] \in {coll[i], doc}
<1>1. CASE Found(coll, doc.id)
  <2>1. /\ FirstIndex(coll, doc.id) \in 1 .. Len(coll)
        /\ coll[FirstIndex(coll, doc.id)].id = doc.id
    BY <1>1, FirstIndexFact
  <2>2. ReplaceOne(coll, doc) = [coll EXCEPT ![FirstIndex(coll, doc.id)] = doc]
    BY <1>1 DEF ReplaceOne, ReplaceAt
  <2>3. QED
    BY <2>1, <2>2
<1>2. CASE ~Found(coll, doc.id)
  BY <1>2 DEF ReplaceOne
<1>3. QED
  BY <1>1, <1>2

\* The same, place by place over the domain.
LEMMA ReplaceOneShape ==
  ASSUME NEW S, NEW coll \in Seq(S), NEW doc \in S
  PROVE  /\ DOMAIN ReplaceOne(coll, doc) = DOMAIN coll
         /\ \A i \in DOMAIN coll :
              /\ ReplaceOne(coll, doc)[i].id = coll[i].id
              /\ ReplaceOne(coll, doc)[i] \in {coll[i], doc}
<1> DEFINE new == ReplaceOne(coll, doc)
<1>1. /\ new \in Seq(S) /\ Len(new) = Len(coll)
      /\ \A i \in 1 .. Len(coll) : new[i].id = coll[i].id /\ new[i] \in {coll[i], doc}
  BY ReplaceOneFact
<1> HIDE DEF new
<1>2. DOMAIN new = 1 .. Len(coll) /\ DOMAIN coll = 1 .. Len(coll)
  BY <1>1
<1>3. QED
  BY <1>1, <1>2 DEF new

\* Removing one place of a sequence.
LEMMA RemoveAtFact ==
  ASSUME NEW S, NEW coll \in Seq(S), NEW n \in 1 .. Len(coll)
  PROVE  /\ RemoveAt(coll, n) \in Seq(S)
         /\ Len(RemoveAt(coll, n)) = Len(coll) - 1
         /\ \A i \in 1 .. Len(coll) - 1 :
              RemoveAt(coll, n)[i] = IF i < n THEN coll[i] ELSE coll[i + 1]
<1> DEFINE lft == SubSeq(coll, 1, n - 1)
           rgt == SubSeq(coll, n + 1, Len(coll))
<1>1. /\ lft \in Seq(S) /\ Len(lft) = n - 1
      /\ \A i \in 1 .. n - 1 : lft[i] = coll[i]
  BY SubSeqProperties
<1>2. /\ rgt \in Seq(S) /\ Len(rgt) = Len(coll) - n
      /\ \A i \in 1 .. Len(coll) - n : rgt[i] = coll[n + i]
  BY SubSeqProperties
<1>3. RemoveAt(coll, n) = lft \o rgt
  BY DEF RemoveAt
<1> HIDE DEF lft, rgt
<1>4. /\ lft \o rgt \in Seq(S)
      /\ Len(lft \o rgt) = Len(lft) + Len(rgt)
      /\ \A i \in 1 .. Len(lft) + Len(rgt) :
           (lft \o rgt)[i] = IF i <= Len(lft) THEN lft[i] ELSE rgt[i - Len(lft)]
  BY <1>1, <1>2, ConcatProperties
<1>5. ASSUME NEW i \in 1 .. Len(coll) - 1
      PROVE  (lft \o rgt)[i] = IF i < n THEN coll[i] ELSE coll[i + 1]
  <2>1. (lft \o rgt)[i] = IF i <= n - 1 THEN lft[i] ELSE rgt[i - (n - 1)]
    BY <1>1, <1>2, <1>4
  <2>2. CASE i < n
    <3>1. i <= n - 1 /\ i \in 1 .. n - 1
      BY <2>2
    <3>2. QED
      BY <1>1, <2>1, <2>2, <3>1
  <2>3. CASE ~(i < n)
    <3>1. i - (n - 1) \in 1 .. Len(coll) - n /\ ~(i <= n - 1)
      BY <2>3
    <3>2. rgt[i - (n - 1)] = coll[n + (i - (n - 1))]
      BY <3>1, <1>2
    <3>3. n + (i - (n - 1)) = i + 1
      OBVIOUS
    <3>4. QED
      BY <2>1, <2>3, <3>1, <3>2, <3>3
  <2>4. QED
    BY <2>2, <2>3
<1>6. QED
  BY <1>1, <1>2, <1>3, <1>4, <1>5

\* Deleting drops one document with the id and nothing else.
LEMMA DeleteOneFact ==
  ASSUME NEW S, NEW coll \in Seq(S), NEW id
  PROVE  /\ DeleteOne(coll, id) \in Seq(S)
         /\ \A j \in DOMAIN DeleteOne(coll, id) :
              \E i \in DOMAIN coll : DeleteOne(coll, id)[j] = coll[i]
         /\ \A j \in DOMAIN coll :
              coll[j].id # id =>
                \E i \in DOMAIN DeleteOne(coll, id) : DeleteOne(coll, id)[i] = coll[j]
<1>1. CASE Found(coll, id)
  <2> DEFINE n == FirstIndex(coll, id)
  <2>1. n \in 1 .. Len(coll) /\ coll[n].id = id
    BY <1>1, FirstIndexFact
  <2>2. DeleteOne(coll, id) = RemoveAt(coll, n)
    BY <1>1 DEF DeleteOne
  <2> HIDE DEF n
  <2>3. /\ RemoveAt(coll, n) \in Seq(S)
        /\ Len(RemoveAt(coll, n)) = Len(coll) - 1
        /\ \A i \in 1 .. Len(coll) - 1 :
             RemoveAt(coll, n)[i] = IF i < n THEN coll[i] ELSE coll[i + 1]
    BY <2>1, RemoveAtFact
  <2>4. ASSUME NEW j \in 1 .. Len(coll) - 1
        PROVE  \E i \in DOMAIN coll : RemoveAt(coll, n)[j] = coll[i]
    <3>1. CASE j < n
      BY <2>3, <3>1
    <3>2. CASE ~(j < n)
      <4>1. j + 1 \in DOMAIN coll
        OBVIOUS
      <4>2. RemoveAt(coll, n)[j] = coll[j + 1]
        BY <2>3, <3>2
      <4>3. QED
        BY <4>1, <4>2
    <3>3. QED
      BY <3>1, <3>2
  <2>5. ASSUME NEW j \in DOMAIN coll, coll[j].id # id
        PROVE  \E i \in 1 .. Len(coll) - 1 : RemoveAt(coll, n)[i] = coll[j]
    <3>1. CASE j < n
      BY <2>1, <2>3, <3>1
    <3>2. CASE j > n
      <4>1. j - 1 \in 1 .. Len(coll) - 1
        BY <2>1, <3>2
      <4>2. RemoveAt(coll, n)[j - 1] = coll[(j - 1) + 1]
        BY <2>1, <2>3, <3>2, <4>1
      <4>3. (j - 1) + 1 = j
        OBVIOUS
      <4>4. QED
        BY <4>1, <4>2, <4>3
    <3>3. j # n
      BY <2>1, <2>5
    <3>4. QED
      BY <2>1, <3>1, <3>2, <3>3
  <2>6. DOMAIN RemoveAt(coll, n) = 1 .. Len(coll) - 1
    BY <2>3
  <2>7. QED
    BY <2>2, <2>3, <2>4, <2>5, <2>6
<1>2. CASE ~Found(coll, id)
  BY <1>2 DEF DeleteOne
<1>3. QED
  BY <1>1, <1>2

\* No two documents of coll have one id.
UniqueIds(coll) == \A i, j \in DOMAIN coll : coll[i].id = coll[j].id => i = j

\* The three writes and uniqueness: inserting an id that is absent keeps it,
\* and so do replacing and deleting; deleting the only match leaves none.
LEMMA InsertOneUnique ==
  ASSUME NEW S, NEW coll \in Seq(S), NEW doc \in S,
         UniqueIds(coll), ~Found(coll, doc.id)
  PROVE  UniqueIds(InsertOne(coll, doc))
  BY DEF UniqueIds, Found, InsertOne

LEMMA ReplaceOneUnique ==
  ASSUME NEW S, NEW coll \in Seq(S), NEW doc \in S, UniqueIds(coll)
  PROVE  UniqueIds(ReplaceOne(coll, doc))
<1> DEFINE new == ReplaceOne(coll, doc)
<1>1. /\ new \in Seq(S) /\ Len(new) = Len(coll)
      /\ \A i \in 1 .. Len(coll) : new[i].id = coll[i].id
  BY ReplaceOneFact
<1> HIDE DEF new
<1>2. DOMAIN new = 1 .. Len(coll) /\ DOMAIN coll = 1 .. Len(coll)
  BY <1>1
<1>3. UniqueIds(new)
  BY <1>1, <1>2 DEF UniqueIds
<1>4. QED
  BY <1>3 DEF new

LEMMA DeleteOneUnique ==
  ASSUME NEW S, NEW coll \in Seq(S), NEW id, UniqueIds(coll)
  PROVE  UniqueIds(DeleteOne(coll, id)) /\ ~Found(DeleteOne(coll, id), id)
<1>1. CASE Found(coll, id)
  <2> DEFINE n == FirstIndex(coll, id)
  <2>1. n \in 1 .. Len(coll) /\ coll[n].id = id
    BY <1>1, FirstIndexFact
  <2>2. DeleteOne(coll, id) = RemoveAt(coll, n)
    BY <1>1 DEF DeleteOne
  <2> HIDE DEF n
  <2> DEFINE new == RemoveAt(coll, n)
             old(i) == IF i < n THEN i ELSE i + 1
  <2>3. /\ new \in Seq(S)
        /\ Len(new) = Len(coll) - 1
        /\ \A i \in 1 .. Len(coll) - 1 :
             new[i] = IF i < n THEN coll[i] ELSE coll[i + 1]
    BY <2>1, RemoveAtFact
  <2> HIDE DEF new
  <2>4. \A i \in 1 .. Len(coll) - 1 : new[i] = coll[old(i)]
    BY <2>3
  <2>5. \A i \in 1 .. Len(coll) - 1 : old(i) \in 1 .. Len(coll) /\ old(i) # n
    BY <2>1
  <2>6. \A i, j \in 1 .. Len(coll) - 1 : old(i) = old(j) => i = j
    BY <2>1
  <2> HIDE DEF old
  <2>7. DOMAIN new = 1 .. Len(coll) - 1
    BY <2>3
  <2>8. UniqueIds(new)
    BY <2>4, <2>5, <2>6, <2>7 DEF UniqueIds
  <2>9. ~Found(new, id)
    BY <2>1, <2>4, <2>5, <2>7 DEF UniqueIds, Found
  <2>10. QED
    BY <2>2, <2>8, <2>9 DEF new
<1>2. CASE ~Found(coll, id)
  BY <1>2 DEF DeleteOne
<1>3. QED
  BY <1>1, <1>2

\* A document appended changes nothing for an id that was found before.
LEMMA InsertFinds ==
  ASSUME NEW S, NEW coll \in Seq(S), NEW doc \in S, NEW id
  PROVE  /\ Found(InsertOne(coll, doc), id) <=> Found(coll, id) \/ doc.id = id
         /\ Found(coll, id) => FindOne(InsertOne(coll, doc), id) = FindOne(coll, id)
<1> DEFINE new == InsertOne(coll, doc)
<1>1. /\ new \in Seq(S) /\ DOMAIN new = 1 .. Len(coll) + 1
      /\ DOMAIN coll = 1 .. Len(coll) /\ Len(coll) \in Nat
      /\ new[Len(coll) + 1] = doc
      /\ \A i \in 1 .. Len(coll) : new[i] = coll[i]
  BY DEF InsertOne
<1>2. Found(new, id) <=> Found(coll, id) \/ doc.id = id
  <2>1. ASSUME Found(coll, id) PROVE Found(new, id)
    <3>1. PICK i \in 1 .. Len(coll) : coll[i].id = id
      BY <1>1, <2>1 DEF Found
    <3> QED
      BY <1>1, <3>1 DEF Found
  <2>2. ASSUME doc.id = id PROVE Found(new, id)
    <3>1. Len(coll) + 1 \in DOMAIN new
      BY <1>1
    <3> QED
      BY <1>1, <2>2, <3>1 DEF Found
  <2>3. ASSUME Found(new, id), doc.id # id PROVE Found(coll, id)
    <3>1. PICK i \in 1 .. Len(coll) + 1 : new[i].id = id
      BY <1>1, <2>3 DEF Found
    <3>2. i \in 1 .. Len(coll)
      BY <1>1, <2>3, <3>1
    <3> QED
      BY <1>1, <3>1, <3>2 DEF Found
  <2> QED
    BY <2>1, <2>2, <2>3
<1>3. ASSUME Found(coll, id) PROVE FindOne(new, id) = FindOne(coll, id)
  <2> DEFINE n == FirstIndex(coll, id)
             m == FirstIndex(new, id)
  <2>1. n \in 1 .. Len(coll) /\ coll[n].id = id /\ \A j \in 1 .. n - 1 : coll[j].id # id
    BY <1>3, FirstIndexFact
  <2>2. m \in 1 .. Len(coll) + 1 /\ new[m].id = id /\ \A j \in 1 .. m - 1 : new[j].id # id
    BY <1>1, <1>2, <1>3, FirstIndexFact
  <2>3. n <= m
    <3> SUFFICES ASSUME m < n PROVE FALSE
      BY <2>1, <2>2
    <3>1. m \in 1 .. n - 1 /\ m \in 1 .. Len(coll)
      BY <2>1, <2>2
    <3> QED
      BY <1>1, <2>1, <2>2, <3>1
  <2>4. m <= n
    <3> SUFFICES ASSUME n < m PROVE FALSE
      BY <2>1, <2>2
    <3>1. n \in 1 .. m - 1
      BY <2>1, <2>2
    <3> QED
      BY <1>1, <2>1, <2>2, <3>1
  <2>5. n = m
    BY <2>1, <2>2, <2>3, <2>4
  <2> QED
    BY <1>1, <2>1, <2>5 DEF FindOne
<1> QED
  BY <1>2, <1>3

\* The first match is the only position with no match before it.
LEMMA FirstIndexIs ==
  ASSUME NEW S, NEW coll \in Seq(S), NEW id, NEW n \in 1 .. Len(coll),
         coll[n].id = id, \A j \in 1 .. n - 1 : coll[j].id # id
  PROVE  Found(coll, id) /\ FirstIndex(coll, id) = n
<1> DEFINE m == FirstIndex(coll, id)
<1>1. DOMAIN coll = 1 .. Len(coll) /\ Len(coll) \in Nat
  OBVIOUS
<1>2. Found(coll, id)
  BY <1>1 DEF Found
<1>3. m \in 1 .. Len(coll) /\ coll[m].id = id /\ \A j \in 1 .. m - 1 : coll[j].id # id
  BY <1>2, FirstIndexFact
<1> HIDE DEF m
<1>4. ~(m < n) /\ ~(n < m)
  BY <1>1, <1>3
<1>5. m = n
  BY <1>1, <1>3, <1>4
<1> QED
  BY <1>2, <1>5 DEF m

\* A replacement is found under its id; other ids find what they found.
LEMMA ReplaceFinds ==
  ASSUME NEW S, NEW coll \in Seq(S), NEW doc \in S, NEW id
  PROVE  /\ Found(ReplaceOne(coll, doc), id) <=> Found(coll, id)
         /\ Found(coll, id) => FindOne(ReplaceOne(coll, doc), id)
                                 = IF id = doc.id THEN doc ELSE FindOne(coll, id)
<1> DEFINE new == ReplaceOne(coll, doc)
<1>1. /\ new \in Seq(S) /\ Len(new) = Len(coll)
      /\ \A i \in 1 .. Len(coll) : new[i].id = coll[i].id /\ new[i] \in {coll[i], doc}
  BY ReplaceOneFact
<1>2. ASSUME Found(coll, doc.id) PROVE new[FirstIndex(coll, doc.id)] = doc
  <2>1. FirstIndex(coll, doc.id) \in 1 .. Len(coll)
    BY <1>2, FirstIndexFact
  <2> QED
    BY <1>2, <2>1 DEF ReplaceOne, ReplaceAt
<1> HIDE DEF new
<1>3. DOMAIN new = 1 .. Len(coll) /\ DOMAIN coll = 1 .. Len(coll)
  BY <1>1
<1>4. Found(new, id) <=> Found(coll, id)
  BY <1>1, <1>3 DEF Found
<1>5. ASSUME Found(coll, id)
      PROVE  FindOne(new, id) = IF id = doc.id THEN doc ELSE FindOne(coll, id)
  <2> DEFINE n == FirstIndex(coll, id)
  <2>1. n \in 1 .. Len(coll) /\ coll[n].id = id /\ \A j \in 1 .. n - 1 : coll[j].id # id
    BY <1>5, FirstIndexFact
  <2> HIDE DEF n
  <2>2. new[n].id = id /\ \A j \in 1 .. n - 1 : new[j].id # id
    BY <1>1, <2>1
  <2>3. n \in 1 .. Len(new)
    BY <1>1, <2>1
  <2>4. FirstIndex(new, id) = n
    BY <1>1, <2>2, <2>3, FirstIndexIs
  <2>5. id # doc.id => new[n] = coll[n]
    BY <1>1, <2>1, <2>2
  <2>6. id = doc.id => new[n] = doc
    BY <1>2, <1>5 DEF n
  <2> QED
    BY <2>4, <2>5, <2>6 DEF FindOne, n
<1> QED
  BY <1>4, <1>5 DEF new

\* Where ids are unique, every document is the one found under its id.
LEMMA UniqueFinds ==
  ASSUME NEW S, NEW coll \in Seq(S), UniqueIds(coll), NEW i \in DOMAIN coll
  PROVE  Found(coll, coll[i].id) /\ FindOne(coll, coll[i].id) = coll[i]
<1>1. Found(coll, coll[i].id)
  BY DEF Found
<1>2. FirstIndex(coll, coll[i].id) \in DOMAIN coll
      /\ coll[FirstIndex(coll, coll[i].id)].id = coll[i].id
  BY <1>1, FirstIndexFact
<1> QED
  BY <1>1, <1>2 DEF UniqueIds, FindOne

\* A delete leaves what is found under other ids.
LEMMA DeleteFinds ==
  ASSUME NEW S, NEW coll \in Seq(S), UniqueIds(coll), NEW id, NEW other, other # id
  PROVE  /\ Found(DeleteOne(coll, id), other) <=> Found(coll, other)
         /\ Found(coll, other) => FindOne(DeleteOne(coll, id), other) = FindOne(coll, other)
<1> DEFINE new == DeleteOne(coll, id)
<1>1. /\ new \in Seq(S)
      /\ \A j \in DOMAIN new : \E i \in DOMAIN coll : new[j] = coll[i]
      /\ \A j \in DOMAIN coll : coll[j].id # id => \E i \in DOMAIN new : new[i] = coll[j]
  BY DeleteOneFact
<1>2. UniqueIds(new)
  BY DeleteOneUnique
<1> HIDE DEF new
<1>3. Found(new, other) <=> Found(coll, other)
  BY <1>1 DEF Found
<1>4. ASSUME Found(coll, other) PROVE FindOne(new, other) = FindOne(coll, other)
  <2>1. PICK j \in DOMAIN coll : coll[j].id = other
    BY <1>4 DEF Found
  <2>2. PICK i \in DOMAIN new : new[i] = coll[j]
    BY <1>1, <2>1
  <2>3. FindOne(coll, other) = coll[j]
    BY <2>1, UniqueFinds
  <2>4. FindOne(new, other) = new[i]
    BY <1>1, <1>2, <2>1, <2>2, UniqueFinds
  <2> QED
    BY <2>2, <2>3, <2>4
<1> QED
  BY <1>3, <1>4 DEF new

\* A document appended under a new id is the one found under that id.
LEMMA InsertFindsNew ==
  ASSUME NEW S, NEW coll \in Seq(S), NEW doc \in S,
         UniqueIds(coll), ~Found(coll, doc.id)
  PROVE  Found(InsertOne(coll, doc), doc.id) /\ FindOne(InsertOne(coll, doc), doc.id) = doc
<1> DEFINE new == InsertOne(coll, doc)
<1>1. new \in Seq(S) /\ Len(coll) + 1 \in DOMAIN new /\ new[Len(coll) + 1] = doc
  BY DEF InsertOne
<1>2. UniqueIds(new)
  BY InsertOneUnique
<1> HIDE DEF new
<1>3. Found(new, doc.id) /\ FindOne(new, doc.id) = doc
  BY <1>1, <1>2, UniqueFinds
<1> QED
  BY <1>3 DEF new
=============================================================================
