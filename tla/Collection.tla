----------------------------- MODULE Collection -----------------------------
(***************************************************************************)
(* A MongoDB collection as internal/models uses one: the documents in      *)
(* natural (insertion) order, addressed by the application's own "id"      *)
(* field.  internal/db creates no unique index on that field, so nothing   *)
(* here keeps two documents from having the same id; the single-document   *)
(* calls act on the first match.  The server is external to src/.          *)
(***************************************************************************)
EXTENDS Integers, Sequences, SequencesExt

\* Some document of coll has this id.
Found(coll, id) == \E i \in DOMAIN coll : coll[i].id = id

\* Position of the first document with this id (there must be one).
FirstIndex(coll, id) ==
  CHOOSE i \in DOMAIN coll :
    /\ coll[i].id = id
    /\ \A j \in 1 .. i - 1 : coll[j].id # id

\* FindOne({id}): the document itself; callers check Found first.
FindOne(coll, id) == coll[FirstIndex(coll, id)]

\* InsertOne: a new document goes last, whatever its id.
InsertOne(coll, doc) == Append(coll, doc)

\* ReplaceOne({id: doc.id}, doc) without upsert: no match is not an error.
ReplaceOne(coll, doc) ==
  IF Found(coll, doc.id)
    THEN ReplaceAt(coll, FirstIndex(coll, doc.id), doc)
    ELSE coll

\* DeleteOne({id}): the first match only; no match is not an error.
DeleteOne(coll, id) ==
  IF Found(coll, id) THEN RemoveAt(coll, FirstIndex(coll, id)) ELSE coll
=============================================================================
