---------------------------- MODULE MemoryIndex ----------------------------
(***************************************************************************)
(* The metadata index of one user's private memory                         *)
(* (oak_private_memory/database/icing.rs): the documents a session sees    *)
(* and the log of mutations that durable storage does not have yet.  A     *)
(* document is [id, name, blob], of which the name may be None; tags,      *)
(* views and timestamps are left out.  The search engine itself is the set *)
(* of its documents, keyed by id.                                          *)
(***************************************************************************)
EXTENDS Naturals, Sequences, SequencesExt

CONSTANT None           \* Option::None

(* MutationOperation.                                                      *)
Entry(op, id, name, blob) == [op |-> op, id |-> id, name |-> name, blob |-> blob]
AddEntry(doc) == Entry("AddMemory", doc.id, doc.name, doc.blob)
RemoveEntry(doc) == Entry("Remove", doc.id, None, doc.blob)
ResetEntry == Entry("Reset", None, None, None)
CreateEntry == Entry("Create", None, None, None)

WithId(db, id) == {d \in db.docs : d.id = id}
WithName(db, name) == {d \in db.docs : d.name = name}

(* IcingMetaDatabase::new and ::import.                                    *)
NewIndex == [docs |-> {}, log |-> <<CreateEntry>>]
Import(docs) == [docs |-> docs, log |-> << >>]

-----------------------------------------------------------------------------
(* delete_memories for one id: records the blob for a deferred delete; an  *)
(* id that is not found is skipped.                                        *)
DeleteMemory(db, id) ==
    [docs |-> db.docs \ WithId(db, id),
     log  |-> db.log \o [i \in 1..(IF WithId(db, id) = {} THEN 0 ELSE 1) |->
                           RemoveEntry(CHOOSE d \in WithId(db, id) : TRUE)]]

DeleteMemories(db, ids) == FoldLeft(DeleteMemory, db, SetToSeq(ids))

(* put_memory_with_views: the engine replaces a document of the same id.   *)
Put(db, doc) ==
    [docs |-> (db.docs \ WithId(db, doc.id)) \cup {doc},
     log  |-> Append(db.log, AddEntry(doc))]

(* add_memory: an existing memory is deleted first, on the record.         *)
AddMemory(db, doc) == Put(DeleteMemory(db, doc.id), doc)

(* Database::reset_memory: deletes every memory, then resets the engine.   *)
ResetIndex(db) == [docs |-> {}, log |-> Append(db.log, ResetEntry)]
ResetMemory(db) == ResetIndex(DeleteMemories(db, {d.id : d \in db.docs}))

PendingBlobDeletes(log) ==
    {log[i].blob : i \in {j \in 1..Len(log) : log[j].op = "Remove"}}

-----------------------------------------------------------------------------
(* A variant used to test the properties: a replayed memory is put into    *)
(* the new index but not recorded again.                                   *)
MutReplayForgets(db, e) ==
    IF e.op = "AddMemory"
    THEN [db EXCEPT !.docs = (@ \ WithId(db, e.id))
                       \cup {[id |-> e.id, name |-> e.name, blob |-> e.blob]}]
    ELSE db

(* One step of import_with_changes.  A memory of the same name, if it is   *)
(* the only one, and one of the same id give way to a replayed memory,     *)
(* off the record; a removal records the blob the new base has for the id. *)
Replay(db, e) ==
    CASE e.op = "Create" -> db
      [] e.op = "AddMemory" ->
           LET same == IF e.name = None THEN {} ELSE WithName(db, e.name)
               kept == IF \E d \in same : same = {d} THEN db.docs \ same
                                                     ELSE db.docs
           IN  Put([db EXCEPT !.docs = kept],
                   [id |-> e.id, name |-> e.name, blob |-> e.blob])
      [] e.op = "Remove" -> DeleteMemory(db, e.id)
      [] e.op = "Reset"  -> ResetIndex(db)

(* import_with_changes: the mutations of a log on top of a new base.       *)
ImportWithChanges(base, log) == FoldLeft(Replay, Import(base), log)
=============================================================================
