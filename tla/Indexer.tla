------------------------------- MODULE Indexer -------------------------------
(***************************************************************************)
(* The Indexer of src/crates/core/src/index/indexer.rs.                    *)
(*                                                                         *)
(* It buffers IndexPacks in an in-memory IndexFile, either as live packs   *)
(* (add) or as packs marked for deletion (add_remove), counts their blobs  *)
(* and, when the count reaches MAX_COUNT or the file is older than        *)
(* MAX_AGE, saves the file to the backend and starts a new one.  finalize *)
(* saves what is left.  In indexed mode it also keeps the cumulative set   *)
(* of blob ids it has seen (has).                                          *)
(*                                                                         *)
(* The operators below are written over the module's variables so that    *)
(* the prune executor can INSTANCE this module with its own variables.    *)
(* The age check reads the wall clock; the model lets it be true or false *)
(* at any add, which is every outcome the clock can produce.              *)
(***************************************************************************)
EXTENDS Naturals, FiniteSets

CONSTANTS
    MaxCount,     \* constants::MAX_COUNT (50 000 in the code)
    MaxIndexId,   \* bound on the ids of saved index files
    None          \* `indexed: None` of new_unindexed

VARIABLES
    ixFile,       \* self.file: [packs, del] of IndexPack entries
    ixCount,      \* self.count: blobs added since the last save
    ixIndexed,    \* self.indexed: set of blob ids, or None
    indexFiles,   \* the index files on the backend
    nextIndexId   \* id the next saved index file gets

ixVars == <<ixFile, ixCount, ixIndexed, indexFiles, nextIndexId>>

EmptyFile == [packs |-> {}, del |-> {}]

\* Indexer::new (indexed) and Indexer::new_unindexed: an empty file, no
\* blobs counted, and an empty set of indexed blobs or none at all.
IsNew(indexed) ==
    /\ ixFile = EmptyFile
    /\ ixCount = 0
    /\ ixIndexed = IF indexed THEN {} ELSE None

\* IndexFile written by save(): the id stands for the hash the backend names
\* it by, a fresh one per write.
SavedFile(f) == [id |-> nextIndexId, packs |-> f.packs, del |-> f.del]

\* save(): write the file only if it holds any pack.
Save(f) ==
    IF f.packs \cup f.del # {}
    THEN /\ nextIndexId < MaxIndexId
         /\ indexFiles' = indexFiles \cup {SavedFile(f)}
         /\ nextIndexId' = nextIndexId + 1
    ELSE UNCHANGED <<indexFiles, nextIndexId>>

\* IndexFile::add: push to packs, or to packs_to_delete when delete is set.
FileAdd(f, entry, delete) ==
    IF delete THEN [f EXCEPT !.del = @ \cup {entry}]
              ELSE [f EXCEPT !.packs = @ \cup {entry}]

\* Mutant: after a save the in-memory file is not reset.
AddWithNoReset(entry, delete) ==
    LET f == FileAdd(ixFile, entry, delete)
        c == ixCount + Cardinality(entry.blobs)
    IN /\ ixIndexed' = IF ixIndexed = None THEN None
                                           ELSE ixIndexed \cup entry.blobs
       /\ \E aged \in BOOLEAN :
            IF c >= MaxCount \/ aged
            THEN /\ Save(f) /\ ixFile' = f /\ ixCount' = 0
            ELSE /\ ixFile' = f /\ ixCount' = c
                 /\ UNCHANGED <<indexFiles, nextIndexId>>

\* Mutant: reset() also clears the membership set.
AddWithClearIndexed(entry, delete) ==
    LET f == FileAdd(ixFile, entry, delete)
        c == ixCount + Cardinality(entry.blobs)
        ix == IF ixIndexed = None THEN None ELSE ixIndexed \cup entry.blobs
    IN \E aged \in BOOLEAN :
            IF c >= MaxCount \/ aged
            THEN /\ Save(f) /\ ixFile' = EmptyFile /\ ixCount' = 0
                 /\ ixIndexed' = IF ix = None THEN None ELSE {}
            ELSE /\ ixFile' = f /\ ixCount' = c /\ ixIndexed' = ix
                 /\ UNCHANGED <<indexFiles, nextIndexId>>

\* Mutant: reset() does not zero the count.
AddWithKeepCount(entry, delete) ==
    LET f == FileAdd(ixFile, entry, delete)
        c == ixCount + Cardinality(entry.blobs)
    IN /\ ixIndexed' = IF ixIndexed = None THEN None
                                           ELSE ixIndexed \cup entry.blobs
       /\ \E aged \in BOOLEAN :
            IF c >= MaxCount \/ aged
            THEN /\ Save(f) /\ ixFile' = EmptyFile /\ ixCount' = c
            ELSE /\ ixFile' = f /\ ixCount' = c
                 /\ UNCHANGED <<indexFiles, nextIndexId>>

\* add_with(pack, delete), including the save-and-reset it may trigger.
AddWith(entry, delete) ==
    LET f == FileAdd(ixFile, entry, delete)
        c == ixCount + Cardinality(entry.blobs)
    IN /\ ixIndexed' = IF ixIndexed = None THEN None
                                           ELSE ixIndexed \cup entry.blobs
       /\ \E aged \in BOOLEAN :
            IF c >= MaxCount \/ aged
            THEN /\ Save(f)
                 /\ ixFile' = EmptyFile          \* reset()
                 /\ ixCount' = 0
            ELSE /\ ixFile' = f
                 /\ ixCount' = c
                 /\ UNCHANGED <<indexFiles, nextIndexId>>

Add(entry) == AddWith(entry, FALSE)
AddRemove(entry) == AddWith(entry, TRUE)

\* finalize() = save(); the in-memory file is left as it is.
Finalize == /\ Save(ixFile)
            /\ UNCHANGED <<ixFile, ixCount, ixIndexed>>

\* has(id)
Has(b) == ixIndexed # None /\ b \in ixIndexed

=============================================================================
