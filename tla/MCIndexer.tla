------------------------------ MODULE MCIndexer ------------------------------
(***************************************************************************)
(* The Indexer as used by its callers (copy, repair, the repackers of      *)
(* prune): several threads share it behind one RwLock, each add is one     *)
(* step under the write lock, and finalize runs once every thread is done. *)
(* The packs the threads add and whether each is added live or for        *)
(* deletion are the inputs.                                                *)
(***************************************************************************)
EXTENDS Indexer

CONSTANTS
    Pack,        \* pack ids the threads add
    Blob,        \* blob ids
    BlobsOf,     \* blobs of each pack
    StartIndexed \* TRUE: Indexer::new, FALSE: Indexer::new_unindexed

VARIABLES
    toAdd,       \* packs the threads still have to add
    added,       \* ghost: [entry, delete] pairs added so far
    finalized    \* finalize() has run

vars == <<ixVars, toAdd, added, finalized>>

Entry(p) == [id |-> p, blobs |-> BlobsOf[p]]

Init ==
    /\ IsNew(StartIndexed)
    /\ indexFiles = {}
    /\ nextIndexId = 0
    /\ toAdd = Pack
    /\ added = {}
    /\ finalized = FALSE

\* A thread adds one of its packs, live or as a pack to delete.
ThreadAdd(p, delete) ==
    /\ p \in toAdd
    /\ AddWith(Entry(p), delete)
    /\ toAdd' = toAdd \ {p}
    /\ added' = added \cup {[entry |-> Entry(p), delete |-> delete]}
    /\ UNCHANGED finalized

\* The caller finalizes once all threads have joined.
CallerFinalize ==
    /\ toAdd = {}
    /\ ~finalized
    /\ Finalize
    /\ finalized' = TRUE
    /\ UNCHANGED <<toAdd, added>>

Next ==
    \/ \E p \in Pack, d \in BOOLEAN : ThreadAdd(p, d)
    \/ CallerFinalize

Spec == Init /\ [][Next]_vars

MCPack == 1..3
MCBlob == {"b1", "b2"}
\* Inputs of the cfg: p1 holds two blobs, p2 and p3 one each, b1 in two packs.
MCBlobsOf == [p \in Pack |-> IF p = 1 THEN {"b1", "b2"} ELSE IF p = 2 THEN {"b1"} ELSE {"b2"}]

-----------------------------------------------------------------------------
Side(f, delete) == IF delete THEN f.del ELSE f.packs

TypeOK ==
    /\ ixFile \in [packs : SUBSET [id : Pack, blobs : SUBSET Blob],
                   del : SUBSET [id : Pack, blobs : SUBSET Blob]]
    /\ ixCount \in 0..MaxCount
    /\ ixIndexed \in SUBSET Blob \cup {None}
    /\ toAdd \subseteq Pack
    /\ finalized \in BOOLEAN

\* Every pack a thread added ends up in exactly one index file: before
\* finalize it is either still in the in-memory file or in one saved file;
\* after finalize it is in exactly one saved file.  Catches a save that does
\* not reset the in-memory file (packs indexed twice) or a reset that drops
\* packs that were never saved.
AddedIndexedOnce ==
    \A a \in added :
        LET saved == Cardinality({f \in indexFiles : a.entry \in Side(f, a.delete)})
            held  == IF a.entry \in Side(ixFile, a.delete) THEN 1 ELSE 0
        IN IF finalized THEN saved = 1 ELSE saved + held = 1

=============================================================================
