-------------------------------- MODULE Copy --------------------------------
(***************************************************************************)
(* Copying snapshots to a destination repository: relevant_snapshots and  *)
(* copy of src/crates/core/src/commands/copy.rs.                           *)
(*                                                                         *)
(* relevant_snapshots collects the destination's snapshot files into a    *)
(* BTreeSet and keeps the source snapshots it does not contain; the set   *)
(* compares SnapshotFiles with their Ord/Eq (snapshotfile.rs), which look *)
(* at the time only.  copy then adds every root tree, and every subtree   *)
(* and data blob of every tree the streamer yields, that the destination  *)
(* index it was given lacks, to the destination's packers; it finalizes   *)
(* both packers and the indexer, and only then saves the snapshots with   *)
(* their ids cleared.  A copy may stop (crash or error) at any step, and  *)
(* copy may be run again.                                                  *)
(*                                                                         *)
(* A snapshot is [time, host, tree, parent]; host stands for the fields   *)
(* of a snapshot's identity besides time and tree.  Trees form a DAG      *)
(* given by Subtrees and Contents.                                         *)
(***************************************************************************)
EXTENDS Naturals, Sequences, FiniteSets

CONSTANTS
    Snap,           \* the source snapshots passed to relevant_snapshots
    Tree,           \* tree blob ids
    Data,           \* data blob ids
    Subtrees,       \* tree -> subtree ids of its Dir nodes
    Contents,       \* tree -> data blob ids of its File nodes
    DestSnapChoice, \* the destination's snapshot sets before any copy
    DestBlobChoice, \* the destination's indexed blobs before any copy
    PackTarget,     \* blobs at which the packer writes a pack
    MaxRuns,        \* copy runs
    MaxCrashes,     \* runs that stop early
    None

VARIABLES
    destSnaps,  \* snapshot files of the destination
    packs,      \* packs stored in the destination: a sequence of blob sets
    indexed,    \* indices of the packs the destination's index files list
    pc,         \* "idle", "copy" (blobs being copied), "save"
    idxDest,    \* repo_dest.index(): the blobs it listed when copy began
    relevant,   \* the snapshots relevant_snapshots kept
    rootsTodo,  \* root trees the par_iter over snap_trees has not visited
    treesTodo,  \* trees TreeStreamerOnce has not yielded yet
    buf,        \* packer buffers: blob type -> blobs of the open pack
    pending,    \* packs written and given to the indexer, not yet saved
    runs,       \* copy runs started
    crashes,    \* runs stopped early
    cleanStart, \* ghost: this run began right after a run that completed
    lastDone,   \* ghost: the last run completed
    wrote       \* ghost: this run wrote a pack or a snapshot file

vars == <<destSnaps, packs, indexed, pc, idxDest, relevant, rootsTodo,
          treesTodo, buf, pending, runs, crashes, cleanStart, lastDone, wrote>>

\* The trees reachable from a set of trees, the set included.
RECURSIVE Closure(_)
Closure(S) ==
    LET n == S \cup UNION {Subtrees[t] : t \in S}
    IN IF n = S THEN S ELSE Closure(n)

BlobsOf(s) ==
    Closure({s.tree}) \cup UNION {Contents[t] : t \in Closure({s.tree})}

IndexedBlobs == UNION {packs[k] : k \in indexed}

TypeOf(b) == IF b \in Tree THEN "tree" ELSE "data"

\* SnapshotFile::clear_ids: the id is reset and the parent dropped.
ClearIds(s) == [s EXCEPT !.parent = None]

\* Mutant: snapshots compared field by field, as a derived PartialEq would.
SnapEqAll(a, b) ==
    a = b

\* PartialEq and Ord of SnapshotFile: only the time is compared.
SnapEq(a, b) ==
    a.time = b.time

\* Packer::add for the blobs of one step that the destination index lacks.
AddBlobs(B) ==
    [t \in {"tree", "data"} |-> buf[t] \cup {b \in B \ idxDest : TypeOf(b) = t}]

Init ==
    /\ \E blobs \in DestBlobChoice, snaps \in DestSnapChoice :
          /\ \A s \in snaps : BlobsOf(s) \subseteq blobs
          /\ destSnaps = snaps
          /\ packs = <<blobs>>
    /\ indexed = {1}
    /\ pc = "idle"
    /\ idxDest = {}
    /\ relevant = {}
    /\ rootsTodo = {}
    /\ treesTodo = {}
    /\ buf = [t \in {"tree", "data"} |-> {}]
    /\ pending = {}
    /\ runs = 0
    /\ crashes = 0
    /\ cleanStart = FALSE
    /\ lastDone = FALSE
    /\ wrote = FALSE

\* Mutant: the blobs the destination already has are taken from its pack
\* files instead of its index.
StartFromPacks ==
    /\ pc = "idle"
    /\ runs < MaxRuns
    /\ LET rel == {s \in Snap : ~\E d \in destSnaps : SnapEq(d, s)}
       IN /\ relevant' = rel
          /\ rootsTodo' = {s.tree : s \in rel}
          /\ treesTodo' = Closure({s.tree : s \in rel})
    /\ idxDest' = UNION {packs[k] : k \in DOMAIN packs}
    /\ pc' = "copy"
    /\ runs' = runs + 1
    /\ cleanStart' = lastDone
    /\ wrote' = FALSE
    /\ UNCHANGED <<destSnaps, packs, indexed, buf, pending, crashes, lastDone>>

\* relevant_snapshots, then copy given the destination's index: a source
\* snapshot is skipped if the destination's set contains one equal to it;
\* the streamer will yield every tree reachable from the relevant roots.
Start ==
    /\ pc = "idle"
    /\ runs < MaxRuns
    /\ LET rel == {s \in Snap : ~\E d \in destSnaps : SnapEq(d, s)}
       IN /\ relevant' = rel
          /\ rootsTodo' = {s.tree : s \in rel}
          /\ treesTodo' = Closure({s.tree : s \in rel})
    /\ idxDest' = IndexedBlobs
    /\ pc' = "copy"
    /\ runs' = runs + 1
    /\ cleanStart' = lastDone
    /\ wrote' = FALSE
    /\ UNCHANGED <<destSnaps, packs, indexed, buf, pending, crashes, lastDone>>

\* The par_iter over snap_trees: a root tree the index lacks is added to
\* the tree packer.
CopyRoot(t) ==
    /\ pc = "copy"
    /\ t \in rootsTodo
    /\ buf' = AddBlobs({t})
    /\ rootsTodo' = rootsTodo \ {t}
    /\ UNCHANGED <<destSnaps, packs, indexed, pc, idxDest, relevant, treesTodo,
                   pending, runs, crashes, cleanStart, lastDone, wrote>>

\* A tree the streamer yields, after the roots are done: the content blobs
\* of its File nodes and the subtrees of its Dir nodes that the index lacks
\* go to the packers.
StreamTree(t) ==
    /\ pc = "copy"
    /\ rootsTodo = {}
    /\ t \in treesTodo
    /\ buf' = AddBlobs(Subtrees[t] \cup Contents[t])
    /\ treesTodo' = treesTodo \ {t}
    /\ UNCHANGED <<destSnaps, packs, indexed, pc, idxDest, relevant, rootsTodo,
                   pending, runs, crashes, cleanStart, lastDone, wrote>>

\* The packer's writer: a full pack is stored, then added to the indexer.
PackerWrite(ty) ==
    /\ pc = "copy"
    /\ Cardinality(buf[ty]) >= PackTarget
    /\ packs' = Append(packs, buf[ty])
    /\ pending' = pending \cup {Len(packs) + 1}
    /\ buf' = [buf EXCEPT ![ty] = {}]
    /\ wrote' = TRUE
    /\ UNCHANGED <<destSnaps, indexed, pc, idxDest, relevant, rootsTodo,
                   treesTodo, runs, crashes, cleanStart, lastDone>>

\* data_packer.finalize, tree_packer.finalize, indexer finalize: the open
\* packs are stored and an index file lists every pack of the run.
Finalize ==
    /\ pc = "copy"
    /\ rootsTodo = {} /\ treesTodo = {}
    /\ LET new == SelectSeq(<<buf["data"], buf["tree"]>>, LAMBDA B : B # {})
       IN /\ packs' = packs \o new
          /\ indexed' = indexed \cup pending \cup {Len(packs) + k : k \in 1..Len(new)}
          /\ wrote' = (wrote \/ new # <<>>)
    /\ buf' = [t \in {"tree", "data"} |-> {}]
    /\ pending' = {}
    /\ pc' = "save"
    /\ UNCHANGED <<destSnaps, idxDest, relevant, rootsTodo, treesTodo, runs,
                   crashes, cleanStart, lastDone>>

\* be_dest.save_list of the relevant snapshots, ids cleared.
Save ==
    /\ pc = "save"
    /\ destSnaps' = destSnaps \cup {ClearIds(s) : s \in relevant}
    /\ wrote' = (wrote \/ relevant # {})
    /\ pc' = "idle"
    /\ lastDone' = TRUE
    /\ UNCHANGED <<packs, indexed, idxDest, relevant, rootsTodo, treesTodo,
                   buf, pending, runs, crashes, cleanStart>>

\* The run stops at any step (an error returned by `?` or a crash): what
\* was stored stays, the open packs and the indexer's packs are lost, and
\* save_list, which saves in parallel, may have saved some snapshots.
Stop ==
    /\ pc # "idle"
    /\ crashes < MaxCrashes
    /\ \E saved \in SUBSET relevant :
          destSnaps' = IF pc = "save" THEN destSnaps \cup {ClearIds(s) : s \in saved}
                       ELSE destSnaps
    /\ pc' = "idle"
    /\ buf' = [t \in {"tree", "data"} |-> {}]
    /\ pending' = {}
    /\ crashes' = crashes + 1
    /\ lastDone' = FALSE
    /\ UNCHANGED <<packs, indexed, idxDest, relevant, rootsTodo, treesTodo,
                   runs, cleanStart, wrote>>

Next ==
    \/ Start
    \/ \E t \in rootsTodo : CopyRoot(t)
    \/ \E t \in treesTodo : StreamTree(t)
    \/ \E ty \in {"tree", "data"} : PackerWrite(ty)
    \/ Finalize
    \/ Save
    \/ Stop

Spec == Init /\ [][Next]_vars

-----------------------------------------------------------------------------
\* Every snapshot file in the destination references only blobs that its
\* index lists, whatever step a copy stopped at: copy saves snapshots only
\* after the packers and the indexer are finalized, and a rerun copies
\* what a stopped run stored but never indexed.
SnapshotsIndexed ==
    \A s \in destSnaps : BlobsOf(s) \subseteq IndexedBlobs

\* Spec 8: copying again after a copy completed is a no-op: no pack and no
\* snapshot file is written (the cleared copies are found relevant-free by
\* relevant_snapshots).
CopyIdempotent ==
    cleanStart => ~wrote

\* Spec 4.5: a snapshot is skipped only if the destination holds one with
\* identical time, hostname (and the other identity fields) and tree; so
\* once a copy has completed, every source snapshot is in the destination.
CopyKeepsIdentity ==
    pc = "idle" /\ lastDone =>
        \A s \in Snap : \E d \in destSnaps :
            d.time = s.time /\ d.host = s.host /\ d.tree = s.tree

=============================================================================
