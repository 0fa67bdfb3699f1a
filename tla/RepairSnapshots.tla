--------------------------- MODULE RepairSnapshots ---------------------------
(***************************************************************************)
(* repair snapshots: repair_snapshots and repair_tree of                   *)
(* src/crates/core/src/commands/repair/snapshots.rs.                       *)
(*                                                                         *)
(* For each snapshot, repair_tree walks the tree depth-first.  A tree the *)
(* index cannot load becomes an empty tree (Changed::This); a file loses  *)
(* the content blobs the index lacks (and gets the suffix) and its size  *)
(* is recomputed; a directory takes its repaired subtree (and the suffix *)
(* if the subtree was lost).  A changed tree is serialized and given to   *)
(* the tree packer unless the index has it.  Results are memoized across  *)
(* snapshots in RepairState: unchanged trees in seen, changed ones in     *)
(* replaced.  A snapshot whose tree changed below the root is saved with  *)
(* the new tree, the repair tag and original set; a snapshot whose root   *)
(* is lost, and the old version of a repaired one, are removed at the end *)
(* with --delete, after the packer and indexer are finalized.  A run may  *)
(* stop at any step and repair may be run again.                          *)
(*                                                                         *)
(* Trees are content-addressed, so a tree's id is the tree value: a       *)
(* sequence of nodes [type, name, content, size, subtree].  Names are     *)
(* sequences, the suffix is appended.  Every data blob has length 1.      *)
(***************************************************************************)
EXTENDS Naturals, Sequences, SequencesExt, FiniteSets

CONSTANTS
    Data,        \* data blob ids
    AllTrees,    \* the trees of the repository before any repair
    InitSnaps,   \* the snapshot files before any repair: [id, tree, original, tagged]
    Suffix,      \* RepairSnapshotsOptions::suffix
    PackTarget,  \* trees at which the packer writes a pack
    MaxRuns,     \* repair runs
    MaxCrashes,  \* runs that stop early
    None

VARIABLES
    snaps,       \* the snapshot files of the repository
    idxTrees,    \* the trees the index files list
    idxData,     \* the data blobs the index files list
    nextId,      \* the id the next saved snapshot file gets
    opts,        \* [delete, dryRun] of the current run
    pc,          \* "idle", "snaps" (the loop), "delete"
    idx0,        \* repo.index(): the trees listed when the run began
    todo,        \* snapshots the loop has not processed
    rs,          \* RepairState: [replaced, seen, delete]
    buf,         \* trees in the packer's open pack
    pending,     \* trees in packs written but not yet indexed
    runs,        \* repair runs started
    crashes,     \* runs stopped early
    cleanStart,  \* ghost: this run began after a completed --delete run
    lastDone,    \* ghost: the last run completed with --delete, not dry
    wrote        \* ghost: this run saved or removed a snapshot file

vars == <<snaps, idxTrees, idxData, nextId, opts, pc, idx0, todo, rs, buf,
          pending, runs, crashes, cleanStart, lastDone, wrote>>

EmptyTree == <<>>
EmptyState == [replaced |-> {}, seen |-> {}, delete |-> {}, adds |-> {}]

\* The tree a changed tree becomes: serialized, added to the packer unless
\* the index has it (or in a dry run), recorded in replaced.
SaveTree(tree, c, id, st) ==
    [c |-> c, id |-> tree,
     st |-> [st EXCEPT
               !.adds = IF tree \in idx0 \/ opts.dryRun THEN @ ELSE @ \cup {tree},
               !.replaced = IF id = None THEN @
                            ELSE @ \cup {[from |-> id, c |-> c, to |-> tree]}]]

RECURSIVE RepairTree(_, _), RepairNodesKeepSize(_, _, _, _, _), RepairNodes(_, _, _, _, _)

\* repair_tree(id): the result [c, id, st] with the RepairState threaded.
RepairTree(id, st) ==
    IF id = None THEN SaveTree(EmptyTree, "This", None, st)
    ELSE IF id \in st.seen THEN [c |-> "None", id |-> id, st |-> st]
    ELSE IF \E r \in st.replaced : r.from = id
    THEN LET r == CHOOSE r \in st.replaced : r.from = id
         IN [c |-> r.c, id |-> r.to, st |-> st]
    ELSE LET loaded == id \in idx0
             r == RepairNodes(IF loaded THEN id ELSE EmptyTree, 1, <<>>,
                              IF loaded THEN "None" ELSE "This", st)
         IN IF r.c = "None"
            THEN [c |-> "None", id |-> id, st |-> [r.st EXCEPT !.seen = @ \cup {id}]]
            ELSE SaveTree(r.nodes, r.c, id, r.st)

\* Mutant: a file's size is left as it was after its content is repaired.
RepairNodesKeepSize(nodes, k, acc, c, st) ==
    IF k > Len(nodes) THEN [nodes |-> acc, c |-> c, st |-> st]
    ELSE LET n == nodes[k] IN
      CASE n.type = "file" ->
             LET kept == SelectSeq(n.content, LAMBDA b : b \in idxData)
                 lost == Len(kept) # Len(n.content)
                 n2 == [n EXCEPT !.name = IF lost THEN Append(@, Suffix) ELSE @,
                                 !.content = kept]
             IN RepairNodes(nodes, k + 1, Append(acc, n2),
                            IF lost \/ Len(kept) # n.size THEN "SubTree" ELSE c, st)
        [] n.type = "dir" ->
             LET r == RepairTree(n.subtree, st)
                 n2 == CASE r.c = "None" -> n
                         [] r.c = "This" -> [n EXCEPT !.subtree = r.id,
                                                      !.name = Append(@, Suffix)]
                         [] OTHER -> [n EXCEPT !.subtree = r.id]
             IN RepairNodes(nodes, k + 1, Append(acc, n2),
                            IF r.c = "None" THEN c ELSE "SubTree", r.st)
        [] OTHER -> RepairNodes(nodes, k + 1, Append(acc, n), c, st)

\* The loop over the nodes of a loaded tree, building new_tree.
RepairNodes(nodes, k, acc, c, st) ==
    IF k > Len(nodes) THEN [nodes |-> acc, c |-> c, st |-> st]
    ELSE LET n == nodes[k] IN
      CASE n.type = "file" ->
             LET kept == SelectSeq(n.content, LAMBDA b : b \in idxData)
                 lost == Len(kept) # Len(n.content)
                 n2 == [n EXCEPT !.name = IF lost THEN Append(@, Suffix) ELSE @,
                                 !.content = kept, !.size = Len(kept)]
             IN RepairNodes(nodes, k + 1, Append(acc, n2),
                            IF lost \/ Len(kept) # n.size THEN "SubTree" ELSE c, st)
        [] n.type = "dir" ->
             LET r == RepairTree(n.subtree, st)
                 n2 == CASE r.c = "None" -> n
                         [] r.c = "This" -> [n EXCEPT !.subtree = r.id,
                                                      !.name = Append(@, Suffix)]
                         [] OTHER -> [n EXCEPT !.subtree = r.id]
             IN RepairNodes(nodes, k + 1, Append(acc, n2),
                            IF r.c = "None" THEN c ELSE "SubTree", r.st)
        [] OTHER -> RepairNodes(nodes, k + 1, Append(acc, n), c, st)

Init ==
    /\ idxTrees \in SUBSET AllTrees
    /\ idxData \in SUBSET Data
    /\ snaps = InitSnaps
    /\ nextId = Cardinality(InitSnaps) + 1
    /\ opts = [delete |-> FALSE, dryRun |-> FALSE]
    /\ pc = "idle"
    /\ idx0 = {}
    /\ todo = {}
    /\ rs = EmptyState
    /\ buf = {}
    /\ pending = {}
    /\ runs = 0
    /\ crashes = 0
    /\ cleanStart = FALSE
    /\ lastDone = FALSE
    /\ wrote = FALSE

\* repair_snapshots is called with the repository's snapshots, the index
\* loaded, a fresh RepairState, indexer and tree packer.
Start ==
    /\ pc = "idle"
    /\ runs < MaxRuns
    /\ opts' \in [delete : BOOLEAN, dryRun : BOOLEAN]
    /\ idx0' = idxTrees
    /\ todo' = snaps
    /\ rs' = EmptyState
    /\ pc' = "snaps"
    /\ runs' = runs + 1
    /\ cleanStart' = lastDone
    /\ lastDone' = FALSE
    /\ wrote' = FALSE
    /\ UNCHANGED <<snaps, idxTrees, idxData, nextId, buf, pending, crashes>>

\* One iteration of the loop over the snapshots: repair_tree of its root,
\* then by the result: nothing, mark it for deletion, or save the modified
\* snapshot (not in a dry run) and mark the old one for deletion.
Process(s) ==
    /\ pc = "snaps"
    /\ s \in todo
    /\ LET r == RepairTree(s.tree, rs)
           save == r.c = "SubTree" /\ ~opts.dryRun
           new == [s EXCEPT !.id = nextId, !.tree = r.id, !.tagged = TRUE,
                            !.original = IF @ = None THEN s.id ELSE @]
       IN /\ rs' = [r.st EXCEPT !.adds = {},
                                !.delete = IF r.c = "None" THEN @ ELSE @ \cup {s.id}]
          /\ buf' = buf \cup r.st.adds
          /\ snaps' = IF save THEN snaps \cup {new} ELSE snaps
          /\ nextId' = IF save THEN nextId + 1 ELSE nextId
          /\ wrote' = (wrote \/ save)
    /\ todo' = todo \ {s}
    /\ UNCHANGED <<idxTrees, idxData, opts, pc, idx0, pending, runs, crashes,
                   cleanStart, lastDone>>

\* The packer's writer stores a full pack; it is indexed at finalize.
PackerWrite ==
    /\ pc = "snaps"
    /\ Cardinality(buf) >= PackTarget
    /\ pending' = pending \cup buf
    /\ buf' = {}
    /\ UNCHANGED <<snaps, idxTrees, idxData, nextId, opts, pc, idx0, todo, rs,
                   runs, crashes, cleanStart, lastDone, wrote>>

\* Mutant: the indexer's finalize only indexes the packer's last pack.
FinalizeOpenOnly ==
    /\ pc = "snaps"
    /\ todo = {}
    /\ idxTrees' = IF opts.dryRun THEN idxTrees ELSE idxTrees \cup buf
    /\ buf' = {}
    /\ pending' = {}
    /\ pc' = "delete"
    /\ UNCHANGED <<snaps, idxData, nextId, opts, idx0, todo, rs, runs, crashes,
                   cleanStart, lastDone, wrote>>

\* After the loop, unless in a dry run: packer.finalize, then the
\* indexer's finalize writes the index file of the run's packs.
Finalize ==
    /\ pc = "snaps"
    /\ todo = {}
    /\ idxTrees' = IF opts.dryRun THEN idxTrees ELSE idxTrees \cup pending \cup buf
    /\ buf' = {}
    /\ pending' = {}
    /\ pc' = "delete"
    /\ UNCHANGED <<snaps, idxData, nextId, opts, idx0, todo, rs, runs, crashes,
                   cleanStart, lastDone, wrote>>

\* With --delete and not in a dry run, delete_list removes the snapshots
\* in state.delete.
Delete ==
    /\ pc = "delete"
    /\ IF opts.delete /\ ~opts.dryRun
       THEN /\ snaps' = {x \in snaps : x.id \notin rs.delete}
            /\ wrote' = (wrote \/ rs.delete # {})
       ELSE UNCHANGED <<snaps, wrote>>
    /\ pc' = "idle"
    /\ lastDone' = (opts.delete /\ ~opts.dryRun)
    /\ UNCHANGED <<idxTrees, idxData, nextId, opts, idx0, todo, rs, buf, pending,
                   runs, crashes, cleanStart>>

\* The run stops at any step: saved snapshot files and indexed packs stay,
\* the packer's and indexer's packs are lost, and delete_list may have
\* removed some of its snapshots.
Stop ==
    /\ pc # "idle"
    /\ crashes < MaxCrashes
    /\ \E gone \in SUBSET rs.delete :
          snaps' = IF pc = "delete" /\ opts.delete /\ ~opts.dryRun
                   THEN {x \in snaps : x.id \notin gone} ELSE snaps
    /\ buf' = {}
    /\ pending' = {}
    /\ pc' = "idle"
    /\ crashes' = crashes + 1
    /\ UNCHANGED <<idxTrees, idxData, nextId, opts, idx0, todo, rs, runs,
                   cleanStart, lastDone, wrote>>

Next ==
    \/ Start
    \/ \E s \in todo : Process(s)
    \/ PackerWrite
    \/ Finalize
    \/ Delete
    \/ Stop

Spec == Init /\ [][Next]_vars

-----------------------------------------------------------------------------
\* A tree is sound if the index lists it, every file's content is indexed
\* and its size is the length of its content, and every subtree is sound.
RECURSIVE Sound(_)
Sound(t) ==
    /\ t \in idxTrees
    /\ \A k \in 1..Len(t) :
          /\ t[k].type = "file" =>
                Range(t[k].content) \subseteq idxData /\ t[k].size = Len(t[k].content)
          /\ t[k].type = "dir" => t[k].subtree # None /\ Sound(t[k].subtree)

\* After a repair with --delete completes, every snapshot in the
\* repository is sound, even if an earlier run stopped after saving a
\* repaired snapshot whose new trees were never indexed (that snapshot's
\* root cannot be loaded, so it is removed): the save of each snapshot
\* before the packer and indexer are finalized is repaired by a rerun.
RepairedSound ==
    pc = "idle" /\ lastDone => \A s \in snaps : Sound(s.tree)

\* A repair run right after a completed repair with --delete saves and
\* removes nothing: the repaired trees, with suffixed names and recomputed
\* sizes, are found unchanged.
RepairIdempotent ==
    cleanStart => ~wrote

=============================================================================
