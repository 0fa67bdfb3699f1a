--------------------------- MODULE RestorePrepare ---------------------------
(***************************************************************************)
(* The destination scan of restore: collect_and_prepare with its closures *)
(* process_existing and process_node, src/crates/core/src/commands/       *)
(* restore.rs.                                                             *)
(*                                                                         *)
(* Two streams sorted by Path::cmp are merged: the destination walk and   *)
(* the snapshot's node stream.  An entry only in the destination is       *)
(* additional (removed with --delete), a node only in the snapshot is to  *)
(* restore (a directory is created now, files later), and at an equal     *)
(* path a destination entry of the wrong type is removed first.  The      *)
(* walker sorts and buffers a directory's entries when it yields the      *)
(* directory, so it yields the destination as it was before the scan.    *)
(*                                                                         *)
(* Paths are sequences of names; the destination holds directories and    *)
(* files, the snapshot directories, files and special nodes.  The two     *)
(* trees and the options delete and dry_run are the inputs.               *)
(***************************************************************************)
EXTENDS Naturals, Sequences, SequencesExt, FiniteSets

CONSTANTS
    Name,       \* entry names
    MaxDepth,   \* depth of both trees
    None

VARIABLES
    opts,       \* [delete, dryRun]: RestoreOptions::delete and dry_run
    nodes,      \* the node stream: [path, kind], kind dir, file or special
    dst,        \* the destination walk: [path, kind], kind dir or file
    i,          \* index of next_node in nodes
    j,          \* index of next_dst in dst
    fs,         \* the destination as it is now: a set of [path, kind]
    removedDir, \* removed_dir
    additional, \* additional_existing
    processed,  \* ghost: the process_node calls, [path, exists], in order
    phase       \* "scan", "done" (Ok) or "failed" (an error returned)

vars == <<opts, nodes, dst, i, j, fs, removedDir, additional, processed, phase>>

Names == SetToSortSeq(Name, <)

\* Path::cmp: component-wise, a path before the paths beneath it.
RECURSIVE PathLess(_, _)
PathLess(p, q) ==
    CASE p = <<>> -> q # <<>>
      [] q = <<>> -> FALSE
      [] Head(p) # Head(q) -> Head(p) < Head(q)
      [] OTHER -> PathLess(Tail(p), Tail(q))

\* All trees up to depth d below prefix, as sorted walks: a directory is
\* followed by its entries, leaves are of one of the leaf kinds.
RECURSIVE Walks(_, _, _, _)
Walks(prefix, names, d, leaf) ==
    IF names = <<>> \/ d = 0 THEN {<<>>}
    ELSE LET p == Append(prefix, Head(names))
             one == {<<>>} \cup {<<[path |-> p, kind |-> k]>> : k \in leaf}
                    \cup {<<[path |-> p, kind |-> "dir"]>> \o sub :
                            sub \in Walks(p, Names, d - 1, leaf)}
         IN {e \o rest : e \in one, rest \in Walks(prefix, Tail(names), d, leaf)}

PathsIn(s) == {e.path : e \in s}
Below(p, s) == {e \in s : IsPrefix(p, e.path)}

\* LocalDestination::create_dir, which creates missing parents too; it
\* fails if the path or a parent is a file.
CreateDir(s, p) ==
    s \cup {[path |-> SubSeq(p, 1, k), kind |-> "dir"] : k \in 1..Len(p)}
CreateDirFails(s, p) ==
    \E e \in s : e.kind = "file" /\ IsPrefix(e.path, p)

\* Mutant: removed_dir is taken to cover every later directory.
ProcessExistingAnyRemoved(e, st) ==
    CASE ~opts.delete -> [st EXCEPT !.additional = TRUE]
      [] opts.dryRun -> st
      [] e.kind = "dir" ->
            IF st.removedDir # None THEN st
            ELSE IF e.path \in PathsIn(st.fs)
                 THEN [st EXCEPT !.fs = @ \ Below(e.path, @), !.removedDir = e.path]
                 ELSE st
      [] OTHER -> [st EXCEPT !.fs = {x \in @ : x.path # e.path}]

\* process_existing(entry): without --delete just note that additional
\* entries exist; in a dry run only log; otherwise remove a directory
\* (with its contents) unless it lies in the directory removed last, or
\* remove a file.  A failed removal is logged and the scan goes on.
ProcessExisting(e, st) ==
    CASE ~opts.delete -> [st EXCEPT !.additional = TRUE]
      [] opts.dryRun -> st
      [] e.kind = "dir" ->
            IF st.removedDir # None /\ IsPrefix(st.removedDir, e.path) THEN st
            ELSE IF e.path \in PathsIn(st.fs)
                 THEN [st EXCEPT !.fs = @ \ Below(e.path, @), !.removedDir = e.path]
                 ELSE st
      [] OTHER -> [st EXCEPT !.fs = {x \in @ : x.path # e.path}]

\* process_node(path, node, exists): a directory that does not exist is
\* created unless in a dry run; a failure is returned.  Files only go
\* into the restore plan (RestoreContents), other nodes wait for the
\* metadata pass.
ProcessNode(n, exists, st) ==
    IF n.kind = "dir" /\ ~exists /\ ~opts.dryRun
    THEN IF CreateDirFails(st.fs, n.path)
         THEN [st EXCEPT !.failed = TRUE]
         ELSE [st EXCEPT !.fs = CreateDir(@, n.path)]
    ELSE st

State == [fs |-> fs, removedDir |-> removedDir, additional |-> additional,
          failed |-> FALSE]

\* Apply the closures' result and record the process_node call.
Apply(st, n, exists) ==
    /\ fs' = st.fs
    /\ removedDir' = st.removedDir
    /\ additional' = st.additional
    /\ processed' = IF n = None THEN processed
                    ELSE Append(processed, [path |-> n.path, exists |-> exists])
    /\ phase' = IF st.failed THEN "failed" ELSE phase

Init ==
    /\ opts \in [delete : BOOLEAN, dryRun : BOOLEAN]
    /\ nodes \in Walks(<<>>, Names, MaxDepth, {"file", "special"})
    /\ dst \in Walks(<<>>, Names, MaxDepth, {"file"})
    /\ i = 1
    /\ j = 1
    /\ fs = Range(dst)
    /\ removedDir = None
    /\ additional = FALSE
    /\ processed = <<>>
    /\ phase = "scan"

\* Mutant: next_dst is not advanced after an additional entry.
ExistingOnlyStuck ==
    /\ phase = "scan"
    /\ j <= Len(dst)
    /\ i <= Len(nodes) => PathLess(dst[j].path, nodes[i].path)
    /\ Apply(ProcessExisting(dst[j], State), None, FALSE)
    /\ UNCHANGED <<opts, nodes, dst, i, j>>

\* (Some(destination), None) and Ordering::Less: an additional entry.
ExistingOnly ==
    /\ phase = "scan"
    /\ j <= Len(dst)
    /\ i <= Len(nodes) => PathLess(dst[j].path, nodes[i].path)
    /\ Apply(ProcessExisting(dst[j], State), None, FALSE)
    /\ j' = j + 1
    /\ UNCHANGED <<opts, nodes, dst, i>>

\* Mutant: next_node is not advanced after a match.
MatchedKeepNode ==
    /\ phase = "scan"
    /\ j <= Len(dst) /\ i <= Len(nodes)
    /\ dst[j].path = nodes[i].path
    /\ Apply(ProcessNode(nodes[i], TRUE, State), nodes[i], TRUE)
    /\ j' = j + 1
    /\ UNCHANGED <<opts, nodes, dst, i>>

\* Ordering::Equal: remove an entry of the wrong type (or any entry at a
\* special node), then process the node as existing.
Matched ==
    /\ phase = "scan"
    /\ j <= Len(dst) /\ i <= Len(nodes)
    /\ dst[j].path = nodes[i].path
    /\ LET n == nodes[i]
           mismatch == \/ n.kind = "dir" /\ dst[j].kind # "dir"
                       \/ n.kind = "file" /\ dst[j].kind # "file"
                       \/ n.kind = "special"
           st == IF mismatch THEN ProcessExisting(dst[j], State) ELSE State
       IN Apply(ProcessNode(n, TRUE, st), n, TRUE)
    /\ i' = i + 1
    /\ j' = j + 1
    /\ UNCHANGED <<opts, nodes, dst>>

\* (None, Some(node)) and Ordering::Greater: a node to restore.
NodeOnly ==
    /\ phase = "scan"
    /\ i <= Len(nodes)
    /\ j <= Len(dst) => PathLess(nodes[i].path, dst[j].path)
    /\ Apply(ProcessNode(nodes[i], FALSE, State), nodes[i], FALSE)
    /\ i' = i + 1
    /\ UNCHANGED <<opts, nodes, dst, j>>

\* (None, None): the loop ends and the plan is returned.
Finish ==
    /\ phase = "scan"
    /\ i > Len(nodes) /\ j > Len(dst)
    /\ phase' = "done"
    /\ UNCHANGED <<opts, nodes, dst, i, j, fs, removedDir, additional, processed>>

Next == ExistingOnly \/ Matched \/ NodeOnly \/ Finish

Spec == Init /\ [][Next]_vars

MCName == {1, 2}

-----------------------------------------------------------------------------
\* The merge calls process_node once for every node, in stream order, and
\* passes exists = TRUE exactly for the nodes whose path the destination
\* held: the two streams stay aligned because both follow Path::cmp.
NodesProcessedOnce ==
    /\ Len(processed) = i - 1
    /\ \A k \in 1..i - 1 :
          processed[k] = [path |-> nodes[k].path,
                          exists |-> nodes[k].path \in PathsIn(Range(dst))]
    /\ phase = "done" => i = Len(nodes) + 1

\* With --delete (and no dry run) a successful scan leaves nothing in the
\* destination but entries of the snapshot with their type: additional
\* entries are gone, including those beneath a removed directory, and an
\* entry of the wrong type at a snapshot path is gone.
DeleteRemovesAdditional ==
    phase = "done" /\ opts.delete /\ ~opts.dryRun =>
        \A e \in fs : \E k \in 1..Len(nodes) :
            nodes[k].path = e.path /\ nodes[k].kind = e.kind

\* Spec 4.8: equal paths with mismatched node types force delete-then-
\* restore.  With --delete, after a successful scan every directory of
\* the snapshot exists in the destination, since the scan is where
\* directories are created.
DirsRestored ==
    phase = "done" /\ opts.delete /\ ~opts.dryRun =>
        \A k \in 1..Len(nodes) :
            nodes[k].kind = "dir" => [path |-> nodes[k].path, kind |-> "dir"] \in fs

=============================================================================
