------------------------------- MODULE Restore -------------------------------
(***************************************************************************)
(* The two passes of restore over the snapshot tree, composed in the      *)
(* order restore runs them (src/crates/core/src/commands/restore.rs):      *)
(* collect_and_prepare merges a node stream with the destination walk,    *)
(* restore_repository then restores the file contents (RestoreContents)   *)
(* and runs restore_metadata over a second node stream of the same        *)
(* snapshot.                                                               *)
(*                                                                         *)
(* RestorePrepare is instantiated as it is; RestoreMetadata reads the      *)
(* stream that prepare reads, with a node a directory iff its kind is     *)
(* "dir".  The contents pass is one step here: it does not change what    *)
(* the two tree passes read or write.  A dry run stops after the scan:    *)
(* only the plan is reported.                                              *)
(***************************************************************************)
EXTENDS Naturals, Sequences

CONSTANTS
    Name,       \* entry names
    MaxDepth,   \* depth of the snapshot and of the destination
    None

VARIABLES
    opts, nodes, dst, i, j, fs, removedDir, additional, processed, phase,
    stage,      \* "prepare", "metadata": the pass restore is in
    stream,     \* the node stream restore_metadata reads
    next, dirStack, calls, finished

prepareVars == <<opts, nodes, dst, i, j, fs, removedDir, additional, processed, phase>>
metaVars == <<stream, next, dirStack, calls, finished>>
vars == <<prepareVars, stage, metaVars>>

P == INSTANCE RestorePrepare

\* The snapshot's nodes in the same order, a node a directory iff its kind
\* is "dir".
MetaStream(ns) == [k \in 1..Len(ns) |-> [path |-> ns[k].path,
                                         dir |-> ns[k].kind = "dir"]]

M == INSTANCE RestoreMetadata

Init ==
    /\ P!Init
    /\ stage = "prepare"
    /\ stream = MetaStream(nodes)
    /\ next = 1
    /\ dirStack = <<>>
    /\ calls = <<>>
    /\ finished = FALSE

\* collect_and_prepare, step by step.
Prepare ==
    /\ stage = "prepare"
    /\ P!Next
    /\ UNCHANGED <<stage, metaVars>>

\* restore_repository after a successful scan: warm_up_wait and
\* restore_contents, then the metadata pass begins.
RestoreContents ==
    /\ stage = "prepare"
    /\ phase = "done"
    /\ ~opts.dryRun
    /\ stage' = "metadata"
    /\ UNCHANGED <<prepareVars, metaVars>>

\* restore_metadata, step by step.
Metadata ==
    /\ stage = "metadata"
    /\ \/ M!ReadDir
       \/ M!ReadOther
       \/ M!Drain
    /\ UNCHANGED <<prepareVars, stage>>

Next == Prepare \/ RestoreContents \/ Metadata

\* restore is one thread that takes its next step as long as it has one.
Spec == Init /\ [][Next]_vars /\ WF_vars(Next)

MCName == {1, 2}

-----------------------------------------------------------------------------
\* The scan calls process_node once per node, in stream order, with exists
\* exactly for the paths the destination held (RestorePrepare).
NodesProcessedOnce == P!NodesProcessedOnce

\* With --delete the scan leaves only snapshot entries of the right type.
DeleteRemovesAdditional == P!DeleteRemovesAdditional

\* restore_metadata sets metadata once for every node of the stream.
MetadataOnce == M!MetadataOnce

\* A directory's metadata is set after that of everything beneath it.
DirAfterEntries == M!DirAfterEntries

\* dir_stack only holds a chain of nested directories.
StackIsChain == M!StackIsChain

\* restore returns: the merge loop of collect_and_prepare advances one of
\* its two iterators in every round, so the scan ends in Ok or an error;
\* after a successful scan (not a dry run) restore_metadata drains its
\* stack and returns.
Termination ==
    <>(\/ phase = "failed"
       \/ phase = "done" /\ opts.dryRun
       \/ finished)

=============================================================================
