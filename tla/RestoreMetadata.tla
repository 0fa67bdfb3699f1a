--------------------------- MODULE RestoreMetadata ---------------------------
(***************************************************************************)
(* The metadata pass of restore: restore_metadata and set_metadata of     *)
(* src/crates/core/src/commands/restore.rs.                                *)
(*                                                                         *)
(* The node streamer yields every node of the snapshot tree in depth-     *)
(* first order with the entries of a directory sorted by name.  A         *)
(* non-directory gets its metadata at once; a directory is pushed on      *)
(* dir_stack and gets its metadata when it is popped: when a directory    *)
(* that is not beneath it arrives, or when the stream ends.  set_metadata *)
(* creates special files (entries of their parent directory) and sets     *)
(* times, so a directory must get its metadata after everything beneath  *)
(* it, or its mtime is changed again.                                      *)
(*                                                                         *)
(* A path is a sequence of names; a node is [path, dir].  The stream is    *)
(* the input: any tree over Name up to MaxDepth levels.                   *)
(***************************************************************************)
EXTENDS Naturals, Sequences, SequencesExt, FiniteSets

CONSTANTS
    Name,       \* entry names
    MaxDepth    \* depth of the snapshot tree

VARIABLES
    stream,     \* the nodes node_streamer yields, in order
    next,       \* index of the node the next node_streamer.next() returns
    dirStack,   \* dir_stack
    calls,      \* paths set_metadata was called for, in call order
    finished    \* restore_metadata has returned

vars == <<stream, next, dirStack, calls, finished>>

\* Entry names in the order a tree lists them.
Names == SetToSortSeq(Name, <)

Path == UNION {[1..n -> Name] : n \in 1..MaxDepth}

\* The streams of all snapshot trees up to depth d below prefix, in the
\* streamer's order: entries by name, each directory followed by the
\* stream of its own entries.  An entry is absent, a file or a directory.
RECURSIVE EntriesFrom(_, _, _)
EntriesFrom(prefix, names, d) ==
    IF names = <<>> \/ d = 0 THEN {<<>>}
    ELSE LET p == Append(prefix, Head(names))
             one == {<<>>, <<[path |-> p, dir |-> FALSE]>>}
                    \cup {<<[path |-> p, dir |-> TRUE]>> \o sub :
                           sub \in EntriesFrom(p, Names, d - 1)}
         IN {e \o rest : e \in one, rest \in EntriesFrom(prefix, Tail(names), d)}

Streams == EntriesFrom(<<>>, Names, MaxDepth)

PathsOf(nodes) == [i \in 1..Len(nodes) |-> nodes[i].path]

\* Mutant: `if` instead of `while`, at most one entry is popped.
UnwindOnce(stack, path) ==
    IF stack # <<>> /\ ~IsPrefix(Last(stack).path, path)
    THEN <<Last(stack)>> ELSE <<>>

\* Mutant: the prefix test with its arguments swapped.
UnwindSwapped(stack, path) ==
    IF stack # <<>> /\ ~IsPrefix(path, Last(stack).path)
    THEN <<Last(stack)>> ELSE <<>>

\* The inner while loop: the stack entries popped, in pop order, before a
\* directory at path is pushed.  Popping stops at an entry path starts with.
RECURSIVE Unwind(_, _)
Unwind(stack, path) ==
    IF stack # <<>> /\ ~IsPrefix(Last(stack).path, path)
    THEN <<Last(stack)>> \o Unwind(Front(stack), path)
    ELSE <<>>

Init ==
    /\ stream \in Streams
    /\ next = 1
    /\ dirStack = <<>>
    /\ calls = <<>>
    /\ finished = FALSE

\* A directory node: set metadata of the popped entries, push the node.
ReadDir ==
    /\ next <= Len(stream)
    /\ stream[next].dir
    /\ LET popped == Unwind(dirStack, stream[next].path)
       IN /\ dirStack' = Append(SubSeq(dirStack, 1, Len(dirStack) - Len(popped)),
                                stream[next])
          /\ calls' = calls \o PathsOf(popped)
    /\ next' = next + 1
    /\ UNCHANGED <<stream, finished>>

\* Any other node: set_metadata at once.
ReadOther ==
    /\ next <= Len(stream)
    /\ ~stream[next].dir
    /\ calls' = Append(calls, stream[next].path)
    /\ next' = next + 1
    /\ UNCHANGED <<stream, dirStack, finished>>

\* Mutant: the stack left over at the end of the stream is dropped.
DrainMissing ==
    /\ next > Len(stream)
    /\ ~finished
    /\ finished' = TRUE
    /\ dirStack' = <<>>
    /\ UNCHANGED <<stream, next, calls>>

\* End of the stream: set metadata of the remaining stack, top first.
Drain ==
    /\ next > Len(stream)
    /\ ~finished
    /\ calls' = calls \o Reverse(PathsOf(dirStack))
    /\ dirStack' = <<>>
    /\ finished' = TRUE
    /\ UNCHANGED <<stream, next>>

Next == ReadDir \/ ReadOther \/ Drain

Spec == Init /\ [][Next]_vars

MCName == {1, 2}

-----------------------------------------------------------------------------
\* Once restore_metadata returns, set_metadata has been called exactly once
\* for every node the streamer yielded (dir_stack is drained at the end).
MetadataOnce ==
    finished =>
        /\ Len(calls) = Len(stream)
        /\ Range(calls) = Range(PathsOf(stream))

\* A directory's metadata is set only after the metadata of every node
\* beneath it: the pop condition `path.starts_with(stackpath)` and the
\* reversed drain keep a parent on the stack below its children.
DirAfterEntries ==
    \A j \in 1..Len(calls) :
        \A i \in 1..Len(stream) :
            IsStrictPrefix(calls[j], stream[i].path) =>
                \E k \in 1..j - 1 : calls[k] = stream[i].path

\* dir_stack only ever holds a chain of nested directories: each directory
\* gets its metadata as soon as a directory outside it is read, and the
\* stack never grows beyond the depth of the tree.
StackIsChain ==
    \A i \in 1..Len(dirStack) - 1 :
        IsStrictPrefix(dirStack[i].path, dirStack[i + 1].path)

=============================================================================
