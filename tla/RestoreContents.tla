--------------------------- MODULE RestoreContents ---------------------------
(***************************************************************************)
(* Restoring file contents: RestorePlan::add_file and restore_contents of *)
(* src/crates/core/src/commands/restore.rs.                                *)
(*                                                                         *)
(* add_file records, for every blob of every file to restore, a           *)
(* FileLocation under the key (pack, blob location), noting whether the   *)
(* destination already holds that blob there.  restore_contents creates   *)
(* the empty files, coalesces the keys into reads of contiguous pack      *)
(* ranges, and runs one reader task per range; a reader reads the range   *)
(* (or the blob from a destination file that already holds it) and       *)
(* spawns one writer task per destination.  A writer locks the shared     *)
(* sizes vector, sets the file's length if it is the first writer of that *)
(* file, unlocks, and writes its blob.  The pool has 20 threads, more     *)
(* than the tasks here, so any task may run at any time.                  *)
(*                                                                         *)
(* Every blob is one unit long; a file is the sequence of the blobs at    *)
(* its positions; Junk is any byte content that is not a blob.  The       *)
(* destination as it is before the restore and whether its files have the *)
(* node's mtime are the inputs.                                           *)
(***************************************************************************)
EXTENDS Naturals, Sequences, SequencesExt, FiniteSets

CONSTANTS
    File,            \* files of the snapshot, numbered in stream order
    Blob,            \* data blob ids
    PackOf,          \* index entry: pack of each blob
    OffsetOf,        \* index entry: offset of each blob in its pack
    ContentChoice,   \* node.content a file may have
    ExistingChoice,  \* what the destination may hold at a path (or None)
    VerifyExisting,  \* RestoreOptions::verify_existing
    LimitPackRead,   \* constants::LIMIT_PACK_READ, in blob units
    Junk,            \* bytes that are not a blob
    None

VARIABLES
    content,    \* node.content of each file
    mtimeOk,    \* the existing file has the node's mtime
    dest,       \* contents of the destination files, None if absent
    plan,       \* the RestorePlan: names, file_lengths, r, trusted files
    sizes,      \* the Mutex<Vec<u64>> of file lengths
    reads,      \* reader tasks spawned and not yet run
    writes,     \* writer tasks: [idx, start, data, st]
    phase,      \* "plan" (collect_and_prepare done), "run", "done"
    panicked,   \* a task hit an unwrap on a failed read or slice
    packsRead   \* ghost: packs read_partial was called for

vars == <<content, mtimeOk, dest, plan, sizes, reads, writes, phase,
          panicked, packsRead>>

Key == {<<PackOf[b], OffsetOf[b]>> : b \in Blob}
KeyOf(b) == <<PackOf[b], OffsetOf[b]>>
BlobAt(k) == CHOOSE b \in Blob : KeyOf(b) = k

\* BTreeMap order of (PackId, BlobLocation).
KeyLess(k, l) == k[1] < l[1] \/ (k[1] = l[1] /\ k[2] < l[2])
Keys == SetToSortSeq(Key, KeyLess)
Files == SetToSortSeq(File, <)

EmptyPlan == [names |-> <<>>, lengths |-> <<>>,
              r |-> [k \in Key |-> <<>>], trusted |-> {}]

\* Mutant: file_pos is not advanced, every blob is placed at offset 0.
AddFileNoAdvance(pl, f, c, ex, mt) ==
    LET open == ex # None /\ Len(ex) = Len(c)
        idx == Len(pl.names) + 1
        Loc(i) == [idx |-> idx, start |-> 0,
                   matches |-> open /\ ex[i] = c[i]]
    IN IF open /\ (Len(c) = 0 \/ (~VerifyExisting /\ mt))
       THEN [pl EXCEPT !.trusted = @ \cup {f}]
       ELSE [pl EXCEPT !.names = Append(@, f),
                       !.lengths = Append(@, Len(c)),
                       !.r = FoldLeft(LAMBDA r, i : [r EXCEPT ![KeyOf(c[i])] = Append(@, Loc(i))],
                                      @, [i \in 1..Len(c) |-> i])]

\* add_file(dest, file, name, repo, verify_existing).  get_matching_file
\* opens the existing file only if its length is the node's size.  An
\* empty file that exists, or a file with the node's size and mtime when
\* verify_existing is off, is accepted as it is.  Otherwise the file gets
\* the next index and each blob a FileLocation at file_pos, matching if
\* the open file holds that blob there.
AddFile(pl, f, c, ex, mt) ==
    LET open == ex # None /\ Len(ex) = Len(c)
        idx == Len(pl.names) + 1
        Loc(i) == [idx |-> idx, start |-> i - 1,
                   matches |-> open /\ ex[i] = c[i]]
    IN IF open /\ (Len(c) = 0 \/ (~VerifyExisting /\ mt))
       THEN [pl EXCEPT !.trusted = @ \cup {f}]
       ELSE [pl EXCEPT !.names = Append(@, f),
                       !.lengths = Append(@, Len(c)),
                       !.r = FoldLeft(LAMBDA r, i : [r EXCEPT ![KeyOf(c[i])] = Append(@, Loc(i))],
                                      @, [i \in 1..Len(c) |-> i])]

\* collect_and_prepare calls add_file for the files in stream order.
PlanOf(c, ex, mt) ==
    FoldLeft(LAMBDA pl, f : AddFile(pl, f, c[f], ex[f], mt[f]), EmptyPlan, Files)

\* The map step of restore_contents: the first matching location is read
\* from the destination file, the others are the destinations to write.
ReadEntry(k) ==
    LET fls == plan.r[k]
        m == SelectInSeq(fls, LAMBDA l : l.matches)
    IN [pack |-> k[1], offset |-> k[2], length |-> 1,
        from |-> IF m = 0 THEN None ELSE [idx |-> fls[m].idx, start |-> fls[m].start],
        dests |-> [i \in 1..Len(SelectSeq(fls, LAMBDA l : ~l.matches)) |->
                     LET d == SelectSeq(fls, LAMBDA l : ~l.matches)[i]
                     IN [key |-> k, idx |-> d.idx, start |-> d.start]]]

\* Mutant: the coalesce test does not check that x is read from the pack.
CoalesceStepAnySource(acc, y) ==
    IF acc # <<>> /\ Last(acc).pack = y.pack
       /\ y.offset = Last(acc).offset + Last(acc).length
       /\ Last(acc).length + y.length < LimitPackRead
    THEN [acc EXCEPT ![Len(acc)] = [@ EXCEPT !.length = @ + y.length,
                                             !.dests = @ \o y.dests]]
    ELSE Append(acc, y)

\* The coalesce closure: y joins the read x if both are in the same pack,
\* x is not read from a destination file, y follows x in the pack and the
\* joined read stays below LIMIT_PACK_READ.
CoalesceStep(acc, y) ==
    IF acc # <<>> /\ Last(acc).pack = y.pack /\ Last(acc).from = None
       /\ y.offset = Last(acc).offset + Last(acc).length
       /\ Last(acc).length + y.length < LimitPackRead
    THEN [acc EXCEPT ![Len(acc)] = [@ EXCEPT !.length = @ + y.length,
                                             !.dests = @ \o y.dests]]
    ELSE Append(acc, y)

ReadList ==
    FoldLeft(CoalesceStep, <<>>,
             [i \in 1..Len(SelectSeq(Keys, LAMBDA k : plan.r[k] # <<>>)) |->
                ReadEntry(SelectSeq(Keys, LAMBDA k : plan.r[k] # <<>>)[i])])

\* Mutant: the filter of to_packs keeps the keys whose locations all match.
ToPacksNegated ==
    {k[1] : k \in {k \in Key : plan.r[k] # <<>> /\
                     \A i \in DOMAIN plan.r[k] : plan.r[k][i].matches}}

\* RestorePlan::to_packs, the packs restore_repository warms up: the packs
\* of the keys none of whose locations is already in place.
ToPacks ==
    {k[1] : k \in {k \in Key : plan.r[k] # <<>> /\
                     \A i \in DOMAIN plan.r[k] : ~plan.r[k][i].matches}}

\* LocalDestination::set_length: create, then truncate or zero-extend.
SetLength(s, n) ==
    LET t == IF s = None THEN <<>> ELSE s
    IN IF n <= Len(t) THEN SubSeq(t, 1, n)
       ELSE t \o [i \in 1..n - Len(t) |-> Junk]

\* LocalDestination::write_at of one blob at offset start.
WriteAt(s, start, v) ==
    LET t == SetLength(s, Max({start, IF s = None THEN 0 ELSE Len(s)}))
    IN IF start < Len(t) THEN [t EXCEPT ![start + 1] = v] ELSE Append(t, v)

Init ==
    /\ content \in [File -> ContentChoice]
    /\ mtimeOk \in [File -> BOOLEAN]
    /\ dest \in [File -> ExistingChoice]
    /\ plan = PlanOf(content, dest, mtimeOk)
    /\ sizes = plan.lengths
    /\ reads = {}
    /\ writes = {}
    /\ phase = "plan"
    /\ panicked = FALSE
    /\ packsRead = {}

\* Mutant: the files of length 0 are not created first.
StartNoEmpty ==
    /\ phase = "plan"
    /\ reads' = {g \in Range(ReadList) : g.dests # <<>>}
    /\ phase' = "run"
    /\ UNCHANGED <<content, mtimeOk, dest, plan, sizes, writes, panicked,
                   packsRead>>

\* restore_contents up to the spawns: create the empty files, coalesce, and
\* spawn a reader for every read that has destinations.
Start ==
    /\ phase = "plan"
    /\ dest' = [f \in File |->
                  IF \E i \in DOMAIN plan.names : plan.names[i] = f /\ plan.lengths[i] = 0
                  THEN SetLength(dest[f], 0) ELSE dest[f]]
    /\ reads' = {g \in Range(ReadList) : g.dests # <<>>}
    /\ phase' = "run"
    /\ UNCHANGED <<content, mtimeOk, plan, sizes, writes, panicked,
                   packsRead>>

\* A reader: read the blob from the destination file, or the pack range,
\* and spawn one writer per destination.  A read past the end of the file
\* or a slice outside the range panics on unwrap.
Read(g) ==
    /\ g \in reads
    /\ LET fromFile == IF g.from = None THEN None ELSE dest[plan.names[g.from.idx]]
           fileOk == g.from = None \/ (fromFile # None /\ g.from.start < Len(fromFile))
           sliceOk == g.from # None \/ \A i \in DOMAIN g.dests :
                          g.dests[i].key[2] - g.offset + 1 <= g.length
           Data(d) == IF g.from # None THEN fromFile[g.from.start + 1]
                      ELSE BlobAt(d.key)
       IN IF fileOk /\ sliceOk
          THEN /\ writes' = writes \cup
                   {[idx |-> d.idx, start |-> d.start, data |-> Data(d), st |-> "lock"] :
                      d \in Range(g.dests)}
               /\ UNCHANGED panicked
          ELSE /\ panicked' = TRUE
               /\ UNCHANGED writes
    /\ reads' = reads \ {g}
    /\ packsRead' = IF g.from = None THEN packsRead \cup {g.pack} ELSE packsRead
    /\ UNCHANGED <<content, mtimeOk, dest, plan, sizes, phase>>

\* Mutant: the sentinel is reset but set_length is not called.
AllocNoSetLength(t) ==
    /\ t \in writes
    /\ t.st = "lock"
    /\ sizes' = [sizes EXCEPT ![t.idx] = 0]
    /\ writes' = (writes \ {t}) \cup {[t EXCEPT !.st = "write"]}
    /\ UNCHANGED <<content, mtimeOk, dest, plan, reads, phase, panicked,
                   packsRead>>

\* A writer's locked section: the first writer of a file sets its length
\* and resets the file's entry in sizes to 0.
Alloc(t) ==
    /\ t \in writes
    /\ t.st = "lock"
    /\ IF sizes[t.idx] > 0
       THEN /\ dest' = [dest EXCEPT ![plan.names[t.idx]] = SetLength(@, sizes[t.idx])]
            /\ sizes' = [sizes EXCEPT ![t.idx] = 0]
       ELSE UNCHANGED <<dest, sizes>>
    /\ writes' = (writes \ {t}) \cup {[t EXCEPT !.st = "write"]}
    /\ UNCHANGED <<content, mtimeOk, plan, reads, phase, panicked,
                   packsRead>>

\* A writer after the unlock: write_at(path, start, data).
Write(t) ==
    /\ t \in writes
    /\ t.st = "write"
    /\ dest' = [dest EXCEPT ![plan.names[t.idx]] = WriteAt(@, t.start, t.data)]
    /\ writes' = writes \ {t}
    /\ UNCHANGED <<content, mtimeOk, plan, sizes, reads, phase, panicked,
                   packsRead>>

\* The scope ends when every task has run.
Finish ==
    /\ phase = "run"
    /\ reads = {}
    /\ writes = {}
    /\ phase' = "done"
    /\ UNCHANGED <<content, mtimeOk, dest, plan, sizes, reads, writes,
                   panicked, packsRead>>

Next ==
    \/ Start
    \/ \E g \in reads : Read(g)
    \/ \E t \in writes : Alloc(t)
    \/ \E t \in writes : Write(t)
    \/ Finish

Spec == Init /\ [][Next]_vars

-----------------------------------------------------------------------------
\* When restore_contents returns, no task panicked and every file of the
\* snapshot holds exactly its content (length included), except the files
\* add_file trusted by size and mtime.  This needs add_file's positions,
\* the coalescing of reads, the copy from existing files, the empty-file
\* pass and the first writer's set_length all to be right.
RestoredContents ==
    phase = "done" =>
        /\ ~panicked
        /\ \A f \in File : f \notin plan.trusted \/ Len(content[f]) = 0 =>
                              dest[f] = content[f]

\* Every pack a reader fetches a range of was in the warm-up list
\* restore_repository computed with to_packs before restore_contents: a
\* key read from the pack either has no location in place or was
\* coalesced behind a key of the same pack that has none.
ReadPacksWarmedUp ==
    packsRead \subseteq ToPacks

=============================================================================
