-------------------------------- MODULE Prune --------------------------------
(***************************************************************************)
(* prune of src/crates/core/src/commands/prune.rs: the planner            *)
(* (PrunePlan::from_prune_options and the steps it calls) and the executor *)
(* (prune_repository), run against a repository that backups and forgets  *)
(* change, with crashes of either process at any step.                    *)
(*                                                                         *)
(* Data is abstracted to what the properties tell apart: a blob is an id   *)
(* with a type, every blob has length 1 (so sizes are blob counts), a     *)
(* snapshot is the set of blobs its trees reach, a pack file is a set of   *)
(* blobs of one type.  Times are small integers.                           *)
(***************************************************************************)
EXTENDS Naturals, FiniteSets, Sequences, SequencesExt

CONSTANTS
    Blob, TypeOf,        \* blob ids and their BlobType ("tree" | "data")
    InitRepos,           \* repositories prune may start from: [packs, marked, time, snaps]
    SnapContents,        \* blob sets a backup may produce as a snapshot
    Concurrent,          \* backups may run while prune runs
    KeepPack, KeepDelete,
    PruneOptions,        \* the [instant, early] option pairs prune is run with
    RepackAll, RepackCacheableOnly, NoResize,
    MaxRepack, MaxUnused,   \* the limits after LimitOption conversion
    MinIndexLen,         \* constants::MIN_INDEX_LEN
    PackTarget, MinPackSize, MaxPackSize, \* PackSizer of the repository
    Cap,                 \* saturation of the u8 reference counter
    MaxCount, MaxIndexId, None,           \* for the Indexer
    MaxPackId, MaxSnapId, MaxTime,
    BackupWindow, PruneWindow, \* longest run of a backup / of a prune
    MaxPrunes, MaxCrashes,     \* prune runs started / crashes, in a behaviour
    PruneMayStop               \* whether prune itself may crash, or only backup

VARIABLES
    packs, packBlobs, nextPackId,  \* pack files on the backend and contents
    indexFiles, nextIndexId,       \* index files on the backend
    snaps, nextSnapId,             \* snapshot files
    now,
    bk,                            \* the backup process
    pc, pStart, rIdx, rUsed,       \* prune: step, start, what it has read
    planTime, todo, unref, rmIdx, usedIds, \* the plan being executed
    bufs, left, pending, rmPacks,  \* repackers, blobs of packs being repacked,
                                   \* pack writer queue, packs to delete
    ixFile, ixCount, ixIndexed,    \* prune's Indexer (new_unindexed)
    opt,                           \* options of the current (or last) prune run
    handed,                        \* ghost: copies of each blob handed to repackers
    runs, crashes                  \* prune runs started and crashes so far

Ix == INSTANCE Indexer

backend == <<packs, packBlobs, nextPackId, indexFiles, nextIndexId, snaps, nextSnapId>>
prune == <<opt, handed, pc, pStart, rIdx, rUsed, planTime, todo, unref, rmIdx, usedIds,
           bufs, left, pending, rmPacks, ixFile, ixCount, ixIndexed>>
budget == <<runs, crashes>>
vars == <<backend, now, bk, prune, budget>>

Types == {"tree", "data"}
PackId == 0..MaxPackId
Time == 0..MaxTime
\* An index entry's time is None when a program that sets none wrote it.
PackTime == Time \cup {None}
IndexEntry == [id : PackId, blobs : SUBSET Blob, time : PackTime]
ToDo == {"Keep", "Repack", "MarkDelete", "KeepMarked", "KeepMarkedAndCorrect", "Recover",
         "Delete"}

Ids(S) == {e.id : e \in S}
PackType(bs) == IF \E b \in bs : TypeOf[b] = "tree" THEN "tree" ELSE "data"
LiveEntries(files) == UNION {f.packs : f \in files}

-----------------------------------------------------------------------------
(* Planner *)

\* PrunePlan::new, first pass: a pack id already seen in the packs (resp.
\* packs_to_delete) of an earlier index file is dropped and the file is
\* marked modified.
NormStep(acc, f) ==
    LET live == {e \in f.packs : e.id \notin acc.seen}
        del  == {e \in f.del : e.id \notin acc.seenDel}
    IN [seen    |-> acc.seen \cup Ids(f.packs),
        seenDel |-> acc.seenDel \cup Ids(f.del),
        files   |-> Append(acc.files, [id |-> f.id, live |-> live, del |-> del,
                           modified |-> live # f.packs \/ del # f.del])]

\* Mutant: the second pass is left out.
NewPlanIndexesNoRetain(order) ==
    LET r == FoldLeft(NormStep, [seen |-> {}, seenDel |-> {}, files |-> <<>>], order)
    IN r.files

\* PrunePlan::new, second pass: packs_to_delete entries of packs that are
\* also listed as live anywhere are dropped.
NewPlanIndexes(order) ==
    LET r == FoldLeft(NormStep, [seen |-> {}, seenDel |-> {}, files |-> <<>>], order)
    IN [i \in DOMAIN r.files |->
          [r.files[i] EXCEPT !.del = {e \in @ : e.id \notin r.seen},
                             !.modified = @ \/ Ids(r.files[i].del) \cap r.seen # {}]]

\* PrunePack::from_index_pack, in the order decide_packs visits them: all
\* marked packs (index file by index file), then all unmarked ones.
PrunePacks(files, i, mark) ==
    LET S == IF mark THEN files[i].del ELSE files[i].live
        q == SetToSortSeq(S, LAMBDA a, b : a.id < b.id)
    IN [k \in DOMAIN q |->
          [id |-> q[k].id, blobs |-> q[k].blobs, time |-> q[k].time, mark |-> mark,
           file |-> i, used |-> 0, unused |-> 0, todo |-> "Undecided",
           reason |-> "none"]]
VisitOrder(files) ==
    FlattenSeq([i \in DOMAIN files |-> PrunePacks(files, i, TRUE)])
      \o FlattenSeq([i \in DOMAIN files |-> PrunePacks(files, i, FALSE)])

\* Mutant: only the packs listed live are counted.
CountUsedBlobsLiveOnly(used, seq) ==
    [b \in Blob |-> IF b \in used
                    THEN LET n == Cardinality({k \in DOMAIN seq : ~seq[k].mark /\ b \in seq[k].blobs})
                         IN IF n > Cap THEN Cap ELSE n
                    ELSE 0]

\* find_used_blobs + count_used_blobs: each used blob counts its
\* occurrences in the indexed packs, saturating at Cap; unused blobs are 0.
CountUsedBlobs(used, seq) ==
    [b \in Blob |-> IF b \in used
                    THEN LET n == Cardinality({k \in DOMAIN seq : b \in seq[k].blobs})
                         IN IF n > Cap THEN Cap ELSE n
                    ELSE 0]

\* What PackInfo::from_pack does to a pack of distinct blobs, as sets (the
\* reference FromPackSeq is checked against): the pack is needed iff one
\* of its blobs has counter 1; then every blob with counter >= 1 is used
\* here and its counter is set to 0, else every counter >= 1 is decremented.
FromPack(bs, cnt) ==
    IF \E b \in bs : cnt[b] = 1
    THEN [used |-> {b \in bs : cnt[b] >= 1},
          cnt  |-> [b \in Blob |-> IF b \in bs THEN 0 ELSE cnt[b]]]
    ELSE [used |-> {},
          cnt  |-> [b \in Blob |-> IF b \in bs /\ cnt[b] >= 1 THEN cnt[b] - 1 ELSE cnt[b]]]

\* Mutant: the needed test is off by one (a counter reaching 1, not 0).
RECURSIVE FirstNeededOffByOne(_, _, _)
FirstNeededOffByOne(bs, k, cnt) ==
    IF k > Len(bs) THEN [first |-> 0, cnt |-> cnt]
    ELSE LET b == bs[k]
         IN CASE cnt[b] = 0 -> FirstNeededOffByOne(bs, k + 1, cnt)
              [] cnt[b] = 2 -> [first |-> k, cnt |-> [cnt EXCEPT ![b] = 1]]
              [] OTHER -> FirstNeededOffByOne(bs, k + 1, [cnt EXCEPT ![b] = @ - 1])

RECURSIVE FirstNeeded(_, _, _)
\* from_pack, the position() search from blob k on: a counter of 0 (or a
\* blob not used) is unused here; else the counter is decremented, and the
\* blob whose counter reaches 0 is the first needed one.
FirstNeeded(bs, k, cnt) ==
    IF k > Len(bs) THEN [first |-> 0, cnt |-> cnt]
    ELSE LET b == bs[k]
         IN CASE cnt[b] = 0 -> FirstNeeded(bs, k + 1, cnt)
              [] cnt[b] = 1 -> [first |-> k, cnt |-> [cnt EXCEPT ![b] = 0]]
              [] OTHER -> FirstNeeded(bs, k + 1, [cnt EXCEPT ![b] = @ - 1])

\* from_pack's re-marking loops: the blobs before the first needed one, then
\* those after it, in order; each whose counter is still >= 1 is used here
\* and its counter set to 0 (so a later copy in this pack is unused).
MarkUsed(bs, s, ks) ==
    FoldLeft(LAMBDA acc, k : IF acc.cnt[bs[k]] >= 1
                             THEN [pos |-> acc.pos \cup {k},
                                   cnt |-> [acc.cnt EXCEPT ![bs[k]] = 0]]
                             ELSE acc,
             [pos |-> {s.first}, cnt |-> s.cnt], ks)

\* Mutant: the blobs before the first needed one are not re-marked.
FromPackSeqOffByOne(bs, cnt) ==
    LET s == FirstNeededOffByOne(bs, 1, cnt)
    IN IF s.first = 0 THEN [pos |-> {}, cnt |-> s.cnt]
       ELSE MarkUsed(bs, s, [i \in 1..Len(bs) - 1 |-> IF i < s.first THEN i ELSE i + 1])

\* Mutant: a blob re-marked before the first needed one keeps its counter.
FromPackSeqNoReset(bs, cnt) ==
    LET s == FirstNeeded(bs, 1, cnt)
        after == MarkUsed(bs, s, [i \in 1..Len(bs) - s.first |-> s.first + i])
        before == {k \in 1..s.first - 1 : s.cnt[bs[k]] >= 1}
    IN IF s.first = 0 THEN [pos |-> {}, cnt |-> s.cnt]
       ELSE [after EXCEPT !.pos = @ \cup before]

\* PackInfo::from_pack on the blob list bs of a pack (duplicates allowed):
\* the positions of the blobs used here, and the counters after the pack.
FromPackSeq(bs, cnt) ==
    LET s == FirstNeeded(bs, 1, cnt)
    IN IF s.first = 0 THEN [pos |-> {}, cnt |-> s.cnt]
       ELSE MarkUsed(bs, s, [i \in 1..Len(bs) - 1 |-> IF i < s.first THEN i ELSE i + 1])

\* pack.time > Some(self.time - keep_pack): an Option compares None below
\* every time, so a pack without a time is never too young.
TooYoung(p, t) == p.time # None /\ p.time > t - KeepPack

\* Mutant: marked unused packs are deleted without waiting keep_delete.
DecideNoKeepDelete(p, u, n, t) ==
    LET tooYoung == TooYoung(p, t)
        keepUncacheable == RepackCacheableOnly /\ PackType(p.blobs) = "data"
        sizeMismatch == Cardinality(p.blobs) < MinPackSize \/ Cardinality(p.blobs) > MaxPackSize
        set(td) == [p EXCEPT !.used = u, !.unused = n, !.todo = td]
        cand(r) == [p EXCEPT !.used = u, !.unused = n, !.reason = r]
    IN CASE ~p.mark /\ u = 0 -> IF tooYoung THEN set("Keep") ELSE set("MarkDelete")
         [] ~p.mark /\ n = 0 ->
              IF tooYoung \/ keepUncacheable THEN set("Keep")
              ELSE IF RepackAll THEN cand("ToCompress")
              ELSE IF sizeMismatch THEN cand("SizeMismatch")
              ELSE set("Keep")
         [] ~p.mark -> IF tooYoung \/ keepUncacheable THEN set("Keep")
                       ELSE cand("PartlyUsed")
         [] p.mark /\ u = 0 -> set("Delete")
         [] OTHER -> set("Recover")

\* The decision table of decide_packs for one pack.
Decide(p, u, n, t) ==
    LET tooYoung == TooYoung(p, t)
        keepUncacheable == RepackCacheableOnly /\ PackType(p.blobs) = "data"
        sizeMismatch == Cardinality(p.blobs) < MinPackSize \/ Cardinality(p.blobs) > MaxPackSize
        set(td) == [p EXCEPT !.used = u, !.unused = n, !.todo = td]
        cand(r) == [p EXCEPT !.used = u, !.unused = n, !.reason = r]
    IN CASE ~p.mark /\ u = 0 -> IF tooYoung THEN set("Keep") ELSE set("MarkDelete")
         [] ~p.mark /\ n = 0 ->
              IF tooYoung \/ keepUncacheable THEN set("Keep")
              ELSE IF RepackAll THEN cand("ToCompress")
              ELSE IF sizeMismatch THEN cand("SizeMismatch")
              ELSE set("Keep")
         [] ~p.mark -> IF tooYoung \/ keepUncacheable THEN set("Keep")
                       ELSE cand("PartlyUsed")
         [] p.mark /\ u = 0 -> CASE p.time # None /\ t - p.time >= KeepDelete -> set("Delete")
                                [] p.time = None -> set("KeepMarkedAndCorrect")
                                [] OTHER -> set("KeepMarked")
         [] OTHER -> set("Recover")

\* decide_packs: visit the packs, thread the counters through from_pack and
\* sum the statistics decide_repack reads.
DecideStep(t, acc, p) ==
    LET pi == FromPackSeq(SetToSeq(p.blobs), acc.cnt)
        u == Cardinality(pi.pos)
        n == Cardinality(p.blobs) - u
        d == Decide(p, u, n, t)
    IN [cnt |-> pi.cnt, packs |-> acc.packs \cup {d},
        used |-> acc.used + u, unused |-> acc.unused + n,
        remove |-> acc.remove + (IF d.todo = "MarkDelete" THEN n ELSE 0)]
DecidePacks(seq, cnt, t) ==
    FoldLeft(LAMBDA acc, p : DecideStep(t, acc, p), [cnt |-> cnt, packs |-> {}, used |-> 0, unused |-> 0, remove |-> 0], seq)

\* Ord for PackInfo: tree packs first, then higher unused/used ratio first.
TypeRank(p) == IF PackType(p.blobs) = "tree" THEN 0 ELSE 1
RankLess(a, b) ==
    \/ TypeRank(a) < TypeRank(b)
    \/ TypeRank(a) = TypeRank(b) /\ b.unused * a.used < a.unused * b.used

\* decide_repack, one candidate of the sorted list.
RepackStep(st, acc, c) ==
    LET ty == PackType(c.blobs)
        total == acc.size["tree"] + acc.size["data"]
        unusedAfter == st.unused - st.remove - acc.repackrm
        maxUnused == IF RepackAll THEN 0 ELSE MaxUnused
    IN IF \/ total + c.used >= MaxRepack
          \/ unusedAfter < maxUnused /\ c.reason = "PartlyUsed" /\ ty = "data"
          \/ c.reason = "SizeMismatch" /\ NoResize
       THEN [acc EXCEPT !.done = @ \cup {[c EXCEPT !.todo = "Keep"]}]
       ELSE IF c.reason = "SizeMismatch"
       THEN [acc EXCEPT !.resize = @ \cup {c}, !.size[ty] = @ + c.used]
       ELSE [acc EXCEPT !.done = @ \cup {[c EXCEPT !.todo = "Repack"]},
                        !.size[ty] = @ + c.used, !.doRepack[ty] = TRUE,
                        !.repackrm = @ + c.unused]

\* Mutant: the resize bucket is never decided.
DecideRepackNoResize(st, order) ==
    LET r == FoldLeft(LAMBDA acc, c : RepackStep(st, acc, c),
               [done |-> {}, resize |-> {}, repackrm |-> 0,
                size |-> [ty \in Types |-> 0], doRepack |-> [ty \in Types |-> FALSE]],
               order)
    IN r.done \cup r.resize

\* decide_repack: the candidates in a sorted order (sort_unstable: any
\* order of equal keys), then the resize bucket of each type.
DecideRepack(st, order) ==
    LET r == FoldLeft(LAMBDA acc, c : RepackStep(st, acc, c),
               [done |-> {}, resize |-> {}, repackrm |-> 0,
                size |-> [ty \in Types |-> 0], doRepack |-> [ty \in Types |-> FALSE]],
               order)
        resized(c) == [c EXCEPT !.todo =
                         IF r.doRepack[PackType(c.blobs)] \/ r.size[PackType(c.blobs)] > PackTarget
                         THEN "Repack" ELSE "Keep"]
    IN r.done \cup {resized(c) : c \in r.resize}
\* The orders of a set, as sequences: TLC's Permutations of one of them.
Orders(S) ==
    LET base == SetToSeq(S)
    IN {[i \in DOMAIN base |-> base[pi[i]]] : pi \in Permutations(DOMAIN base)}
SortedOrders(cands) ==
    {o \in Orders(cands) : \A i, j \in DOMAIN o : i < j => ~RankLess(o[j], o[i])}

\* check_existing_packs: packs to keep, recover or repack must exist.
CheckExistingPacks(ps, existing) ==
    \A p \in ps : p.todo \in {"Keep", "Recover", "Repack"} => p.id \in existing

\* filter_index_files: the index files that are rewritten.
\* PrunePlan::check: every used blob is counted in some index file; a
\* counter of 0 is a blob missing from the index, an internal error.
Check(used, cnt) == \A b \in used : cnt[b] # 0

\* Mutant: a tombstone kept without a time counts as not modifying its file.
FilterIndexFilesKeepAllMarked(files, ps) ==
    LET inFile(i) == {p \in ps : p.file = i}
        mustModify(i) == files[i].modified \/
            \E p \in inFile(i) : p.todo # "Keep" /\
                (opt.instant \/ p.todo \notin {"KeepMarked", "KeepMarkedAndCorrect"})
        len(i) == MapThenSumSet(LAMBDA p : Cardinality(p.blobs), inFile(i))
        kept == {i \in DOMAIN files : mustModify(i) \/ len(i) < MinIndexLen}
    IN IF (\A i \in DOMAIN files : ~mustModify(i)) /\ Cardinality(kept) = 1
       THEN {} ELSE kept

FilterIndexFiles(files, ps) ==
    LET inFile(i) == {p \in ps : p.file = i}
        mustModify(i) == files[i].modified \/
            \E p \in inFile(i) : p.todo # "Keep" /\ (opt.instant \/ p.todo # "KeepMarked")
        len(i) == MapThenSumSet(LAMBDA p : Cardinality(p.blobs), inFile(i))
        kept == {i \in DOMAIN files : mustModify(i) \/ len(i) < MinIndexLen}
    IN IF (\A i \in DOMAIN files : ~mustModify(i)) /\ Cardinality(kept) = 1
       THEN {} ELSE kept

-----------------------------------------------------------------------------
(* Prune steps *)

EmptyBufs == [ty \in Types |-> {}]
\* No repack thread is inside its loop over a pack's blobs.
NoneLeft == [p \in {} |-> {}]

\* The in-memory state of prune, as it is when no prune runs (and after a
\* crash, which loses all of it; what was written to the backend stays).
ResetPrune ==
    /\ pc' = "idle"
    /\ pStart' = 0
    /\ rIdx' = {}
    /\ rUsed' = {}
    /\ planTime' = 0
    /\ todo' = {}
    /\ unref' = {}
    /\ rmIdx' = {}
    /\ usedIds' = {}
    /\ bufs' = EmptyBufs
    /\ left' = NoneLeft
    /\ pending' = <<>>
    /\ rmPacks' = {}
    /\ ixFile' = Ix!EmptyFile
    /\ ixCount' = 0
    /\ UNCHANGED ixIndexed

\* from_prune_options, with the PruneOptions of this run: stream all index
\* files.
PruneReadIndex ==
    /\ pc = "idle"
    /\ runs < MaxPrunes
    /\ ~Concurrent => bk.st = "idle"
    /\ runs' = runs + 1
    /\ UNCHANGED crashes
    /\ opt' \in PruneOptions
    /\ handed' = [b \in Blob |-> 0]
    /\ pc' = "snaps"
    /\ pStart' = now
    /\ rIdx' = indexFiles
    /\ UNCHANGED <<backend, now, bk, rUsed, planTime, todo, unref, rmIdx, usedIds,
                   bufs, left, pending, rmPacks, ixFile, ixCount, ixIndexed>>

\* find_used_blobs: the blobs the trees of the current snapshots reach.
PruneReadSnaps ==
    /\ pc = "snaps"
    /\ pc' = "list"
    /\ rUsed' = UNION {s.blobs : s \in snaps}
    /\ UNCHANGED <<backend, now, bk, pStart, rIdx, planTime, todo, unref, rmIdx, usedIds,
                   bufs, left, pending, rmPacks, ixFile, ixCount, ixIndexed>>
    /\ UNCHANGED budget

\* list_with_size of the pack files, then PrunePlan::new (time = now),
\* count_used_blobs, check, decide_packs, decide_repack,
\* check_existing_packs and filter_index_files.  A failed check or a
\* missing pack is an error: prune stops having written nothing.  The order
\* of the index files on the backend listing, and the order sort_unstable
\* leaves equal candidates in, are free.
PrunePlan ==
    /\ pc = "list"
    /\ \E order \in Orders(rIdx) :
       LET files == NewPlanIndexes(order)
           seq == VisitOrder(files)
           cnt == CountUsedBlobs(rUsed, seq)
           dp == DecidePacks(seq, cnt, now)
           cands == {p \in dp.packs : p.reason # "none"}
       IN \E co \in SortedOrders(cands) :
          LET decided == (dp.packs \ cands) \cup DecideRepack(dp, co)
              kept == FilterIndexFiles(files, decided)
          IN IF ~Check(rUsed, cnt)
                \/ ~CheckExistingPacks(decided, packs)
             THEN /\ ResetPrune
                  /\ UNCHANGED <<backend, now, bk>>
             ELSE /\ pc' = "unref"
                  /\ planTime' = now
                  /\ todo' = {p \in decided : p.file \in kept}
                  /\ rmIdx' = {files[i].id : i \in kept}
                  /\ unref' = packs \ Ids(decided)
                  /\ usedIds' = rUsed \ UNION {p.blobs : p \in {q \in decided :
                                                   q.todo \in {"Keep", "Recover"}}}
                  /\ UNCHANGED <<backend, now, bk, pStart, rIdx, rUsed, bufs, left, pending,
                                 rmPacks, ixFile, ixCount, ixIndexed>>
    /\ UNCHANGED budget

\* prune_repository, unreferenced packs with instant_delete: delete_list.
PruneDeleteUnref(p) ==
    /\ pc = "unref"
    /\ opt.instant
    /\ p \in unref
    /\ packs' = packs \ {p}
    /\ unref' = unref \ {p}
    /\ UNCHANGED <<packBlobs, nextPackId, indexFiles, nextIndexId, snaps, nextSnapId,
                   now, bk, pc, pStart, rIdx, rUsed, planTime, todo, rmIdx, usedIds,
                   bufs, left, pending, rmPacks, ixFile, ixCount, ixIndexed>>
    /\ UNCHANGED budget

\* ... else each becomes a tombstone with no blobs and time Local::now().
PruneMarkUnref(p) ==
    /\ pc = "unref"
    /\ ~opt.instant
    /\ p \in unref
    /\ Ix!AddRemove([id |-> p, blobs |-> {}, time |-> now])
    /\ unref' = unref \ {p}
    /\ UNCHANGED <<packs, packBlobs, nextPackId, snaps, nextSnapId, now, bk, pc, pStart,
                   rIdx, rUsed, planTime, todo, rmIdx, usedIds, bufs, left, pending, rmPacks>>
    /\ UNCHANGED budget

\* Mutant: with early_delete_index the early deletion is skipped.
PruneStartPacksNoEarly ==
    /\ pc = "unref"
    /\ unref = {}
    /\ pc' = "packs"
    /\ UNCHANGED <<backend, now, bk, pStart, rIdx, rUsed, planTime, todo, unref, rmIdx,
                   usedIds, bufs, left, pending, rmPacks, ixFile, ixCount, ixIndexed>>
    /\ UNCHANGED budget

\* The unreferenced packs are handled; with early_delete_index the old
\* index files are deleted now (PruneDeleteIndex), else after finalize.
PruneStartPacks ==
    /\ pc = "unref"
    /\ unref = {}
    /\ pc' = IF opt.early THEN "early" ELSE "packs"
    /\ UNCHANGED <<backend, now, bk, pStart, rIdx, rUsed, planTime, todo, unref, rmIdx,
                   usedIds, bufs, left, pending, rmPacks, ixFile, ixCount, ixIndexed>>
    /\ UNCHANGED budget

\* delete_list of the superseded index files, one file at a time.
PruneDeleteIndex(i) ==
    /\ pc \in {"early", "delIdx"}
    /\ i \in rmIdx
    /\ indexFiles' = {f \in indexFiles : f.id # i}
    /\ rmIdx' = rmIdx \ {i}
    /\ UNCHANGED <<packs, packBlobs, nextPackId, nextIndexId, snaps, nextSnapId, now, bk,
                   pc, pStart, rIdx, rUsed, planTime, todo, unref, usedIds, bufs, left, pending,
                   rmPacks, ixFile, ixCount, ixIndexed>>
    /\ UNCHANGED budget

PruneEarlyDeleted ==
    /\ pc = "early"
    /\ rmIdx = {}
    /\ pc' = "packs"
    /\ UNCHANGED <<backend, now, bk, pStart, rIdx, rUsed, planTime, todo, unref, rmIdx,
                   usedIds, bufs, left, pending, rmPacks, ixFile, ixCount, ixIndexed>>
    /\ UNCHANGED budget

\* The work of prune_repository on one pack of the plan (packs run in
\* parallel, so any pack left may go next).  Every case leaves the
\* backend pack and snapshot files as they are.
execUnchanged == <<packs, packBlobs, nextPackId, snaps, nextSnapId, now, bk, pc, pStart,
                   rIdx, rUsed, planTime, unref, rmIdx, pending>>

\* Tombstone the pack with the given time, or with instant_delete put it on
\* the delete list of its type.
DeleteOrMark(p, time) ==
    IF opt.instant
    THEN /\ rmPacks' = rmPacks \cup {[id |-> p.id, type |-> PackType(p.blobs)]}
         /\ UNCHANGED <<ixFile, ixCount, ixIndexed, indexFiles, nextIndexId>>
    ELSE /\ Ix!AddRemove([id |-> p.id, blobs |-> p.blobs, time |-> time])
         /\ UNCHANGED rmPacks

\* PackToDo::Keep: into_index_pack keeps the pack's time.
ExecKeep(p) ==
    /\ pc = "packs" /\ p \in todo /\ p.todo = "Keep"
    /\ Ix!Add([id |-> p.id, blobs |-> p.blobs, time |-> p.time])
    /\ todo' = todo \ {p}
    /\ UNCHANGED <<execUnchanged, usedIds, bufs, left, rmPacks>>
    /\ UNCHANGED budget

\* PackToDo::Repack: a worker of the parallel iterator takes the pack and
\* loops over its blobs.  The loop follows the pack's blob list; the model
\* keeps a set, and NextBlob fixes one order for it.
ExecRepack(p) ==
    /\ pc = "packs" /\ p \in todo /\ p.todo = "Repack"
    /\ left' = left @@ (p :> p.blobs)
    /\ todo' = todo \ {p}
    /\ UNCHANGED <<execUnchanged, usedIds, bufs, rmPacks, ixFile, ixCount, ixIndexed,
                   indexFiles, nextIndexId>>
    /\ UNCHANGED budget

RepackBlob(p, b) ==
    /\ p \in DOMAIN left /\ b \in left[p]
    /\ left' = [left EXCEPT ![p] = @ \ {b}]
    /\ IF b \in usedIds
       THEN LET ty == PackType(p.blobs)
                buf == bufs[ty] \cup {b}
            IN /\ usedIds' = usedIds \ {b}
               /\ handed' = [handed EXCEPT ![b] = @ + 1]
               /\ IF Cardinality(buf) >= PackTarget
                  THEN /\ bufs' = [bufs EXCEPT ![ty] = {}]
                       /\ pending' = Append(pending, buf)
                  ELSE /\ bufs' = [bufs EXCEPT ![ty] = buf]
                       /\ UNCHANGED pending
       ELSE UNCHANGED <<usedIds, handed, bufs, pending>>
    /\ UNCHANGED <<packs, packBlobs, nextPackId, snaps, nextSnapId, now, bk, pc, pStart,
                   rIdx, rUsed, planTime, todo, unref, rmIdx, rmPacks, ixFile, ixCount,
                   ixIndexed, indexFiles, nextIndexId>>
    /\ UNCHANGED budget

\* The blob the loop over a pack's blob list visits next.
NextBlob(p) == CHOOSE b \in left[p] : TRUE

\* After the loop the old pack is tombstoned with the plan time, or deleted.
RepackDone(p) ==
    /\ p \in DOMAIN left /\ left[p] = {}
    /\ left' = [q \in DOMAIN left \ {p} |-> left[q]]
    /\ DeleteOrMark(p, planTime)
    /\ UNCHANGED <<execUnchanged, todo, usedIds, bufs>>
    /\ UNCHANGED budget

\* PackToDo::MarkDelete: tombstone with the plan time.
ExecMarkDelete(p) ==
    /\ pc = "packs" /\ p \in todo /\ p.todo = "MarkDelete"
    /\ DeleteOrMark(p, planTime)
    /\ todo' = todo \ {p}
    /\ UNCHANGED <<execUnchanged, usedIds, bufs, left>>
    /\ UNCHANGED budget

\* Mutant: a tombstone without a time is written back without one.
ExecKeepMarkedNoHeal(p) ==
    /\ pc = "packs" /\ p \in todo /\ p.todo \in {"KeepMarked", "KeepMarkedAndCorrect"}
    /\ DeleteOrMark(p, p.time)
    /\ todo' = todo \ {p}
    /\ UNCHANGED <<execUnchanged, usedIds, bufs, left>>
    /\ UNCHANGED budget

\* PackToDo::KeepMarked and KeepMarkedAndCorrect: the tombstone keeps its
\* time, or gets the plan time if it has none.
ExecKeepMarked(p) ==
    /\ pc = "packs" /\ p \in todo /\ p.todo \in {"KeepMarked", "KeepMarkedAndCorrect"}
    /\ DeleteOrMark(p, IF p.time = None THEN planTime ELSE p.time)
    /\ todo' = todo \ {p}
    /\ UNCHANGED <<execUnchanged, usedIds, bufs, left>>
    /\ UNCHANGED budget

\* PackToDo::Recover: the marked pack is indexed live again, at plan time.
ExecRecover(p) ==
    /\ pc = "packs" /\ p \in todo /\ p.todo = "Recover"
    /\ Ix!Add([id |-> p.id, blobs |-> p.blobs, time |-> planTime])
    /\ todo' = todo \ {p}
    /\ UNCHANGED <<execUnchanged, usedIds, bufs, left, rmPacks>>
    /\ UNCHANGED budget

\* PackToDo::Delete: onto the delete list of its type.
ExecDelete(p) ==
    /\ pc = "packs" /\ p \in todo /\ p.todo = "Delete"
    /\ rmPacks' = rmPacks \cup {[id |-> p.id, type |-> PackType(p.blobs)]}
    /\ todo' = todo \ {p}
    /\ UNCHANGED <<execUnchanged, usedIds, bufs, left, ixFile, ixCount, ixIndexed,
                   indexFiles, nextIndexId>>
    /\ UNCHANGED budget

\* The repackers' pack writer: writes the oldest full pack to the backend,
\* then indexes it live with the time it was written.
PackerWrite ==
    /\ pending # <<>>
    /\ nextPackId < MaxPackId
    /\ packs' = packs \cup {nextPackId}
    /\ packBlobs' = [packBlobs EXCEPT ![nextPackId] = Head(pending)]
    /\ nextPackId' = nextPackId + 1
    /\ Ix!Add([id |-> nextPackId, blobs |-> Head(pending), time |-> now])
    /\ pending' = Tail(pending)
    /\ UNCHANGED <<snaps, nextSnapId, now, bk, pc, pStart, rIdx, rUsed, planTime, todo,
                   unref, rmIdx, usedIds, bufs, left, rmPacks>>
    /\ UNCHANGED budget

\* All packs are done: tree_repacker.finalize() then data_repacker.finalize()
\* flush what their packers hold.
PruneFinalizeRepackers ==
    /\ pc = "packs"
    /\ todo = {}
    /\ DOMAIN left = {}
    /\ pending' = pending \o SelectSeq(<<bufs["tree"], bufs["data"]>>, LAMBDA s : s # {})
    /\ bufs' = EmptyBufs
    /\ pc' = "flush"
    /\ UNCHANGED <<backend, now, bk, pStart, rIdx, rUsed, planTime, todo, unref, rmIdx,
                   usedIds, left, rmPacks, ixFile, ixCount, ixIndexed>>
    /\ UNCHANGED budget

\* finalize() returns once the writer is done; then the indexer saves.
PruneFinalizeIndexer ==
    /\ pc = "flush"
    /\ pending = <<>>
    /\ Ix!Finalize
    /\ pc' = IF opt.early THEN "delData" ELSE "delIdx"
    /\ UNCHANGED <<packs, packBlobs, nextPackId, snaps, nextSnapId, now, bk, pStart, rIdx,
                   rUsed, planTime, todo, unref, rmIdx, usedIds, bufs, left, pending, rmPacks>>
    /\ UNCHANGED budget

PruneIndexesDeleted ==
    /\ pc = "delIdx"
    /\ rmIdx = {}
    /\ pc' = "delData"
    /\ UNCHANGED <<backend, now, bk, pStart, rIdx, rUsed, planTime, todo, unref, rmIdx,
                   usedIds, bufs, left, pending, rmPacks, ixFile, ixCount, ixIndexed>>
    /\ UNCHANGED budget

\* delete_list of old data packs, then of old tree packs, file by file.
PruneDeletePack(r) ==
    /\ r \in rmPacks
    /\ \/ pc = "delData" /\ r.type = "data"
       \/ pc = "delTree" /\ r.type = "tree"
    /\ packs' = packs \ {r.id}
    /\ rmPacks' = rmPacks \ {r}
    /\ UNCHANGED <<packBlobs, nextPackId, indexFiles, nextIndexId, snaps, nextSnapId, now,
                   bk, pc, pStart, rIdx, rUsed, planTime, todo, unref, rmIdx, usedIds, bufs, left,
                   pending, ixFile, ixCount, ixIndexed>>
    /\ UNCHANGED budget

PruneDataPacksDeleted ==
    /\ pc = "delData"
    /\ \A r \in rmPacks : r.type # "data"
    /\ pc' = "delTree"
    /\ UNCHANGED <<backend, now, bk, pStart, rIdx, rUsed, planTime, todo, unref, rmIdx,
                   usedIds, bufs, left, pending, rmPacks, ixFile, ixCount, ixIndexed>>
    /\ UNCHANGED budget

PruneDone ==
    /\ pc = "delTree"
    /\ rmPacks = {}
    /\ ResetPrune
    /\ UNCHANGED <<backend, now, bk>>
    /\ UNCHANGED budget

\* The prune process dies: its memory is lost, the files it wrote stay.
PruneCrash ==
    /\ PruneMayStop
    /\ ~opt.early
    /\ pc # "idle"
    /\ crashes < MaxCrashes
    /\ crashes' = crashes + 1
    /\ ResetPrune
    /\ UNCHANGED <<backend, now, bk, runs>>

-----------------------------------------------------------------------------
(* The rest of the system that changes the repository while prune runs:   *)
(* backup (not in this source tree, modelled from the spec) and forget.   *)

pruneVars == <<opt, handed, pc, pStart, rIdx, rUsed, planTime, todo, unref, rmIdx, usedIds,
               bufs, left, pending, rmPacks, ixFile, ixCount, ixIndexed>>

IdleBackup == [st |-> "idle", view |-> {}, start |-> 0, blobs |-> {}, entries |-> {}]

\* A backup loads the index once: the blobs of live packs are deduplicated.
BackupStart ==
    /\ bk.st = "idle"
    /\ nextSnapId < MaxSnapId
    /\ ~Concurrent => pc = "idle"
    /\ bk' = [IdleBackup EXCEPT !.st = "run", !.start = now,
                                !.view = UNION {e.blobs : e \in LiveEntries(indexFiles)}]
    /\ UNCHANGED <<backend, now, pruneVars>>
    /\ UNCHANGED budget

\* It writes the blobs of its snapshot that the index lacks, in one pack
\* per blob type.
BackupWritePacks(B) ==
    /\ bk.st = "run"
    /\ LET new == B \ bk.view
           parts == SelectSeq(<<{b \in new : TypeOf[b] = "tree"},
                                {b \in new : TypeOf[b] = "data"}>>, LAMBDA s : s # {})
           ids == [k \in DOMAIN parts |-> nextPackId + k - 1]
       IN /\ nextPackId + Len(parts) <= MaxPackId
          /\ packs' = packs \cup {ids[k] : k \in DOMAIN parts}
          /\ packBlobs' = [i \in PackId |->
                             IF \E k \in DOMAIN parts : ids[k] = i
                             THEN parts[CHOOSE k \in DOMAIN parts : ids[k] = i]
                             ELSE packBlobs[i]]
          /\ nextPackId' = nextPackId + Len(parts)
          /\ bk' = [bk EXCEPT !.st = "written", !.blobs = B,
                     !.entries = {[id |-> ids[k], blobs |-> parts[k], time |-> now]
                                   : k \in DOMAIN parts}]
    /\ UNCHANGED <<indexFiles, nextIndexId, snaps, nextSnapId, now, pruneVars>>
    /\ UNCHANGED budget

\* It saves its index file (if it wrote any pack), then the snapshot.
BackupCommit ==
    /\ bk.st = "written"
    /\ bk.entries # {} => nextIndexId < MaxIndexId
    /\ IF bk.entries # {}
       THEN /\ indexFiles' = indexFiles \cup {[id |-> nextIndexId, packs |-> bk.entries, del |-> {}]}
            /\ nextIndexId' = nextIndexId + 1
       ELSE UNCHANGED <<indexFiles, nextIndexId>>
    /\ snaps' = snaps \cup {[id |-> nextSnapId, blobs |-> bk.blobs]}
    /\ nextSnapId' = nextSnapId + 1
    /\ bk' = IdleBackup
    /\ UNCHANGED <<packs, packBlobs, nextPackId, now, pruneVars>>
    /\ UNCHANGED budget

\* The backup dies; packs it wrote stay unreferenced.
BackupCrash ==
    /\ bk.st # "idle"
    /\ crashes < MaxCrashes
    /\ crashes' = crashes + 1
    /\ bk' = IdleBackup
    /\ UNCHANGED <<backend, now, pruneVars, runs>>

\* forget removes a snapshot file.
Forget(s) ==
    /\ s \in snaps
    /\ ~Concurrent => pc = "idle" /\ bk.st = "idle"
    /\ snaps' = snaps \ {s}
    /\ UNCHANGED <<packs, packBlobs, nextPackId, indexFiles, nextIndexId, nextSnapId,
                   now, bk, pruneVars>>
    /\ UNCHANGED budget

\* Time passes; no backup runs longer than BackupWindow and no prune longer
\* than PruneWindow (from reading the index to its last delete).
Tick ==
    /\ now < MaxTime
    /\ pc = "idle" \/ now < pStart + PruneWindow
    /\ bk.st = "idle" \/ now < bk.start + BackupWindow
    /\ now' = now + 1
    /\ UNCHANGED <<backend, bk, pruneVars>>
    /\ UNCHANGED budget

-----------------------------------------------------------------------------

\* A repository as earlier commands left it: r.packs[k] is the blob set of
\* pack k-1, listed live in index file k-1 (as the backup that wrote it
\* saved it); r.marked lists the packs after them, marked for deletion in
\* index file 0; every entry has time r.time (None: written without one);
\* r.snaps[k] the blobs of snapshot k-1.
InitRepo(r) ==
    LET blobsOf == r.packs \o r.marked
        del(k) == IF k = 1
                  THEN {[id |-> Len(r.packs) + j - 1, blobs |-> r.marked[j], time |-> r.time]
                        : j \in DOMAIN r.marked}
                  ELSE {}
    IN
    /\ packs = {k - 1 : k \in DOMAIN blobsOf}
    /\ packBlobs = [i \in PackId |-> IF i + 1 \in DOMAIN blobsOf THEN blobsOf[i + 1] ELSE {}]
    /\ nextPackId = Len(blobsOf)
    /\ indexFiles = {[id |-> k - 1, del |-> del(k),
                      packs |-> {[id |-> k - 1, blobs |-> r.packs[k], time |-> r.time]}]
                     : k \in DOMAIN r.packs}
    /\ nextIndexId = Len(r.packs)
    /\ snaps = {[id |-> k - 1, blobs |-> r.snaps[k]] : k \in DOMAIN r.snaps}
    /\ nextSnapId = Len(r.snaps)

Init ==
    /\ \E r \in InitRepos : InitRepo(r)
    /\ now = 0
    /\ bk = IdleBackup
    /\ pc = "idle"
    /\ pStart = 0
    /\ rIdx = {}
    /\ rUsed = {}
    /\ planTime = 0
    /\ todo = {}
    /\ unref = {}
    /\ rmIdx = {}
    /\ usedIds = {}
    /\ bufs = EmptyBufs
    /\ left = NoneLeft
    /\ pending = <<>>
    /\ rmPacks = {}
    /\ Ix!IsNew(FALSE)
    /\ runs = 0
    /\ crashes = 0
    /\ opt = [instant |-> FALSE, early |-> FALSE]
    /\ handed = [b \in Blob |-> 0]

\* The steps of a running prune, other than a crash.
PruneWork ==
    \/ /\ \/ PruneReadSnaps
          \/ PrunePlan
          \/ \E p \in unref : PruneDeleteUnref(p)
          \/ \E p \in unref : PruneMarkUnref(p)
          \/ PruneStartPacks
          \/ PruneEarlyDeleted
          \/ \E i \in rmIdx : PruneDeleteIndex(i)
          \/ \E p \in todo : ExecKeep(p)
          \/ \E p \in todo : ExecRepack(p)
          \/ \E p \in DOMAIN left : RepackDone(p)
          \/ \E p \in todo : ExecMarkDelete(p)
          \/ \E p \in todo : ExecKeepMarked(p)
          \/ \E p \in todo : ExecRecover(p)
          \/ \E p \in todo : ExecDelete(p)
          \/ PackerWrite
          \/ PruneFinalizeRepackers
          \/ PruneFinalizeIndexer
          \/ PruneIndexesDeleted
          \/ \E r \in rmPacks : PruneDeletePack(r)
          \/ PruneDataPacksDeleted
          \/ PruneDone
       /\ UNCHANGED <<opt, handed>>
    \/ /\ \E p \in DOMAIN left : left[p] # {} /\ RepackBlob(p, NextBlob(p))
       /\ UNCHANGED opt

Next ==
    \/ PruneReadIndex
    \/ PruneWork
    \/ PruneCrash /\ UNCHANGED <<opt, handed>>
    \/ BackupStart
    \/ \E B \in SnapContents : BackupWritePacks(B)
    \/ BackupCommit
    \/ BackupCrash
    \/ \E s \in snaps : Forget(s)
    \/ Tick

Spec == Init /\ [][Next]_vars

-----------------------------------------------------------------------------
(* Properties *)

PruneStep == {"idle", "snaps", "list", "unref", "early", "packs", "flush",
              "delIdx", "delData", "delTree"}
PruneEntry == [id : PackId, blobs : SUBSET Blob, time : PackTime, mark : BOOLEAN,
               file : Nat, used : Nat, unused : Nat, todo : ToDo,
               reason : {"none", "ToCompress", "SizeMismatch", "PartlyUsed"}]

TypeOK ==
    /\ packs \subseteq PackId
    /\ packBlobs \in [PackId -> SUBSET Blob]
    /\ \A f \in indexFiles : f.packs \cup f.del \subseteq IndexEntry
    /\ \A s \in snaps : s.blobs \subseteq Blob
    /\ now \in Time
    /\ bk.st \in {"idle", "run", "written"}
    /\ pc \in PruneStep
    /\ todo \subseteq PruneEntry
    /\ unref \subseteq PackId
    /\ usedIds \subseteq rUsed
    /\ handed \in [Blob -> Nat]
    /\ bufs \in [Types -> SUBSET Blob]
    /\ DOMAIN left \subseteq PruneEntry /\ \A p \in DOMAIN left : left[p] \subseteq p.blobs
    /\ \A k \in DOMAIN pending : pending[k] \subseteq Blob
    /\ rmPacks \subseteq [id : PackId, type : Types]

\* The blob is in a pack file on the backend that an index file lists it in,
\* live or marked for deletion.
Stored(b) ==
    \E f \in indexFiles : \E e \in f.packs \cup f.del :
        e.id \in packs /\ b \in e.blobs /\ b \in packBlobs[e.id]

\* The same, through a live entry: what a restore or a backup can read.
StoredLive(b) ==
    \E f \in indexFiles : \E e \in f.packs :
        e.id \in packs /\ b \in e.blobs /\ b \in packBlobs[e.id]

\* No data is lost: every blob of every snapshot is in an existing pack an
\* index file lists, whatever prune (with its tombstones, repacks and
\* deletes), backups, forgets and crashes did.  A blob may sit only in a
\* pack marked for deletion, which the next prune recovers.
SnapshotBlobsStored ==
    \A s \in snaps : \A b \in s.blobs : Stored(b)

\* Spec invariant 1: after every operation (no prune and no backup under
\* way) every blob of a snapshot resolves through the index to a live pack
\* on disk.  Prune's tombstones, repacks, instant and early deletes must
\* leave each used blob in a pack the new index lists live.
SnapshotBlobsLive ==
    pc = "idle" /\ bk.st = "idle" =>
        \A s \in snaps : \A b \in s.blobs : StoredLive(b)

\* Spec invariant 3: no index file lists a pack both as live and as to be
\* deleted; the duplicate normalisation of PrunePlan::new is what keeps a
\* pack that a crashed prune already tombstoned from being processed twice.
IndexNoLiveAndDelete ==
    \A f \in indexFiles : Ids(f.packs) \cap Ids(f.del) = {}

\* A pack file is deleted only if no index file then lists it live.
PackDeletionSafe ==
    [][\A p \in packs \ packs' : \A f \in indexFiles' : p \notin Ids(f.packs)]_vars


\* check() and check_existing_packs stop prune only when the repository
\* changed between from_prune_options reading the index and planning (a
\* backup or another prune committed index files meanwhile): on a
\* repository no one else writes, a used blob found in any listed pack,
\* live or marked, never fails the plan.
PlanFailsOnlyOnRace ==
    [][pc = "list" /\ pc' = "idle" /\ crashes' = crashes => indexFiles # rIdx]_vars

MarksHealed ==
    [][pc = "delTree" /\ pc' = "idle" /\ crashes' = crashes =>
         \A f \in indexFiles' : \A e \in f.del : e.time # None]_vars

\* Where in the list of packs ps blob b occurs: <<pack, position>> pairs.
Occurrences(ps, b) ==
    {o \in UNION {{<<k, i>> : i \in DOMAIN ps[k]} : k \in DOMAIN ps} : ps[o[1]][o[2]] = b}

\* decide_packs runs from_pack over the packs in order, threading the
\* counters of count_used_blobs (occurrences of a used blob, saturating at
\* Cap); the positions each pack uses.
UsedPositions(ps, used) ==
    LET n(b) == Cardinality(Occurrences(ps, b))
        cnt0 == [b \in Blob |-> IF b \notin used THEN 0
                                ELSE IF n(b) > Cap THEN Cap ELSE n(b)]
    IN FoldLeft(LAMBDA acc, bs : LET pi == FromPackSeq(bs, acc.cnt)
                                 IN [cnt |-> pi.cnt, pos |-> Append(acc.pos, pi.pos)],
                [cnt |-> cnt0, pos |-> <<>>], ps).pos

\* from_pack keeps a blob that occurs several times, in one pack or in
\* several, by counting its copies down and re-marking the blobs before the
\* first needed one: over any list of packs, each used blob that occurs is
\* used in exactly one place and no unused blob is used anywhere.
FromPackMarksOnce(ps, used) ==
    LET pos == UsedPositions(ps, used)
    IN \A b \in Blob :
          Cardinality({o \in Occurrences(ps, b) : o[2] \in pos[o[1]]})
            = IF b \in used /\ Occurrences(ps, b) # {} THEN 1 ELSE 0

\* On a pack without duplicates, from_pack uses exactly the blobs the set
\* description FromPack says, for every counter up to 3 (a larger one
\* behaves as 3 on packs this small).
FromPackAsSets(bs) ==
    Cardinality(Range(bs)) = Len(bs) =>
      \A cnt \in [Range(bs) -> {c \in 0..3 : c <= Cap}] :
        LET c == [b \in Blob |-> IF b \in DOMAIN cnt THEN cnt[b] ELSE 0]
        IN {bs[i] : i \in FromPackSeq(bs, c).pos} = FromPack(Range(bs), c).used

=============================================================================
