----------------------------- MODULE SnapshotFile -----------------------------
(***************************************************************************)
(* Reading, selecting, grouping and modifying snapshot files:              *)
(* src/crates/core/src/repofile/snapshotfile.rs.                           *)
(*                                                                         *)
(* The backend holds snapshot files, named by ids; a file never changes   *)
(* once written.  Other commands write snapshots (backup), delete them    *)
(* (forget), or replace one by its modified copy (the tag command, with   *)
(* modify_sn).  A long-running caller keeps the grouped list it got from  *)
(* update_group_from_backend and refreshes it; any caller may ask for     *)
(* latest~N.  A file may fail to decode: iter_all_from_backend skips it   *)
(* with a warning, fill_missing returns the error.                        *)
(*                                                                         *)
(* A snapshot is [time, host, label, tags, delete, original, paths];     *)
(* hostname, label and tags stand for the four group fields (paths is    *)
(* compared like tags).  Values are small numbers so that they can be     *)
(* ordered; a path is the sequence of its components.                    *)
(***************************************************************************)
EXTENDS Naturals, Sequences, SequencesExt, FiniteSets

CONSTANTS
    Id,         \* snapshot ids, 1..MaxId, given out in order
    Written,    \* the snapshot files a backup may write
    Tag,        \* tag values
    Corrupt,    \* ids whose file does not decode
    Filter,     \* the caller's filter: the hostnames it accepts
    MaxN,       \* latest~N asked for N in 0..MaxN
    Crits,      \* the group_by criteria callers group by
    TagArg,     \* the tag lists a tag command passes to set, add, remove
    BackupPaths, \* the path lists a backup is given (paths: component sequences)
    None

VARIABLES
    files,      \* the snapshot files: id -> contents
    nextId,     \* id of the next file written
    root,       \* ghost: id -> the id of the backup its contents descend from
    groups      \* the caller's grouped list: [crit, list, at] or None

vars == <<files, nextId, root, groups>>

GroupFields == <<"hostname", "label", "tags">>

\* set_id: the id the file is stored under; original is set to it unless
\* the file already names one.
SetIdOverwrite(id, s) ==
    [s EXCEPT !.original = id] @@ [id |-> id]

SetId(id, s) ==
    [s EXCEPT !.original = IF @ = None THEN id ELSE @] @@ [id |-> id]

Matches(s) == s.host \in Filter

\* iter_all_from_backend: every file that decodes, with its id, filtered.
IterAll(fs) ==
    {SetId(id, fs[id]) : id \in {i \in DOMAIN fs \ Corrupt : Matches(fs[i])}}

-----------------------------------------------------------------------------
(* latest_n *)

\* Mutant: n smallest instead of n + 1.
LatestNFromIterShort(n, S) ==
    {K \in SUBSET S : /\ Cardinality(K) = IF n < Cardinality(S) THEN n ELSE Cardinality(S)
                      /\ \A x \in K, y \in S \ K : x.time >= y.time}

\* latest_n_from_iter: k_smallest_by(n + 1) in decreasing time order, i.e.
\* the n + 1 newest snapshots (any of equal times).
LatestNFromIter(n, S) ==
    {K \in SUBSET S : /\ Cardinality(K) = IF n + 1 < Cardinality(S) THEN n + 1 ELSE Cardinality(S)
                      /\ \A x \in K, y \in S \ K : x.time >= y.time}

\* latest_n: the vector is sorted newest first, so pop() takes an oldest
\* of the n + 1; it is the answer only if len > n, else an error (None).  The
\* call only reads the backend: it is the set of answers it may give.
LatestN(n, fs) ==
    UNION {{IF Cardinality(K) > n THEN s ELSE None :
               s \in {x \in K : \A t \in K : x.time <= t.time}} :
           K \in LatestNFromIter(n, IterAll(fs))}

-----------------------------------------------------------------------------
(* Grouping *)

RECURSIVE SeqCmp(_, _)
\* Lexicographic comparison of two sequences of numbers: -1, 0 or 1.
SeqCmp(a, b) ==
    CASE a = <<>> /\ b = <<>> -> 0
      [] a = <<>> -> -1
      [] b = <<>> -> 1
      [] Head(a) # Head(b) -> IF Head(a) < Head(b) THEN -1 ELSE 1
      [] OTHER -> SeqCmp(Tail(a), Tail(b))

\* A group field as the sequence its Ord compares (a StringList is a
\* BTreeSet, compared as its sorted elements).
FieldSeq(s, f) ==
    CASE f = "hostname" -> <<s.host>>
      [] f = "label" -> <<s.label>>
      [] OTHER -> SetToSortSeq(s.tags, <)

\* Mutant: the then_with chain is lost: only the first field decides.
CmpGroupFirstOnly(crit, s, t) ==
    IF "hostname" \in crit THEN SeqCmp(FieldSeq(s, "hostname"), FieldSeq(t, "hostname"))
    ELSE 0

\* cmp_group: the selected fields in turn, then_with.
CmpGroup(crit, s, t) ==
    LET c == [k \in 1..3 |-> IF GroupFields[k] \in crit
                             THEN SeqCmp(FieldSeq(s, GroupFields[k]), FieldSeq(t, GroupFields[k]))
                             ELSE 0]
    IN IF c[1] # 0 THEN c[1] ELSE IF c[2] # 0 THEN c[2] ELSE c[3]

\* SnapshotGroup::from_snapshot: the selected fields, the others None.
FromSnapshot(s, crit) ==
    [f \in {"hostname", "label", "tags"} |->
        IF f \notin crit THEN None
        ELSE CASE f = "hostname" -> s.host [] f = "label" -> s.label [] OTHER -> s.tags]

\* has_group: every field the group selects equals the snapshot's.
HasGroup(s, g) ==
    /\ g.hostname = None \/ g.hostname = s.host
    /\ g.label = None \/ g.label = s.label
    /\ g.tags = None \/ g.tags = s.tags

RECURSIVE ChunkBy(_, _)
\* chunk_by: runs of neighbours with equal groups, in order.
ChunkBy(seq, crit) ==
    IF seq = <<>> THEN <<>>
    ELSE LET rest == ChunkBy(Tail(seq), crit)
             g == FromSnapshot(Head(seq), crit)
         IN IF rest # <<>> /\ rest[1].group = g
            THEN <<[rest[1] EXCEPT !.snaps = <<Head(seq)>> \o @]>> \o Tail(rest)
            ELSE <<[group |-> g, snaps |-> <<Head(seq)>>]>> \o rest

\* Mutant: every snapshot the caller held is kept, listed or not.
FillMissingKeepAll(current, fs) ==
    LET held == {s.id : s \in Range(current)}
        missing == {id \in DOMAIN fs : id \notin held}
    IN [ok |-> missing \cap Corrupt = {},
        snaps |-> Range(current)
                  \cup {SetId(id, fs[id]) : id \in {i \in missing : Matches(fs[i])}}]

\* fill_missing(current, be.list(), filter): the listed ids the caller does
\* not hold are read (an undecodable one fails the call) and filtered; the
\* result is every listed id the caller held or read, its snapshot given
\* its id by set_id.  Held snapshots are not filtered again.
FillMissing(current, fs) ==
    LET held == {s.id : s \in Range(current)}
        missing == {id \in DOMAIN fs : id \notin held}
        read == {id \in missing : Matches(fs[id])}
    IN [ok |-> missing \cap Corrupt = {},
        snaps |-> {SetId(s.id, s) : s \in {c \in Range(current) : c.id \in DOMAIN fs}}
                  \cup {SetId(id, fs[id]) : id \in read}]

\* update_group_from_backend(current, filter, crit): the held groups are
\* flattened, refreshed by update_from_backend, sorted by cmp_group
\* (sort_unstable_by: any order of equal elements) and chunked.  On an
\* error the caller keeps what it had.
UpdateGroups(crit) ==
    LET current == IF groups = None THEN <<>>
                   ELSE FlattenSeq([k \in DOMAIN groups.list |-> groups.list[k].snaps])
        r == FillMissing(current, files)
    IN /\ r.ok
       /\ \E order \in SetToSeqs(r.snaps) :
            /\ \A k \in 1..Len(order) - 1 : CmpGroup(crit, order[k], order[k + 1]) <= 0
            /\ groups' = [crit |-> crit, list |-> ChunkBy(order, crit), at |-> files]
       /\ UNCHANGED <<files, nextId, root>>

-----------------------------------------------------------------------------
(* The paths of a backup *)

\* PathList::merge, the retain pass over the sorted paths: a path that
\* starts_with the last kept root is dropped, else it is kept and becomes
\* the root.
RetainRoots(sorted) ==
    FoldLeft(LAMBDA acc, p : IF acc.root # None /\ IsPrefix(acc.root, p)
                             THEN acc
                             ELSE [root |-> p, out |-> Append(acc.out, p)],
             [root |-> None, out |-> <<>>], sorted).out

\* Mutant: the paths are not sorted first.
MergeUnsorted(ps) == RetainRoots(ps)

\* Mutant: each dropped path becomes the root (the previous path, not the
\* last kept one, is compared).
MergeLastPath(ps) ==
    FoldLeft(LAMBDA acc, p : IF acc.root # None /\ IsPrefix(acc.root, p)
                             THEN [acc EXCEPT !.root = p]
                             ELSE [root |-> p, out |-> Append(acc.out, p)],
             [root |-> None, out |-> <<>>],
             SortSeq(ps, LAMBDA a, b : SeqCmp(a, b) < 0)).out

\* PathList::merge: sort_unstable (Path's Ord compares component by
\* component), then keep only the paths under no kept root.
Merge(ps) ==
    RetainRoots(SortSeq(ps, LAMBDA a, b : SeqCmp(a, b) < 0))

-----------------------------------------------------------------------------
(* Modifying *)

\* StringList::add_all (add_list of each list, a BTreeSet append) and
\* remove_all (set difference with each list); a tag argument stands for
\* the union of the lists the caller passes.
AddAll(sl, tags) == sl \cup tags
RemoveAll(sl, tags) == sl \ tags

\* modify_sn(set, add, remove, delete): set_tags only if set is given,
\* then add_tags and remove_tags, then the delete option; each reports
\* whether it changed the snapshot, and the copy is returned if any did.
ModifySn(s, set, add, remove, delete) ==
    LET t1 == IF set = None THEN s.tags ELSE AddAll({}, set)
        t2 == AddAll(t1, add)
        t3 == RemoveAll(t2, remove)
        d  == IF delete = None THEN s.delete ELSE delete
        changed == \/ set # None /\ t1 # s.tags
                   \/ t2 # t1
                   \/ t3 # t2
                   \/ d # s.delete
    IN IF changed THEN [s EXCEPT !.tags = t3, !.delete = d] ELSE None

\* Contents of a snapshot file: what the snapshot holds without its id.
Contents(s) == [f \in DOMAIN s \ {"id"} |-> s[f]]

-----------------------------------------------------------------------------
(* The environment: other commands writing and deleting snapshot files *)

\* backup: a new snapshot file; its paths are the merged paths it was
\* given, collected into a StringList by set_paths.
Backup(w, ps) ==
    /\ nextId \in Id
    /\ files' = files @@ (nextId :> (w @@ [paths |-> Range(Merge(ps))]))
    /\ root' = root @@ (nextId :> nextId)
    /\ nextId' = nextId + 1
    /\ UNCHANGED groups

\* forget: a snapshot file is deleted.
Forget(id) ==
    /\ files' = [i \in DOMAIN files \ {id} |-> files[i]]
    /\ UNCHANGED <<nextId, root, groups>>

\* The tag command: the snapshot is read (set_id), modified, and if
\* modify_sn returns a copy, the copy is saved as a new file and the old
\* one deleted.
Modify(id, set, add, remove, delete) ==
    /\ id \notin Corrupt
    /\ LET m == ModifySn(SetId(id, files[id]), set, add, remove, delete)
       IN /\ m # None
          /\ nextId \in Id
          /\ files' = [i \in DOMAIN files \ {id} |-> files[i]] @@ (nextId :> Contents(m))
          /\ root' = root @@ (nextId :> root[id])
          /\ nextId' = nextId + 1
    /\ UNCHANGED groups

Init ==
    /\ files = <<>>
    /\ nextId = 1
    /\ root = <<>>
    /\ groups = None

DeleteArg == {None, "NotSet", "Never"}

Next ==
    \/ \E w \in Written, ps \in BackupPaths : Backup(w, ps)
    \/ \E id \in DOMAIN files : Forget(id)
    \/ \E id \in DOMAIN files, set \in {None} \cup TagArg, add, remove \in TagArg,
          delete \in DeleteArg : Modify(id, set, add, remove, delete)
    \/ \E crit \in Crits : UpdateGroups(crit)

Spec == Init /\ [][Next]_vars

-----------------------------------------------------------------------------
\* Spec 5 (latest~N): latest_n answers with the (n+1)-th newest snapshot
\* that decodes and matches the filter (at most n are newer, at least n + 1
\* are as new), and with an error iff there are no more than n: the k of
\* k_smallest_by, the len > n test and pop() must agree.
LatestNIsNth ==
    \A n \in 0..MaxN : \A r \in LatestN(n, files) :
        LET R == IterAll(files)
        IN IF Cardinality(R) <= n THEN r = None
           ELSE /\ r \in R
                /\ Cardinality({t \in R : t.time > r.time}) <= n
                /\ Cardinality({t \in R : t.time >= r.time}) >= n + 1

\* The grouped list a caller refreshes with update_group_from_backend is
\* the grouping of the backend as it was at the refresh, however the
\* snapshots changed since the list was first made: every snapshot that
\* decodes and matches is in it once, snapshots forgotten or replaced by a
\* modified copy are gone, each group holds only snapshots of its
\* SnapshotGroup, which has_group accepts and accepts for no other listed
\* group, and no group appears twice (sorting by cmp_group keeps each
\* group contiguous for chunk_by).
GroupsFresh ==
    groups # None =>
        LET L == groups.list
            all == FlattenSeq([k \in DOMAIN L |-> L[k].snaps])
        IN /\ Range(all) = IterAll(groups.at)
           /\ Len(all) = Cardinality(IterAll(groups.at))
           /\ \A k \in DOMAIN L : \A s \in Range(L[k].snaps) :
                 FromSnapshot(s, groups.crit) = L[k].group
           /\ \A k1, k2 \in DOMAIN L : \A s \in Range(L[k2].snaps) :
                 HasGroup(s, L[k1].group) <=> k1 = k2
           /\ \A k1, k2 \in DOMAIN L : k1 # k2 => L[k1].group # L[k2].group

\* original names the snapshot a modified snapshot was first written as:
\* set_id fills it in only when the file has none, and modify_sn keeps it,
\* so a chain of tag commands keeps pointing at the backup's snapshot.
OriginalIsRoot ==
    \A id \in DOMAIN files \ Corrupt : SetId(id, files[id]).original = root[id]

\* Every path of A lies under a path of B.
Under(A, B) == \A p \in A : \E q \in B : IsPrefix(q, p)

\* Backups given the same directories in different forms (in another
\* order, twice, or with subdirectories of given ones) record the same
\* paths, so that grouping by paths puts them together: PathList::merge
\* must sort before it retains, and compare with the last kept root.
SamePathsMerged ==
    \A i, j \in DOMAIN files :
        Under(files[i].paths, files[j].paths) /\ Under(files[j].paths, files[i].paths)
            => files[i].paths = files[j].paths

\* The tag command replaced file id by the new file nextId.
Retagged(id) == id \notin DOMAIN files' /\ nextId \in DOMAIN files'

\* modify_sn's doc comment: None is returned when the snapshot was not
\* changed, so a tag command writes a new snapshot file only when it
\* changed the snapshot: the file it saves differs from the one it read
\* (after set_id).  The code ORs the changed flags of set_tags, add_tags
\* and remove_tags, which are each compared with the tags before that call.
ModifyOnlyOnChange ==
    [][\A id \in DOMAIN files :
          Retagged(id) => files'[nextId] # Contents(SetId(id, files[id]))]_vars

============================================================
