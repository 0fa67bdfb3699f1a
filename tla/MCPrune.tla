------------------------------- MODULE MCPrune -------------------------------
(***************************************************************************)
(* Inputs for checking Prune: two tree blobs and four data blobs.         *)
(***************************************************************************)
EXTENDS Prune

MCBlob == {"t1", "t2", "d1", "d2", "d3", "d4"}
MCTypeOf == [b \in MCBlob |-> IF b \in {"t1", "t2"} THEN "tree" ELSE "data"]

\* A new repository.
EmptyRepo == {[packs |-> <<>>, marked |-> <<>>, time |-> 0, snaps |-> <<>>]}

\* Two backups ran concurrently and both stored d1: one in pack
\* {d1, d2, d3}, the other in pack {d1, d4}; a later backup of t1, d1, d2
\* and d4 deduplicated against both, and the snapshots that used d3 were
\* forgotten.  Both data packs are partly used and both list d1 as used.
\* Its two snapshots use up MaxSnapId: no backup follows.
DupRepo == [packs |-> <<{"t1"}, {"d1", "d2", "d3"}, {"d1", "d4"}>>, marked |-> <<>>, time |-> 0,
            snaps |-> <<{"t1", "d1", "d2", "d4"}, {"t1", "d1", "d2"}>>]
EmptyOrDupRepo == EmptyRepo \cup {DupRepo}

\* A repository whose index entries carry no time (restic writes none),
\* one pack of it, {d2, d3}, marked for deletion: decide_packs must keep it
\* and correct it.  Index file 0 then lists MinIndexLen blobs, so only the
\* correction makes filter_index_files rewrite it.  Its one snapshot leaves
\* room for one backup.
LegacyRepo == [packs |-> <<{"t1"}, {"d1"}>>, marked |-> <<{"d2", "d3"}>>, time |-> None,
               snaps |-> <<{"t1", "d1"}>>]
EmptyOrLegacyRepo == EmptyRepo \cup {LegacyRepo}

\* One snapshot content: a second backup stores exactly what a forgotten
\* one stored, and so deduplicates against packs prune may be deleting.
SameContents == {{"t1", "d1"}}

\* Tree t1 with data d1 and d2, or with d1 only: forgetting the first
\* snapshot leaves its data pack partly used.
OverlapContents == {{"t1", "d1", "d2"}, {"t1", "d1"}}


\* Prune run without options, and with instant_delete and
\* early_delete_index together.
Plain == {[instant |-> FALSE, early |-> FALSE]}
InstantEarly == {[instant |-> TRUE, early |-> TRUE]}
PlainOrInstantEarly == Plain \cup InstantEarly

\* Packs of one to three blobs over d1 and d2, duplicates included (a
\* packer may write one blob twice), in lists of one or two packs.
SmallPack == UNION {[1..n -> {"d1", "d2"}] : n \in 1..3}
SmallPackLists == {<<p>> : p \in SmallPack} \cup {<<p, q>> : p, q \in SmallPack}

\* The packs of the repository in the current state, as blob lists.
RepoPackList == LET ids == SetToSeq(packs)
                IN [k \in DOMAIN ids |-> SetToSeq(packBlobs[ids[k]])]

\* PackInfo::from_pack on every small list of packs and set of used data
\* blobs (a constant, evaluated once).
SmallPacksExact == \A ps \in SmallPackLists, used \in SUBSET {"d1", "d2"} :
                      FromPackMarksOnce(ps, used) /\ \A k \in DOMAIN ps : FromPackAsSets(ps[k])

\* PackInfo::from_pack, threaded by decide_packs through every small list
\* of packs with duplicate blobs and through the packs of every reachable
\* repository (with the blobs its snapshots use), uses each used blob in exactly one place, and decides a
\* pack without duplicates as the set description FromPack says.
FromPackExact == /\ SmallPacksExact
                 /\ FromPackMarksOnce(RepoPackList, UNION {s.blobs : s \in snaps})

=============================================================================
