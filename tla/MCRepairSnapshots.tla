-------------------------- MODULE MCRepairSnapshots --------------------------
(***************************************************************************)
(* Three snapshots over four trees: TF holds a file of blobs a and b, TD  *)
(* a directory TF, R1 the directory TF and a file whose recorded size is  *)
(* wrong, R2 the directory TD.  S3's root TD is shared with R2, so the    *)
(* memo of RepairState is used.  Any of the trees and blobs may be        *)
(* missing from the index.                                                 *)
(***************************************************************************)
EXTENDS RepairSnapshots

File(name, content, size) ==
    [type |-> "file", name |-> <<name>>, content |-> content, size |-> size,
     subtree |-> None]
Dir(name, tree) ==
    [type |-> "dir", name |-> <<name>>, content |-> <<>>, size |-> 0, subtree |-> tree]

TF == <<File(1, <<"a", "b">>, 2)>>
TD == <<Dir(1, TF)>>
R1 == <<Dir(1, TF), File(2, <<"a">>, 2)>>
R2 == <<Dir(2, TD)>>

MCData == {"a", "b"}
MCAllTrees == {TF, TD, R1, R2}
MCInitSnaps ==
    {[id |-> 1, tree |-> R1, original |-> None, tagged |-> FALSE],
     [id |-> 2, tree |-> R2, original |-> None, tagged |-> FALSE],
     [id |-> 3, tree |-> TD, original |-> None, tagged |-> FALSE]}

=============================================================================
