-------------------------------- MODULE MCCopy --------------------------------
(***************************************************************************)
(* Two source snapshots over three trees sharing the subtree T2.  The     *)
(* destination is empty, or holds T2 and its blob d2 with a snapshot of   *)
(* another host taken at the same time as A.                              *)
(***************************************************************************)
EXTENDS Copy

MCTree == {"T1", "T2", "T3"}
MCData == {"d1", "d2"}
MCSubtrees == [t \in MCTree |-> IF t = "T2" THEN {} ELSE {"T2"}]
MCContents == [t \in MCTree |-> IF t = "T2" THEN {"d2"} ELSE {"d1"}]

SnapA == [time |-> 1, host |-> "h1", tree |-> "T1", parent |-> None]
SnapB == [time |-> 2, host |-> "h1", tree |-> "T3", parent |-> "A"]
Other == [time |-> 1, host |-> "h2", tree |-> "T2", parent |-> None]

MCSnap == {SnapA, SnapB}
MCDestSnapChoice == {{}, {Other}}
MCDestBlobChoice == {{}, {"T2", "d2"}}

=============================================================================
