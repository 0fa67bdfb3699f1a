---------------------------- MODULE MCSnapshotFile ----------------------------
(***************************************************************************)
(* Inputs for checking SnapshotFile: three snapshots a backup may write.   *)
(***************************************************************************)
EXTENDS SnapshotFile

Snap(t, h, l, tags) ==
    [time |-> t, host |-> h, label |-> l, tags |-> tags, delete |-> "NotSet",
     original |-> None]

\* Two hosts, two labels, two times: two snapshots of host 1 with the same
\* time, one of host 2 that the filter leaves out.
MCWritten == {Snap(1, 1, 1, {1}), Snap(2, 1, 2, {}), Snap(2, 2, 1, {1})}

\* Grouping by all fields, and by host alone.
MCCrits == {{"hostname", "label", "tags"}, {"hostname"}}

\* A tag command names no tag or tag 2 (tag 1 is the backups').
MCTagArg == {{}, {2}}

\* Directories 1 and 2, once given plainly and once out of order, with 2
\* twice and with the subdirectories 1/1 and 1/2 of 1.
MCBackupPaths == {<<<<1>>, <<2>>>>, <<<<2>>, <<1, 2>>, <<1>>, <<1, 1>>, <<2>>>>}
================================================================
