------------------------- MODULE MCRestoreContents -------------------------
(***************************************************************************)
(* Two files restored from three data blobs: x and y next to each other  *)
(* in pack 1, z in pack 2.  A file may be absent from the destination,    *)
(* hold its content, hold part of it, hold junk or be too long.           *)
(***************************************************************************)
EXTENDS RestoreContents

MCFile == {1, 2}
MCBlob == {"x", "y", "z"}
MCPackOf == [b \in MCBlob |-> IF b = "z" THEN 2 ELSE 1]
MCOffsetOf == [b \in MCBlob |-> IF b = "y" THEN 1 ELSE 0]
MCContentChoice == {<<>>, <<"x">>, <<"x", "y">>, <<"y", "z">>}
MCExistingChoice == {None, <<>>, <<"x">>, <<"x", "y">>, <<Junk, "y">>,
                     <<"x", "y", Junk>>}

=============================================================================
