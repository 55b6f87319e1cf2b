--------------------------- MODULE MCArtifactStore ---------------------------
(***************************************************************************)
(* One call; an empty content, one of single bytes, and one with a         *)
(* character of three bytes and a carriage return.                         *)
(***************************************************************************)
EXTENDS ArtifactStore, TLC

CONSTANTS nothing, ascii, wide

MCBoundary == nothing :> {0} @@ ascii :> {0, 1, 2} @@ wide :> {0, 1, 4, 5, 6}
=============================================================================
