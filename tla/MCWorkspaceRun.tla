---------------------------- MODULE MCWorkspaceRun -----------------------------
(****************************************************************************)
(* Files and contents as model values.  Both are only compared, so they are *)
(* symmetric; all properties here are safety properties.                    *)
(****************************************************************************)
EXTENDS WorkspaceRun, TLC

CONSTANTS f, g, c1, c2

FilesAndContents == Permutations({f, g}) \cup Permutations({c1, c2})
================================================================================
