------------------------------ MODULE MCSubagents ------------------------------
(****************************************************************************)
(* Two children as model values.  Ids are only compared, so they are        *)
(* symmetric; all properties here are safety properties.                    *)
(****************************************************************************)
EXTENDS Subagents, TLC

CONSTANTS c1, c2

ChildIds == Permutations({c1, c2})
================================================================================
