------------------------------ MODULE MCCompaction -----------------------------
(****************************************************************************)
(* Compaction over small token counts: 1 and 3 for events and summaries,    *)
(* rooms of 2 and 5 and a suffix of 2 to keep.  An event may be larger than *)
(* the suffix and than the smaller room; two events fit, or do not.         *)
(****************************************************************************)
EXTENDS Compaction
================================================================================
