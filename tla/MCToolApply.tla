--------------------------- MODULE MCToolApply ---------------------------
(* Instances of ToolApply for TLC. *)
EXTENDS ToolApply
=============================================================================
