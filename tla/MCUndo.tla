-------------------------------- MODULE MCUndo --------------------------------
(* UndoHistory for TLC. *)
EXTENDS UndoHistory, TLC

=============================================================================
