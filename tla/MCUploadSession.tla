--------------------------- MODULE MCUploadSession ---------------------------
(* Values of the constants of UploadSession for TLC. *)
EXTENDS UploadSession, TLC

MCSymmetry == Permutations(Tabs)
=============================================================================
