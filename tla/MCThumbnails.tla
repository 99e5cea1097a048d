---------------------------- MODULE MCThumbnails ----------------------------
(* Small instances of Thumbnails. *)
EXTENDS Thumbnails, TLC

CONSTANTS f1, f2

FileSymmetry == Permutations(Files)
=============================================================================
