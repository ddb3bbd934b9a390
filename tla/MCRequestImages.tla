---------------------------- MODULE MCRequestImages ----------------------------
(* Small instances of RequestImages.                                         *)
EXTENDS RequestImages, TLC

CONSTANTS u1, u2, u3, u4

TwoUploads == {u1, u2}
FourUploads == {u1, u2, u3, u4}

Symmetry == Permutations(Uploads)
=============================================================================
