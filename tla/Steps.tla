-------------------------------- MODULE Steps --------------------------------
(* A fold whose operator is a function, so that what it computes can be      *)
(* reasoned about.                                                           *)
EXTENDS SequencesExt

\* step applied to the elements of s, from the first to the last.
Steps(step, base, s) == FoldLeft(LAMBDA a, x : step[<<a, x>>], base, s)
=============================================================================
