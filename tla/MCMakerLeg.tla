---------------------------- MODULE MCMakerLeg ----------------------------
(***************************************************************************)
(* Small instances of MakerLeg.  Two lots and three orders are enough for  *)
(* a partial fill, a replacement, and a replacement of the replacement.    *)
(***************************************************************************)
EXTENDS MakerLeg
=============================================================================
