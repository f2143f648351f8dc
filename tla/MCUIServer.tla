---------------------------- MODULE MCUIServer ----------------------------
(***************************************************************************)
(* UIServer for TLC.  Generate requests are interchangeable where none of  *)
(* them is wedged, so the safety run explores one of each orbit: no safety *)
(* property of UIServer, nor the refinement of RunSlot (a safety property  *)
(* too), names a particular request.                                       *)
(***************************************************************************)
EXTENDS UIServer, TLC

GenSymmetry == Permutations(Gens)

===========================================================================
