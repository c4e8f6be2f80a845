------------------------- MODULE MCSenderProfiles --------------------------
(***************************************************************************)
(* Instance of SenderProfiles for TLC.                                     *)
(***************************************************************************)
EXTENDS SenderProfiles, TLC

\* The requests are interchangeable: no definition singles one out.
Symmetry == Permutations(Requests)
=============================================================================
