------------------------------ MODULE MCGSGrab ------------------------------
(***************************************************************************)
(* Values for TLC: three monitors, so that a grab moves from window to     *)
(* window and the one it is on can go while two stay.                     *)
(***************************************************************************)
EXTENDS GSGrab

MCLockAfterValues == {5}

=============================================================================
