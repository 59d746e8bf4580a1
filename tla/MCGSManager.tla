---------------------------- MODULE MCGSManager ----------------------------
(***************************************************************************)
(* Values for TLC: three monitors, so that windows are added and removed   *)
(* next to some that stay, and a lock-after-screensaver of 0 and of 5 s.   *)
(***************************************************************************)
EXTENDS GSManager

MCLockAfterValues == {0, 5}

=============================================================================
