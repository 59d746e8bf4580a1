---------------------------- MODULE MCScreenSaver ----------------------------
(***************************************************************************)
(* Values for TLC: those of LightLocker, with two settings switched at run *)
(* time and a screen saver that is off at the start.                       *)
(***************************************************************************)
EXTENDS MCLightLocker, ScreenSaver

SuspendSettings == {"lockOnSuspend", "lateLocking"}

SaverOff == {FALSE}

=============================================================================
