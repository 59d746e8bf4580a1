------------------------- MODULE MCLightLockerCommand -------------------------
(***************************************************************************)
(* Values for TLC: one light-locker-command next to any other client.      *)
(***************************************************************************)
EXTENDS MCInhibitors, LightLockerCommand

MCCommands == {c1}

=============================================================================
