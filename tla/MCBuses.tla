------------------------------- MODULE MCBuses -------------------------------
(***************************************************************************)
(* Values for TLC: two light-lockers race with each other and with another *)
(* screen saver.                                                           *)
(***************************************************************************)
EXTENDS Buses

CONSTANTS l1, l2, r

MCLockers == {l1, l2}
OneLocker == {l1}
MCRivals == {r}

=============================================================================
