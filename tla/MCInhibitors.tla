---------------------------- MODULE MCInhibitors ----------------------------
(***************************************************************************)
(* Values for TLC.  A few cookies wrap around while entries come and go;   *)
(* two clients are enough for one to stay while another one leaves.        *)
(***************************************************************************)
EXTENDS Inhibitors

CONSTANTS c1, c2

MCClients == {c1, c2}

=============================================================================
