---------------------------- MODULE MCDefaultIface ----------------------------
(***************************************************************************)
(* Two links (say eth0 and the gateway's tunnel), one non-default          *)
(* destination, and tables of up to three routes: enough for a default     *)
(* route that is neither first nor last, and for tables with none.         *)
(***************************************************************************)
EXTENDS DefaultIface, TLC

CONSTANTS d1, nil

MCLinks == {1, 2}
=============================================================================
