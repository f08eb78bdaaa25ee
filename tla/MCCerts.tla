------------------------------ MODULE MCCerts ------------------------------
(***************************************************************************)
(* Small instances of Certs for TLC.                                       *)
(***************************************************************************)
EXTENDS Certs

BothServers == {"webhook", "metrics"}
=============================================================================
