------------------------------ MODULE MCGateways ------------------------------
(* Small instances of Gateways for TLC.                                    *)
EXTENDS Gateways, TLC

=============================================================================
