----------------------------- MODULE MCAppliance -----------------------------
(* Instances of Appliance for TLC.                                         *)
EXTENDS Appliance

CONSTANTS h1, h2, main, c1
=============================================================================
