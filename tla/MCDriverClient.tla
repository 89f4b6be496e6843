----------------------------- MODULE MCDriverClient -----------------------------
(* Model values for DriverClient: calls are interchangeable. *)
EXTENDS DriverClient, TLC

CONSTANTS c1, c2, c3, b1

MCCalls    == {c1, c2, c3}
MCBpIds    == {b1}
MCSymmetry == Permutations(MCCalls)
=============================================================================
