-------------------------- MODULE MCTargetSequencer --------------------------
(* Small recorded routes for TargetSequencer. *)
EXTENDS TargetSequencer

Types == <<"normal", "corner", "normal">>
Ramp == [types |-> Types, slope |-> <<TRUE, FALSE, FALSE>>]
Flat == [types |-> Types, slope |-> <<FALSE, FALSE, FALSE>>]
RampThenFlat == <<Ramp, Flat>>
=============================================================================
