----------------------------- MODULE MCMonitor ------------------------------
(* Monitor on small instances. *)
EXTENDS Monitor, TLC

Default == [mask |-> TRUE, interval |-> 30]

\* Only masking varies: for what is shown and stored.
MaskConfigs == {Default, [Default EXCEPT !.mask = FALSE]}

\* Both vary together.
BothConfigs == {Default, [mask |-> FALSE, interval |-> 5]}

\* Loop goroutines, and calls, are interchangeable.
Symmetry == Permutations(Loops) \cup Permutations(Handlers)
=============================================================================
