----------------------------- MODULE MCGateWalk -----------------------------
EXTENDS GateWalk

MCIds == {"a", "b", "c", "d"}

\* Every acyclic graph on four units (up to renaming) and every graph on three.
Acyclic == {[a |-> {}, b |-> B, c |-> C, d |-> D] :
              B \in SUBSET {"a"}, C \in SUBSET {"a", "b"}, D \in SUBSET {"a", "b", "c"}}
Cyclic == {[a |-> A, b |-> B, c |-> C, d |-> {}] :
             A, B, C \in SUBSET {"a", "b", "c"}}
MCMaps == Acyclic \cup Cyclic
=============================================================================
