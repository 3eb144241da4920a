--------------------------- MODULE MCEPollPoller ----------------------------
(* Three channels and a vector of events that starts with one entry.       *)
EXTENDS EPollPoller, TLC

CONSTANTS c1, c2, c3

MCChan == {c1, c2, c3}
Symmetry == Permutations(MCChan)
=============================================================================
