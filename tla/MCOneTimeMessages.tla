------------------------- MODULE MCOneTimeMessages -------------------------
(* Instances of OneTimeMessages for TLC.                                   *)
EXTENDS OneTimeMessages
CONSTANTS o1, o2, m1, m2, m3
TwoOwners == {o1, o2}
ThreeMessages == {m1, m2, m3}
Swaps == Permutations(TwoOwners) \cup Permutations(ThreeMessages)
=============================================================================
