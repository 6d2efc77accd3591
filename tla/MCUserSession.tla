---------------------------- MODULE MCUserSession ----------------------------
(***************************************************************************)
(* Instances of UserSession for TLC: two or three nodes and inputs, as      *)
(* model values.                                                           *)
(***************************************************************************)
EXTENDS UserSessionProperties, UserSessionRefinement, TLC

CONSTANTS n1, n2, n3, i1, i2, i3

TwoNodes == {n1, n2}
ThreeNodes == {n1, n2, n3}
TwoInputs == {i1, i2}
ThreeInputs == {i1, i2, i3}
NoNodes == {}
OneNodeFails == {n1}

OutputSize == {4}
NoNewConfig == {}
SmallerSize == {2}      \* an output of 4 bytes is two blocks of 2: valid
OtherSize == {3}        \* an output of 4 bytes is no whole number of 3s
BothSizes == {2, 3}

ZeroedMemory == {0}
AnyMemory == {0, 4}     \* 4: with three nodes and inputs no counter passes 7

\* Nodes that fail alike, and inputs, are interchangeable (safety runs only).
Symmetric == Permutations(ThreeNodes) \cup Permutations(ThreeInputs)
=============================================================================
