------------------------------- MODULE MCCJson -------------------------------
EXTENDS CJson, TLC

\* Addresses are interchangeable.
Addresses == Permutations(Items)
==============================================================================
