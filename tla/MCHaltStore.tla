---------------------------- MODULE MCHaltStore ----------------------------
EXTENDS HaltStore, TLC

\* Calls are interchangeable, and orgs whose rows are set in the same way.
Symmetric ==
  Permutations(Callers) \cup Permutations(Orgs \ Serialized)
=============================================================================
