------------------------------ MODULE MCTenancy ------------------------------
EXTENDS Tenancy, TLC

\* Requests are, and so are user ids, interchangeable.
Symmetric ==
  Permutations(Requests) \cup Permutations(Users)
=============================================================================
