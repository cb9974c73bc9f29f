------------------------------ MODULE MCDriver ------------------------------
EXTENDS Driver, TLC
\* Permissions that need a human are interchangeable.
Symmetric == Permutations(Perms \ AutoApprove)
=============================================================================
