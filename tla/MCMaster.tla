------------------------------ MODULE MCMaster ------------------------------
EXTENDS Master, TLC

\* Clients differ only in the moment they connect.
Symmetry == Permutations(Clients)
=============================================================================
