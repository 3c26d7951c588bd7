---------------------------- MODULE MCCollectorPull ----------------------------
\* CollectorPull for TLC: the calls, the workers of the one collector and the
\* pull requests are interchangeable.
EXTENDS CollectorPull

Symmetry == Permutations(Tasks) \cup Permutations(Lanes) \cup Permutations(Pulls)
=============================================================================
