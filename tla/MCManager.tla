----------------------------- MODULE MCManager -----------------------------
\* Small instances of SocketManager for TLC.
EXTENDS SocketManager, TLC

CONSTANTS p1, p2, a, b, h1, h2, h3

TwoProcs == {p1, p2}
OneName == {a}
TwoNames == {a, b}
TwoObjects == {h1, h2}
ThreeObjects == {h1, h2, h3}

\* Goroutines, names and objects are interchangeable: sound for the safety
\* runs, which are the only ones that use it.
Symmetry ==
  Permutations(Proc) \union Permutations(Name) \union Permutations(Shared)
=============================================================================
