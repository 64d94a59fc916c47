----------------------------- MODULE MCSocketIO -----------------------------
EXTENDS SocketIO, TLC

\* Calls of Send are interchangeable.
CallSymmetry == Permutations(Reqs)
=============================================================================
