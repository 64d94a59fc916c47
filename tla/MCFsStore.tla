------------------------------ MODULE MCFsStore ------------------------------
EXTENDS FsStore, TLC

\* Locks are interchangeable, and so are the goroutines and the chats.
StoreSymmetry == Permutations(Locks) \union Permutations(Procs) \union Permutations(Keys)
=============================================================================
