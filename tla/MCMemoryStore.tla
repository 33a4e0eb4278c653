---------------------------- MODULE MCMemoryStore ---------------------------
EXTENDS MemoryStore, TLC

\* Ids are drawn at random and the specification tells no two of them apart.
Interchangeable == Permutations(Ids)
=============================================================================
