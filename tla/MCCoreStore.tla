---------------------------- MODULE MCCoreStore -----------------------------
(* CoreStore with ids and labels that may be exchanged for one another.    *)
EXTENDS CoreStore, TLC

Interchangeable == Permutations(Franchises) \cup Permutations(Seasons) \cup Permutations(Labels)
=============================================================================
