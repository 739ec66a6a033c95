----------------------------- MODULE MC_IRStore -----------------------------
(* Instance of the data-flow store for TLC: two ops, three varnode ids and *)
(* two input slots per op, enough for an op reading one varnode twice, a   *)
(* constant offered to a second slot, a marker reader, and an op stealing  *)
(* another's output.  LinkBound caps the number of filled input slots in   *)
(* the whole store, which keeps the reader lists short.                    *)
EXTENDS IRStore

MC_Op == {"o1", "o2"}
MC_Vn == {"v1", "v2", "v3"}
LinkBound == 2
MC_TypeLocked == {"v3"}

Links == FoldFunction(LAMBDA q, n : n + Cardinality(DOMAIN q), 0, fd.ins)
StoreBound == Links <= LinkBound

=============================================================================
