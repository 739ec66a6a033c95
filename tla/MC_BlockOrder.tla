---------------------------- MODULE MC_BlockOrder ----------------------------
(* Instance of the block order for TLC: four op ids in two blocks, the     *)
(* entry b1 and a loop block b2 entered from b1 and from itself, so that   *)
(* a MULTIEQUAL of b2 has an in-block of each kind.  Four ids hold two     *)
(* MULTIEQUALs with an op after them, a CALL with two INDIRECTs and an op *)
(* placed among them, or a stack reference with its SEGMENTOP and STORE.  *)
EXTENDS BlockOrder, TLC


MC_Blocks == {"b1", "b2"}
MC_Pred == [b \in MC_Blocks |-> IF b = "b1" THEN <<>> ELSE <<"b1", "b2">>]
OpSymmetry == Permutations(Op)

=============================================================================
