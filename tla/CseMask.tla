-------------------------------- MODULE CseMask --------------------------------
(***************************************************************************)
(* The known-zero masks of calcNZMask and the CSE pass on one function.   *)
(* The rules that read Varnode::getNZMask run between calcNZMask calls    *)
(* while CSE rewrites the graph: a mask computed before a rewrite must    *)
(* still hold after it, and a fresh calcNZMask on a rewritten graph must  *)
(* be as sound as on the original.  The parameter-use queries read the    *)
(* same graph, before and after each rewrite, and markIndirectOnly may    *)
(* flag the inputs at any point, before or after a rewrite.               *)
(***************************************************************************)
EXTENDS Cse, NonzeroMask, UseAnalysis, IndirectOnly

CONSTANT Graphs   \* the functions the pass may start from

vars == <<fn, fn0, nzm>>

\* Every varnode is created with every bit possibly non-zero.
Init ==
    /\ fn \in Graphs
    /\ fn0 = fn
    /\ nzm = [v \in Op \cup Free |-> Full]

Next ==
    \/ CseNext /\ UNCHANGED nzm
    \/ CalcNZMask /\ UNCHANGED fn0
    \/ MarkIndirectOnly /\ UNCHANGED <<fn0, nzm>>

Spec == Init /\ [][Next]_vars

\* The shape of the state.
TypeOK ==
    /\ fn \in GraphType
    /\ nzm \in [Op \cup Free -> Masks]

\* An input flagged indirectonly by markIndirectOnly is, in the current
\* graph (after any CSE rewrite since), read only by INDIRECTs and by
\* MULTIEQUALs whose outputs are in turn read only that way.
IndirectOnlySound ==
    \A v \in Free : "indirectonly" \in fn.vf[v] => OnlyIndirectReads(fn, v)

=============================================================================
