---------------------------------- MODULE Cse ----------------------------------
(***************************************************************************)
(* Common subexpression elimination (funcdata_op.cc): cseEliminateList    *)
(* over the (hash, op) list built from the descend list of one varnode,   *)
(* and cseElimination, which merges two ops computing the same value into *)
(* the one that dominates the other, or into a new op at the end of the   *)
(* deepest block dominating both.                                          *)
(*                                                                         *)
(* The caller that builds the list is not in the repository: the list     *)
(* holds one entry per (op, slot) of the varnode's descend list, in any   *)
(* order, each with the hash of its op.  The hash (HashOf, by opcode) and  *)
(* PcodeOp::isCseMatch (op.cc) are taken from their documented contract:  *)
(* equal ops have equal hashes, and isCseMatch holds for two unary or      *)
(* binary ops, other than COPY, with the same opcode and the same inputs.  *)
(* The CBRANCH ending a block stands for the uses that CSE must keep.     *)
(***************************************************************************)
EXTENDS DataFlow

CONSTANT TermDepth   \* how deep ValuesKept unfolds a value

VARIABLE fn0   \* the graph the function started from

\* The orderings of a finite set.
RECURSIVE Perms(_)
Perms(S) == IF S = {} THEN {<<>>} ELSE UNION {{<<x>> \o p : p \in Perms(S \ {x})} : x \in S}

\* The (hash, op, slot) entries for the descend list of v.
Entries(g, v) == {<<HashOf[g.code[e[1]]], e[1], e[2]>> : e \in Descend(g, v)}

\* The list after stable_sort(list, compareCseHash) for every order of the
\* descend list: the groups of equal hash in ascending hash order, each
\* group in any order.
RECURSIVE SortedLists(_, _)
SortedLists(E, hs) ==
    IF hs = {} THEN {<<>>}
    ELSE LET h == Min(hs)
         IN  {p \o r : p \in Perms({e \in E : e[1] = h}), r \in SortedLists(E, hs \ {h})}

\* PcodeOp::isCseMatch.
IsCseMatch(s, a, b) ==
    /\ s.code[a] = s.code[b]
    /\ s.code[a] \in {"INT_AND", "INT_OR", "INT_XOR"}
    /\ s.in[a] = s.in[b]

-----------------------------------------------------------------------------
(* The Funcdata edits cseElimination makes.                                *)

\* totalReplace(vn, newvn): every read of vn, in every slot, reads newvn.
TotalReplaceF(s, vn, newvn) ==
    [s EXCEPT !.in = [o \in Op |->
        IF o \in Live(s) THEN [i \in DOMAIN s.in[o] |-> IF s.in[o][i] = vn THEN newvn ELSE s.in[o][i]]
        ELSE s.in[o]]]

\* opDestroy: the output is destroyed, the inputs unlinked, and the op
\* removed from its block (markDead).
OpDestroyF(s, o) == [s EXCEPT !.blk[Parent(s, o)] = RemoveFirst(@, o)]

\* opInsertEnd: at the end of bl, but before a final flow-break op.
OpInsertEndF(s, o, bl) ==
    LET q == s.blk[bl]
        at == IF q # <<>> /\ IsFlowBreak(s, Last(q)) THEN Len(q) ELSE Len(q) + 1
    IN  [s EXCEPT !.blk[bl] = InsertAt(q, at, o)]

\* The new op of cseElimination: newOp, opSetOpcode, newVarnodeOut at
\* op1's storage (heritaged as op1's is), the inputs of op1 (a constant is
\* copied by newConstant, the same offset), then opInsertEnd in common.
NewCommonOpF(s, n, op1, common) ==
    OpInsertEndF([s EXCEPT !.code[n] = s.code[op1], !.in[n] = s.in[op1], !.her[n] = s.her[op1]],
                 n, common)

\* Mutant of CseEliminationF: in one block the later op is kept.
CseEliminationF_Later(s, op1, op2) ==
    LET b1 == Parent(s, op1)  b2 == Parent(s, op2)
        replace == IF b1 = b2 THEN (IF Pos(s, op1) > Pos(s, op2) THEN op1 ELSE op2)
                   ELSE IF FindCommonBlock(s, b1, b2) = b1 THEN op1 ELSE op2
        s1 == IF replace # op1 THEN OpDestroyF(TotalReplaceF(s, op1, replace), op1) ELSE s
    IN  IF replace # op2 THEN OpDestroyF(TotalReplaceF(s1, op2, replace), op2) ELSE s1

\* cseElimination(data, op1, op2): the op that stays, and the graph.
CseEliminationF(s, op1, op2) ==
    LET b1 == Parent(s, op1)  b2 == Parent(s, op2)
        common == FindCommonBlock(s, b1, b2)
        n == CHOOSE o \in Spare(s) : TRUE
        neither == b1 # b2 /\ common # b1 /\ common # b2
        replace == IF b1 = b2 THEN (IF Pos(s, op1) < Pos(s, op2) THEN op1 ELSE op2)
                   ELSE IF common = b1 THEN op1
                   ELSE IF common = b2 THEN op2
                   ELSE n
        s0 == IF neither THEN NewCommonOpF(s, n, op1, common) ELSE s
        s1 == IF replace # op1 THEN OpDestroyF(TotalReplaceF(s0, op1, replace), op1) ELSE s0
    IN  IF replace # op2 THEN OpDestroyF(TotalReplaceF(s1, op2, replace), op2) ELSE s1

\* Mutant of ListStep: a hash match is merged without isCseMatch.
ListStep_NoMatch(s, e1, e2) ==
    LET op1 == e1[2]  op2 == e2[2] IN
    IF /\ e1[1] = e2[1] /\ op1 \in Live(s) /\ op2 \in Live(s)
       /\ s.her[op1] /\ s.her[op2]
    THEN CseEliminationF(s, op1, op2) ELSE s

\* One turn of cseEliminateList's loop, on adjacent entries e1 and e2.
ListStep(s, e1, e2) ==
    LET op1 == e1[2]  op2 == e2[2] IN
    IF /\ e1[1] = e2[1] /\ op1 \in Live(s) /\ op2 \in Live(s)
       /\ IsCseMatch(s, op1, op2)
       /\ s.her[op1] /\ s.her[op2]
    THEN CseEliminationF(s, op1, op2) ELSE s

\* cseEliminateList on the sorted list L.
CseEliminateListF(s, L) ==
    FoldLeft(LAMBDA acc, i : ListStep(acc, L[i], L[i + 1]), s, [i \in 1..(Len(L) - 1) |-> i])

-----------------------------------------------------------------------------

\* CSE over the readers of v; a merge of two ops in blocks neither of which
\* dominates the other takes an id from the op bank, which holds Op.
CseEliminateList(v) ==
    LET E == Entries(fn, v) IN
    /\ Spare(fn) # {}
    /\ \E L \in SortedLists(E, {e[1] : e \in E}) : fn' = CseEliminateListF(fn, L)
    /\ UNCHANGED fn0

CseNext == \E v \in Free \cup Live(fn) : CseEliminateList(v)

-----------------------------------------------------------------------------
(* Properties.                                                             *)

\* Spec 4.4: a rewrite keeps the bit-exact value of everything computed.
\* After any series of cseEliminateList calls, every op alive from the
\* start computes the value it computed at the start (its term unfolded
\* TermDepth levels), although its inputs may now be other ops: an op
\* merged away is read through the op that replaced it.
ValuesKept ==
    \A o \in Live(fn) \cap Live(fn0) : Term(fn, o, TermDepth) = Term(fn0, o, TermDepth)

\* SSA form survives cseElimination: every input of a live op is written by
\* a live op before it in its block or in a dominating block (the in-edge's
\* block for a MULTIEQUAL).  Keeping the later of two ops in one block
\* would read a value before it is written.  Where in its block the new op
\* of a common block goes (before or after the branch) is not read here.
DefDominatesUse == \A o \in Live(fn) : \A i \in DOMAIN fn.in[o] : DefReaches(fn, o, i)

=============================================================================
