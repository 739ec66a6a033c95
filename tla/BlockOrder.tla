------------------------------ MODULE BlockOrder ------------------------------
(***************************************************************************)
(* The order of the ops inside the basic blocks of one function, as the    *)
(* insertion methods of funcdata_op.cc keep it, and the Funcdata methods  *)
(* of this repository that place new ops through them.                     *)
(*                                                                         *)
(* The insertion methods promise three rules (funcdata_op.cc 312-316):     *)
(* the MULTIEQUALs of a block come first, the INDIRECTs of an op come      *)
(* immediately before it, and a branch is the last op of its block.  The   *)
(* callers keep their side of each rule.  A MULTIEQUAL is placed only by    *)
(* opInsertBegin, an INDIRECT only by its factories, and a branch only by  *)
(* opInsertEnd.  Nothing is inserted before a MULTIEQUAL or after a branch. *)
(*                                                                         *)
(* An op is an id of Op with one of five codes: MULTIEQUAL, INDIRECT,      *)
(* CALL (an op with an indirect effect: CALL, CALLIND, STORE), BRANCH (an  *)
(* op for which isFlowBreak holds) and COPY (every other opcode).  Varnodes *)
(* are left out.  For an INDIRECT the op its in(1) iop names is kept       *)
(* (eff).  For an op built by the stack helpers or descend2Undef, the op   *)
(* whose output it reads in the same block is kept (dep).                  *)
(***************************************************************************)
EXTENDS Naturals, Sequences, SequencesExt, FiniteSets

CONSTANTS
    Op,      \* op ids the op bank may allocate
    NoOp,    \* the null PcodeOp pointer
    Blocks,  \* the basic blocks
    Entry,   \* bblocks.getBlock(0)
    Pred     \* Pred[b][i] is getIn(i-1) of block b

ASSUME NoOp \notin Op /\ Entry \in Blocks /\ Pred \in [Blocks -> Seq(Blocks)]

Codes == {"MULTIEQUAL", "INDIRECT", "CALL", "BRANCH", "COPY"}

VARIABLE fd

\* The type, and the block lists as the obank's alive list: each alive op
\* in exactly one block, once, and no other op in any.
TypeOK ==
    /\ fd \in [os   : [Op -> {"none", "dead", "alive"}],
               code : [Op -> Codes],
               eff  : [Op -> Op \cup {NoOp}],
               dep  : [Op -> Op \cup {NoOp}],
               icr  : [Op -> BOOLEAN],
               blk  : [Blocks -> Seq(Op)]]
    /\ \A b \in Blocks : IsInjective(fd.blk[b])
    /\ \A o \in Op : fd.os[o] = "alive" <=> Cardinality({b \in Blocks : o \in ToSet(fd.blk[b])}) = 1

Init ==
    fd = [os |-> [o \in Op |-> "none"], code |-> [o \in Op |-> "COPY"],
          eff |-> [o \in Op |-> NoOp], dep |-> [o \in Op |-> NoOp],
          icr |-> [o \in Op |-> FALSE], blk |-> [b \in Blocks |-> <<>>]]

Alive(s) == {o \in Op : s.os[o] = "alive"}
SpareOp(s) == {o \in Op : s.os[o] = "none"}
\* PcodeOp::getParent and getBasicIter of an op in a block.
Parent(s, o) == CHOOSE b \in Blocks : o \in ToSet(s.blk[b])
Pos(s, o) == CHOOSE i \in DOMAIN s.blk[Parent(s, o)] : s.blk[Parent(s, o)][i] = o
IsFlowBreak(s, o) == s.code[o] = "BRANCH"
\* The codes a given position holds in block b (or "end" past the last op).
CodeAt(s, b, i) == IF i > Len(s.blk[b]) THEN "end" ELSE s.code[s.blk[b][i]]
\* Mutant of PastMarkers: the loop over the MULTIEQUALs is dropped.
PastMarkers_NoSkip(s, b, p) == p

\* The first position at or after p that does not hold a MULTIEQUAL.
PastMarkers(s, b, p) ==
    Min({k \in p..Len(s.blk[b]) + 1 : CodeAt(s, b, k) # "MULTIEQUAL"})

-----------------------------------------------------------------------------
(* Insertion (funcdata_op.cc).                                             *)

\* newOp: obank.create a dead op; opSetOpcode gives its code.
NewOpF(s, o, c) ==
    [s EXCEPT !.os[o] = "dead", !.code[o] = c, !.eff[o] = NoOp, !.dep[o] = NoOp,
              !.icr[o] = FALSE]

\* Mutant of OpInsertF: obank.markAlive is left out.
OpInsertF_NoMarkAlive(s, o, b, i) == [s EXCEPT !.blk[b] = InsertAt(@, i, o)]

\* opInsert: obank.markAlive, bl->insert(iter, op).
OpInsertF(s, o, b, i) == [s EXCEPT !.os[o] = "alive", !.blk[b] = InsertAt(@, i, o)]

\* opUninsert: obank.markDead, removeOp from its parent.
OpUninsertF(s, o) ==
    [s EXCEPT !.os[o] = "dead", !.blk[Parent(s, o)] = RemoveAt(@, Pos(s, o))]

\* opInsertBefore: an op other than an INDIRECT is moved back over the run
\* of INDIRECTs that precedes follow.
OpInsertBeforeF(s, o, follow) ==
    LET b == Parent(s, follow)
        p == Pos(s, follow)
        i == IF s.code[o] # "INDIRECT"
             THEN Min({k \in 1..p : \A j \in k..p - 1 : CodeAt(s, b, j) = "INDIRECT"})
             ELSE p
    IN  OpInsertF(s, o, b, i)

\* Mutant of OpInsertAfterF: prev is used as given, INDIRECT or not.
OpInsertAfterF_NoRedirect(s, o, prev) ==
    LET b == Parent(s, prev)
        i == IF s.code[o] # "MULTIEQUAL" THEN PastMarkers(s, b, Pos(s, prev) + 1)
             ELSE Pos(s, prev) + 1
    IN  OpInsertF(s, o, b, i)

\* opInsertAfter: an INDIRECT prev stands for the op its iop names (every
\* INDIRECT's in(1) is an iop here); an op other than a MULTIEQUAL is moved
\* forward over the MULTIEQUALs that follow.
OpInsertAfterF(s, o, prev) ==
    LET a == IF s.code[prev] = "INDIRECT" THEN s.eff[prev] ELSE prev
        b == Parent(s, a)
        i == IF s.code[o] # "MULTIEQUAL" THEN PastMarkers(s, b, Pos(s, a) + 1)
             ELSE Pos(s, a) + 1
    IN  OpInsertF(s, o, b, i)

\* opInsertBegin: an op other than a MULTIEQUAL goes after the MULTIEQUALs.
OpInsertBeginF(s, o, b) ==
    OpInsertF(s, o, b, IF s.code[o] # "MULTIEQUAL" THEN PastMarkers(s, b, 1) ELSE 1)

\* Mutant of OpInsertEndF: the new op always goes last.
OpInsertEndF_Last(s, o, b) == OpInsertF(s, o, b, Len(s.blk[b]) + 1)

\* opInsertEnd: last, or just before a final op that breaks flow.
OpInsertEndF(s, o, b) ==
    LET q == s.blk[b]
    IN  OpInsertF(s, o, b, IF q # <<>> /\ IsFlowBreak(s, Last(q)) THEN Len(q) ELSE Len(q) + 1)

-----------------------------------------------------------------------------
(* Methods that build ops and place them (funcdata_op.cc,                  *)
(* funcdata_varnode.cc).  The ids a, g, t, ... are the ops obank.create     *)
(* returns, chosen by the caller of the operator among the spare ids.       *)

\* newOpBefore: a new op with a unique output, placed before follow.
NewOpBeforeF(s, o, follow) == OpInsertBeforeF(NewOpF(s, o, "COPY"), o, follow)

\* newIndirectOp: a new INDIRECT whose in(1) is the iop of indeffect,
\* placed before indeffect.  newIndirectCreation is the same op with the
\* indirect_creation flag set (cr) and a constant for in(0).
NewIndirectOpF(s, o, e, cr) ==
    OpInsertBeforeF([NewOpF(s, o, "INDIRECT") EXCEPT !.eff[o] = e, !.icr[o] = cr], o, e)

\* setIndirectCreation: an existing op becomes an indirectly creating
\* INDIRECT of indeffect.
SetIndirectCreationF(s, o, e) ==
    OpInsertBeforeF([s EXCEPT !.code[o] = "INDIRECT", !.eff[o] = e, !.icr[o] = TRUE], o, e)

\* createStackRef: an INT_ADD after or before op; with a segment op for the
\* space, a SEGMENTOP reading it, placed after the INT_ADD.  The result is
\* the new state and the op defining the returned varnode.
CreateStackRefF(s, op, after, seg, a, g) ==
    LET s1 == NewOpF(s, a, "COPY")
        s2 == IF after THEN OpInsertAfterF(s1, a, op) ELSE OpInsertBeforeF(s1, a, op)
    IN  IF seg THEN <<OpInsertAfterF([NewOpF(s2, g, "COPY") EXCEPT !.dep[g] = a], g, a), g>>
        ELSE <<s2, a>>

\* Mutant of OpStackStoreF: the STORE goes to the same side of op as the
\* stack reference instead of after the reference.
OpStackStoreF_SameSide(s, op, after, seg, a, g, t) ==
    LET r  == CreateStackRefF(s, op, after, seg, a, g)
        s1 == [NewOpF(r[1], t, "CALL") EXCEPT !.dep[t] = r[2]]
    IN  IF after THEN OpInsertAfterF(s1, t, op) ELSE OpInsertBeforeF(s1, t, op)

\* opStackStore: createStackRef, then a STORE reading its result, placed
\* after the op defining that result.
OpStackStoreF(s, op, after, seg, a, g, t) ==
    LET r  == CreateStackRefF(s, op, after, seg, a, g)
        s1 == [NewOpF(r[1], t, "CALL") EXCEPT !.dep[t] = r[2]]
    IN  OpInsertAfterF(s1, t, r[2])

\* opStackLoad: the same with a LOAD.
OpStackLoadF(s, op, after, seg, a, g, t) ==
    LET r  == CreateStackRefF(s, op, after, seg, a, g)
        s1 == [NewOpF(r[1], t, "COPY") EXCEPT !.dep[t] = r[2]]
    IN  OpInsertAfterF(s1, t, r[2])

\* descend2Undef, for each reader in descendant order: a MULTIEQUAL reads a
\* COPY of the constant placed at the end of the in-block of its slot; an
\* INDIRECT reads a COPY placed before it; any other op reads the constant.
\* rd[k] is the k-th reader with the slot sl[k], id[k] the id of its COPY.
Descend2UndefF(s, rd, sl, id) ==
    LET Step(t, k) ==
          CASE t.code[rd[k]] = "MULTIEQUAL" ->
                 OpInsertEndF(NewOpF(t, id[k], "COPY"), id[k], Pred[Parent(t, rd[k])][sl[k]])
            [] t.code[rd[k]] = "INDIRECT" ->
                 [OpInsertBeforeF(NewOpF(t, id[k], "COPY"), id[k], rd[k])
                    EXCEPT !.dep[rd[k]] = id[k]]
            [] OTHER -> t
    IN  FoldLeft(Step, s, [k \in DOMAIN rd |-> k])

\* splitUses: for each reader of op's output, in descendant order, a new op
\* with op's code and inputs (so the same iop and the same def in the
\* block) is placed before op, and the reader reads its output.  asg[r] is
\* the position in the reader list of a reader r that is in op's block.
SplitUsesF(s, op, id, asg) ==
    LET Copy(t, k) ==
          OpInsertBeforeF([NewOpF(t, id[k], t.code[op]) EXCEPT !.eff[id[k]] = t.eff[op],
                                                          !.dep[id[k]] = t.dep[op]], id[k], op)
        s1 == FoldLeft(Copy, s, [k \in DOMAIN id |-> k])
    IN  [s1 EXCEPT !.dep = [o \in Op |-> IF o \in DOMAIN asg THEN id[asg[o]] ELSE @[o]]]

\* adjustInputVarnodes: for each input varnode inside the range, a SUBPIECE
\* placed at the beginning of block 0.  The k-th input that is not a proper
\* piece of the range throws "Bad adjustment to input varnode" after the
\* SUBPIECEs of the inputs before it are in place; n is the number placed.
AdjustInputVarnodesF(s, id, n) ==
    FoldLeft(LAMBDA t, k : OpInsertBeginF(NewOpF(t, id[k], "COPY"), id[k], Entry),
             s, [k \in 1..n |-> k])

-----------------------------------------------------------------------------
(* The operations.  A guard is the caller's side of the ordering rules     *)
(* (see the header), or what the code dereferences: an anchor op is in a  *)
(* block, an op to insert is not.                                          *)

\* An op a rule may place again: not in a block, neither a MULTIEQUAL nor
\* an INDIRECT nor a branch, and not bound to the op whose output it reads.
Placeable(s, o) == s.os[o] = "dead" /\ s.dep[o] = NoOp /\ s.code[o] \in {"CALL", "COPY"}
BeforeOk(s, f) == f \in Alive(s) /\ s.code[f] # "MULTIEQUAL"
AfterOk(s, p) == p \in Alive(s) /\ ~IsFlowBreak(s, p)
AnchorOk(s, op, after) == IF after THEN AfterOk(s, op) ELSE BeforeOk(s, op)
EndsInBranch(s, b) == s.blk[b] # <<>> /\ IsFlowBreak(s, Last(s.blk[b]))
\* Ops that another op names through its iop or reads in its block.
Referenced(s) == {s.eff[o] : o \in Op \ SpareOp(s)} \cup {s.dep[o] : o \in Op \ SpareOp(s)}
\* Injective id assignments of length n from the spare ids.
Fresh(s, n) == {id \in [1..n -> SpareOp(s)] : \A i, j \in 1..n : i # j => id[i] # id[j]}

NewOp(o, c) == o \in SpareOp(fd) /\ fd' = NewOpF(fd, o, c)

OpInsertBefore(o, f) == Placeable(fd, o) /\ BeforeOk(fd, f) /\ fd' = OpInsertBeforeF(fd, o, f)

OpInsertAfter(o, p) == Placeable(fd, o) /\ AfterOk(fd, p) /\ fd' = OpInsertAfterF(fd, o, p)

OpInsertBegin(o, b) ==
    /\ fd.os[o] = "dead" /\ fd.dep[o] = NoOp /\ fd.code[o] \in {"MULTIEQUAL", "CALL", "COPY"}
    /\ fd' = OpInsertBeginF(fd, o, b)

OpInsertEnd(o, b) ==
    /\ fd.os[o] = "dead" /\ fd.dep[o] = NoOp /\ fd.code[o] \in {"BRANCH", "CALL", "COPY"}
    /\ IsFlowBreak(fd, o) => ~EndsInBranch(fd, b)
    /\ fd' = OpInsertEndF(fd, o, b)

\* An op whose INDIRECTs or readers are still in a block stays in it.
OpUninsert(o) == o \in Alive(fd) /\ o \notin Referenced(fd) /\ fd' = OpUninsertF(fd, o)

\* opDestroyRaw: obank.destroy of a dead op nothing refers to.
OpDestroyRaw(o) ==
    /\ fd.os[o] = "dead" /\ o \notin Referenced(fd)
    /\ fd' = [fd EXCEPT !.os[o] = "none", !.code[o] = "COPY", !.eff[o] = NoOp,
                    !.dep[o] = NoOp, !.icr[o] = FALSE]

NewOpBefore(o, f) == o \in SpareOp(fd) /\ BeforeOk(fd, f) /\ fd' = NewOpBeforeF(fd, o, f)

IndirectOk(o, e) == o \in SpareOp(fd) /\ e \in Alive(fd) /\ fd.code[e] = "CALL"

NewIndirectOp(o, e) == IndirectOk(o, e) /\ fd' = NewIndirectOpF(fd, o, e, FALSE)

NewIndirectCreation(o, e) == IndirectOk(o, e) /\ fd' = NewIndirectOpF(fd, o, e, TRUE)

SetIndirectCreation(o, e) ==
    /\ Placeable(fd, o) /\ e \in Alive(fd) /\ fd.code[e] = "CALL"
    /\ fd' = SetIndirectCreationF(fd, o, e)

StackOk(op, after, seg, a, g) ==
    /\ AnchorOk(fd, op, after) /\ a \in SpareOp(fd)
    /\ seg => g \in SpareOp(fd) \ {a}

CreateStackRef(op, after, seg, a, g) ==
    StackOk(op, after, seg, a, g) /\ fd' = CreateStackRefF(fd, op, after, seg, a, g)[1]

OpStackStore(op, after, seg, a, g, t) ==
    /\ StackOk(op, after, seg, a, g) /\ t \in SpareOp(fd) \ {a, g}
    /\ fd' = OpStackStoreF(fd, op, after, seg, a, g, t)

OpStackLoad(op, after, seg, a, g, t) ==
    /\ StackOk(op, after, seg, a, g) /\ t \in SpareOp(fd) \ {a, g}
    /\ fd' = OpStackLoadF(fd, op, after, seg, a, g, t)

\* The readers are alive ops (blocks are never dead here); a MULTIEQUAL
\* reads vn through the slot of one of its in-blocks.
Descend2Undef(rd, sl, id) ==
    /\ \A k \in DOMAIN rd :
         /\ rd[k] \in Alive(fd)
         /\ fd.code[rd[k]] = "MULTIEQUAL" => sl[k] \in DOMAIN Pred[Parent(fd, rd[k])]
    /\ fd' = Descend2UndefF(fd, rd, sl, id)

\* splitUses is not for ops with side effects (its documentation); it
\* returns early when op's output has fewer than two readers.  The readers
\* in op's block are those whose dep is op.
SplitUses(op, id, asg) ==
    /\ op \in Alive(fd) /\ fd.code[op] \notin {"CALL", "BRANCH"} /\ Len(id) >= 2
    /\ DOMAIN asg = {r \in Op : fd.dep[r] = op}
    /\ \A r1, r2 \in DOMAIN asg : r1 # r2 => asg[r1] # asg[r2]
    /\ fd' = SplitUsesF(fd, op, id, asg)

AdjustInputVarnodes(id) == fd' = AdjustInputVarnodesF(fd, id, Len(id))

\* Bounds of the enumerated inputs: readers of a varnode, inputs adjusted.
MaxReaders == 2
MaxSlots == 2

Next ==
    \/ \E o \in Op :
         \/ OpUninsert(o) \/ OpDestroyRaw(o)
         \/ \E c \in Codes \ {"INDIRECT"} : NewOp(o, c)
         \/ \E b \in Blocks : OpInsertBegin(o, b) \/ OpInsertEnd(o, b)
         \/ \E f \in Op :
              \/ OpInsertBefore(o, f) \/ OpInsertAfter(o, f) \/ NewOpBefore(o, f)
              \/ NewIndirectOp(o, f) \/ NewIndirectCreation(o, f)
              \/ SetIndirectCreation(o, f)
    \/ \E op \in Alive(fd), after \in BOOLEAN, a \in SpareOp(fd) :
         \/ CreateStackRef(op, after, FALSE, a, a)
         \/ \E t \in SpareOp(fd) \ {a} :
              OpStackStore(op, after, FALSE, a, a, t) \/ OpStackLoad(op, after, FALSE, a, a, t)
         \/ \E g \in SpareOp(fd) \ {a} :
              \/ CreateStackRef(op, after, TRUE, a, g)
              \/ \E t \in SpareOp(fd) \ {a, g} :
                   OpStackStore(op, after, TRUE, a, g, t) \/ OpStackLoad(op, after, TRUE, a, g, t)
    \/ \E n \in 1..MaxReaders : \E rd \in [1..n -> Alive(fd)], sl \in [1..n -> 1..MaxSlots] :
         \E id \in Fresh(fd, n) : Descend2Undef(rd, sl, id)
    \/ \E n \in 1..MaxReaders : \E id \in Fresh(fd, n) : AdjustInputVarnodes(id)
    \/ \E op \in Alive(fd), n \in 2..MaxReaders : \E id \in Fresh(fd, n) :
         \E asg \in [{r \in Op : fd.dep[r] = op} -> 1..n] : SplitUses(op, id, asg)

Spec == Init /\ [][Next]_fd

-----------------------------------------------------------------------------
(* Properties.                                                             *)

\* The MULTIEQUALs of every block come before all its other ops, through
\* opInsertBegin, opInsertAfter skipping the MULTIEQUALs after prev, and
\* every helper that places an op relative to another.
MarkersFirst ==
    \A b \in Blocks : \A i, j \in DOMAIN fd.blk[b] :
        i < j /\ fd.code[fd.blk[b][j]] = "MULTIEQUAL" => fd.code[fd.blk[b][i]] = "MULTIEQUAL"

\* Every INDIRECT in a block sits in the run of INDIRECTs right before the op
\* its iop names: opInsertBefore steps back over that run and opInsertAfter
\* replaces an INDIRECT prev by its op, so no later insertion splits them.
IndirectsBeforeEffect ==
    \A o \in Alive(fd) : fd.code[o] = "INDIRECT" =>
        LET e == fd.eff[o] IN
        /\ e \in Alive(fd) /\ Parent(fd, e) = Parent(fd, o) /\ Pos(fd, o) < Pos(fd, e)
        /\ \A j \in Pos(fd, o) + 1 .. Pos(fd, e) - 1 : CodeAt(fd, Parent(fd, o), j) = "INDIRECT"

\* A branch stays the last op of its block: opInsertEnd and opInsertAfter
\* place new ops before it, descend2Undef's COPYs at the end of an in-block
\* included.
BranchLast ==
    \A b \in Blocks : \A i \in DOMAIN fd.blk[b] :
        IsFlowBreak(fd, fd.blk[b][i]) => i = Len(fd.blk[b])

\* An op built to read the output of another op of the same block (the
\* SEGMENTOP, STORE and LOAD of the stack helpers, an INDIRECT reading
\* descend2Undef's COPY) comes after it, whichever side of op insertafter
\* chose.
DefBeforeUse ==
    \A o \in Alive(fd) : fd.dep[o] # NoOp =>
        /\ fd.dep[o] \in Alive(fd) /\ Parent(fd, fd.dep[o]) = Parent(fd, o)
        /\ Pos(fd, fd.dep[o]) < Pos(fd, o)

=============================================================================
