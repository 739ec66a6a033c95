----------------------------- MODULE NonzeroMask -----------------------------
(***************************************************************************)
(* Funcdata::calcNZMask (funcdata_varnode.cc): the mask of the bits of     *)
(* each varnode that may be non-zero.  A depth-first pass from every live *)
(* op computes each output from its inputs, skipping the loop edges into  *)
(* a MULTIEQUAL; a worklist pass then recomputes the MULTIEQUALs with all  *)
(* their edges and pushes on the readers of every varnode whose mask      *)
(* changed.                                                                *)
(*                                                                         *)
(* PcodeOp::getNZMaskLocal (op.cc) is given for the opcodes of DataFlow:   *)
(* AND intersects its inputs' masks, OR and XOR join them, COPY passes its *)
(* input's, MULTIEQUAL joins the inputs it does not clip, and any other   *)
(* opcode gives the full mask of its size (the default case).  A varnode  *)
(* is created with every bit set (the Varnode constructor), a constant    *)
(* with its offset.                                                        *)
(***************************************************************************)
EXTENDS DataFlow

VARIABLE nzm   \* Varnode::nzm of every op output and input varnode

Masks == 0..Full
NZ(m, v) == IF IsConst(v) THEN Offset(v) ELSE m[v]

\* Mutant of GetNZMaskLocal: OR and XOR add the masks, unclipped to the size.
GetNZMaskLocal_NoClip(s, m, o, cliploop) ==
    LET in(i) == NZ(m, s.in[o][i])
        kept == {i \in DOMAIN s.in[o] : ~(cliploop /\ IsLoopIn(s, Parent(s, o), i))}
    IN  CASE s.code[o] = "INT_AND" -> in(1) & in(2)
          [] s.code[o] \in {"INT_OR", "INT_XOR"} -> in(1) + in(2)
          [] s.code[o] = "COPY" -> in(1)
          [] s.code[o] = "MULTIEQUAL" -> FoldSet(LAMBDA x, y : x | y, 0, {in(i) : i \in kept})
          [] OTHER -> Full

\* PcodeOp::getNZMaskLocal(cliploop).
GetNZMaskLocal(s, m, o, cliploop) ==
    LET in(i) == NZ(m, s.in[o][i])
        kept == {i \in DOMAIN s.in[o] : ~(cliploop /\ IsLoopIn(s, Parent(s, o), i))}
    IN  CASE s.code[o] = "INT_AND" -> in(1) & in(2)
          [] s.code[o] \in {"INT_OR", "INT_XOR"} -> in(1) | in(2)
          [] s.code[o] = "COPY" -> in(1)
          [] s.code[o] = "MULTIEQUAL" -> FoldSet(LAMBDA x, y : x | y, 0, {in(i) : i \in kept})
          [] OTHER -> Full

-----------------------------------------------------------------------------
(* The first pass: opstack and slotstack as one stack of <<op, slot>>,     *)
(* slots 0-based as in the code, and the ops marked so far.               *)

\* One turn of the do-while loop.
DfsStep(s, st) ==
    LET op == Last(st.stack)[1]
        slot == Last(st.stack)[2]
        adv == [st EXCEPT !.stack[Len(st.stack)] = <<op, slot + 1>>]
        vn == s.in[op][slot + 1]
    IN  IF slot >= Len(s.in[op])
        THEN [st EXCEPT !.stack = Front(@),
                        !.m = IF HasOut(s, op) THEN [@ EXCEPT ![op] = GetNZMaskLocal(s, st.m, op, TRUE)]
                              ELSE @]
        ELSE IF s.code[op] = "MULTIEQUAL" /\ IsLoopIn(s, Parent(s, op), slot + 1) THEN adv
        ELSE IF ~IsWritten(vn)
        THEN IF IsConst(vn) THEN adv ELSE [adv EXCEPT !.m[vn] = Full]
        ELSE IF vn \notin st.mark
        THEN [adv EXCEPT !.stack = Append(@, <<vn, 0>>), !.mark = @ \cup {vn}]
        ELSE adv

RECURSIVE DfsLoop(_, _)
DfsLoop(s, st) == IF st.stack = <<>> THEN st ELSE DfsLoop(s, DfsStep(s, st))

\* The first loop over the alive ops.
FirstPass(s, m) ==
    FoldLeft(LAMBDA st, o : IF o \in st.mark THEN st
                            ELSE DfsLoop(s, [st EXCEPT !.stack = <<<<o, 0>>>>, !.mark = @ \cup {o}]),
             [stack |-> <<>>, mark |-> {}, m |-> m], AliveOrder(s)).m

-----------------------------------------------------------------------------
(* The second pass.                                                        *)

\* Mutant of WorkLoop: the readers of a changed varnode are not pushed.
RECURSIVE WorkLoop_NoPush(_, _, _)
WorkLoop_NoPush(s, stack, m) ==
    IF stack = <<>> THEN m
    ELSE LET op == Last(stack)
             nm == GetNZMaskLocal(s, m, op, FALSE)
         IN  IF ~HasOut(s, op) \/ nm = m[op] THEN WorkLoop_NoPush(s, Front(stack), m)
             ELSE WorkLoop_NoPush(s, Front(stack), [m EXCEPT ![op] = nm])

\* The worklist loop.
RECURSIVE WorkLoop(_, _, _)
WorkLoop(s, stack, m) ==
    IF stack = <<>> THEN m
    ELSE LET op == Last(stack)
             nm == GetNZMaskLocal(s, m, op, FALSE)
         IN  IF ~HasOut(s, op) \/ nm = m[op] THEN WorkLoop(s, Front(stack), m)
             ELSE WorkLoop(s, Front(stack) \o DescendOps(s, op), [m EXCEPT ![op] = nm])

\* calcNZMask: the first pass, then the MULTIEQUALs of the alive list
\* pushed in order and the worklist run.
CalcNZMaskF(s, m) ==
    LET multis == SelectSeq(AliveOrder(s), LAMBDA o : s.code[o] = "MULTIEQUAL")
    IN  WorkLoop(s, multis, FirstPass(s, m))

CalcNZMask == nzm' = CalcNZMaskF(fn, nzm) /\ UNCHANGED fn

-----------------------------------------------------------------------------

\* The least masks the equations of getNZMaskLocal admit with every edge:
\* bit b of an op's mask is set when some run of the function can leave
\* bit b of its output set, reading every input varnode as any value.
RECURSIVE Lfp(_, _)
Lfp(s, m) ==
    LET m2 == [v \in DOMAIN m |-> IF v \in Live(s) /\ HasOut(s, v) THEN GetNZMaskLocal(s, m, v, FALSE) ELSE m[v]]
    IN  IF m2 = m THEN m ELSE Lfp(s, m2)
RefMask(s) == Lfp(s, [v \in Op \cup Free |-> IF v \in Free THEN Full ELSE 0])

\* Spec 4.4 lets rules rely on the known-zero mask as it was last
\* computed: so at every point, between calcNZMask calls and rewrites
\* alike, a bit that some run can set in a live op's output is set in its
\* nzm.  The loop edges clipped by the first pass must be caught up by the
\* worklist, through every reader of a MULTIEQUAL whose mask grew.
NZMaskSound ==
    LET r == RefMask(fn) IN
    \A o \in Live(fn) : HasOut(fn, o) => (r[o] | nzm[o]) = nzm[o]

=============================================================================
