----------------------------- MODULE UseAnalysis -----------------------------
(***************************************************************************)
(* The parameter-use queries of funcdata_varnode.cc: onlyOpUse,          *)
(* ancestorOpUse and checkCallDoubleUse.  A trial is the ParamTrial of    *)
(* input slot tslot (0-based) of a call or return op opmatch; invn is the *)
(* varnode the trial tests.  onlyOpUse follows the data-flow forward from  *)
(* invn, through every reader's output, and fails at the first reader     *)
(* that uses the value (a branch, LOAD, STORE, another call or return, or *)
(* a persistent output); ancestorOpUse first walks back through the      *)
(* varnode's copies, MULTIEQUALs and INDIRECTs to the varnode to test.    *)
(*                                                                         *)
(* FuncCallSpecs (fspec.cc) is not in the repository: getCallSpecs gives  *)
(* the graph's ent, iact and tr of the op, and getTrialForInputVarnode(j) *)
(* the trial of input slot j.                                              *)
(***************************************************************************)
EXTENDS DataFlow

CONSTANT MaxLevel   \* the maxlevel the caller passes to ancestorOpUse

\* PcodeOp::getSlot: the first 0-based slot of op reading vn.
GetSlot(g, op, vn) == Min({i \in DOMAIN g.in[op] : g.in[op][i] = vn}) - 1

\* PcodeOp::getIn for a 0-based slot.
InAt(g, op, j) == g.in[op][j + 1]

\* checkCallDoubleUse(opmatch, op, vn, trial): TRUE when the read of vn by
\* the call op is no reason to reject the trial.
CheckCallDoubleUse(g, opmatch, op, vn, trial) ==
    LET j == GetSlot(g, op, vn)
        cur == g.tr[op][j]
        sameFn == IF g.code[opmatch] = "CALL" THEN g.ent[opmatch] = g.ent[op]
                  ELSE InAt(g, op, 0) = InAt(g, opmatch, 0)
    IN  IF j <= 0 THEN FALSE
        ELSE IF /\ g.code[op] = g.code[opmatch] /\ sameFn /\ cur.addr = trial.addr
                /\ (Parent(g, op) = Parent(g, opmatch) => Pos(g, opmatch) < Pos(g, op))
        THEN TRUE
        ELSE g.iact[op] /\ (~cur.checked \/ ~cur.active)

\* The read of vn by op is the trial's own read, or another call's or
\* return's read that onlyOpUse lets pass: it is skipped, output and all.
Skip(g, opmatch, trial, op, vn) ==
    \/ op = opmatch /\ InAt(g, op, trial.slot) = vn
    \/ g.code[op] \in {"CALL", "CALLIND"} /\ CheckCallDoubleUse(g, opmatch, op, vn, trial)
    \/ /\ g.code[op] = "RETURN" /\ g.code[opmatch] = "RETURN"
       /\ InAt(g, op, trial.slot) = vn

\* The read of vn by op is a use of the value.
IsUse(g, opmatch, trial, op, vn) ==
    /\ ~Skip(g, opmatch, trial, op, vn)
    /\ g.code[op] \in {"BRANCH", "CBRANCH", "BRANCHIND", "LOAD", "STORE", "CALL", "CALLIND", "RETURN"}

-----------------------------------------------------------------------------
(* onlyOpUse: varlist with its read index i, res, and the marks.         *)

\* Mutant of ReaderStep: a skipped read still has its output followed.
ReaderStep_FollowSkipped(g, opmatch, trial, vn, st, op) ==
    LET sub == op IN
    IF ~st.res THEN st
    ELSE IF IsUse(g, opmatch, trial, op, vn) THEN [st EXCEPT !.res = FALSE]
    ELSE IF ~HasOut(g, op) THEN st
    ELSE IF "persist" \in g.vf[sub] THEN [st EXCEPT !.res = FALSE]
    ELSE IF sub \in st.mark THEN st
    ELSE [st EXCEPT !.list = Append(@, sub), !.mark = @ \cup {sub}]

\* One turn of the loop over vn's descend list; once res is false the
\* loop has broken and the turn does nothing.
ReaderStep(g, opmatch, trial, vn, st, op) ==
    LET sub == op IN
    IF ~st.res \/ Skip(g, opmatch, trial, op, vn) THEN st
    ELSE IF IsUse(g, opmatch, trial, op, vn) THEN [st EXCEPT !.res = FALSE]
    ELSE IF ~HasOut(g, op) THEN st
    ELSE IF "persist" \in g.vf[sub] THEN [st EXCEPT !.res = FALSE]
    ELSE IF sub \in st.mark THEN st
    ELSE [st EXCEPT !.list = Append(@, sub), !.mark = @ \cup {sub}]

\* The while loop over varlist, bounded by the number of varnodes.
RECURSIVE VarLoop(_, _, _, _)
VarLoop(g, opmatch, trial, st) ==
    IF ~st.res \/ st.i >= Len(st.list) THEN st
    ELSE LET vn == st.list[st.i + 1]
             st1 == FoldLeft(LAMBDA a, op : ReaderStep(g, opmatch, trial, vn, a, op),
                             [st EXCEPT !.i = @ + 1], DescendOps(g, vn))
         IN  VarLoop(g, opmatch, trial, st1)

\* onlyOpUse(invn, opmatch, trial); the marks are cleared on return.
OnlyOpUse(g, invn, opmatch, trial) ==
    VarLoop(g, opmatch, trial, [list |-> <<invn>>, i |-> 0, res |-> TRUE, mark |-> {invn}]).res

-----------------------------------------------------------------------------

\* ancestorOpUse(maxlevel, invn, op, trial): the verdict, and whether it
\* called trial.setRemFormed on the way.
RECURSIVE AncestorOpUse(_, _, _, _, _)
AncestorOpUse(g, maxlevel, invn, op, trial) ==
    LET only == [res |-> OnlyOpUse(g, invn, op, trial), rem |-> FALSE]
        no == [res |-> FALSE, rem |-> FALSE]
        def == invn
        \* The loop over the inputs of a MULTIEQUAL or INDIRECT, stopping at
        \* the first ancestor that passes.
        anyIn == FoldLeft(LAMBDA a, v : IF a.res THEN a
                                        ELSE LET r == AncestorOpUse(g, maxlevel - 1, v, op, trial)
                                             IN  [res |-> r.res, rem |-> a.rem \/ r.rem],
                          no, g.in[def])
        remFormed == /\ IsConst(InAt(g, def, 1)) /\ Offset(InAt(g, def, 1)) = 0
                     /\ IsWritten(InAt(g, def, 0))
                     /\ g.code[InAt(g, def, 0)] = "INT_REM"
    IN  IF maxlevel = 0 THEN no
        ELSE IF ~IsWritten(invn)
        THEN IF ~IsConst(invn) /\ "input" \in g.vf[invn] /\ "typelock" \in g.vf[invn] THEN only ELSE no
        ELSE CASE g.code[def] = "INDIRECT" /\ "indcreate" \in g.vf[def] -> no
               [] g.code[def] \in {"INDIRECT", "MULTIEQUAL"} -> anyIn
               [] g.code[def] = "COPY" /\ g.vf[invn] \cap {"internal", "addrforce"} # {} ->
                      AncestorOpUse(g, maxlevel - 1, InAt(g, def, 0), op, trial)
               [] g.code[def] = "PIECE" -> AncestorOpUse(g, maxlevel - 1, InAt(g, def, 1), op, trial)
               [] g.code[def] = "SUBPIECE" -> [only EXCEPT !.rem = remFormed]
               [] g.code[def] \in {"CALL", "CALLIND"} -> no
               [] OTHER -> only

-----------------------------------------------------------------------------
(* What the queries promise.                                              *)

\* The varnodes the value of invn flows into: the outputs of the readers
\* that neither skip nor use it, and are not persistent.
RECURSIVE FlowSet(_, _, _, _)
FlowSet(g, opmatch, trial, S) ==
    LET N == S \cup {op \in Live(g) :
                       /\ HasOut(g, op) /\ "persist" \notin g.vf[op]
                       /\ \E v \in S : \E e \in Descend(g, v) :
                            e[1] = op /\ ~Skip(g, opmatch, trial, op, v) /\ ~IsUse(g, opmatch, trial, op, v)}
    IN  IF N = S THEN S ELSE FlowSet(g, opmatch, trial, N)

\* invn is used only by the trial: no reader of its flow uses it, or makes
\* it persistent.
RefOnlyUse(g, invn, opmatch, trial) ==
    \A v \in FlowSet(g, opmatch, trial, {invn}) : \A e \in Descend(g, v) :
        ~Skip(g, opmatch, trial, e[1], v) =>
            ~IsUse(g, opmatch, trial, e[1], v) /\ ~(HasOut(g, e[1]) /\ "persist" \in g.vf[e[1]])

\* The varnodes ancestorOpUse may test for invn, d levels deep, through
\* MULTIEQUALs, non-creating INDIRECTs, internal COPYs and PIECEs.
RECURSIVE Chain(_, _, _)
Chain(g, v, d) ==
    IF d = 0 THEN {}
    ELSE {v} \cup
         IF ~IsWritten(v) THEN {}
         ELSE IF g.code[v] = "MULTIEQUAL" \/ (g.code[v] = "INDIRECT" /\ "indcreate" \notin g.vf[v])
         THEN UNION {Chain(g, g.in[v][i], d - 1) : i \in DOMAIN g.in[v]}
         ELSE IF g.code[v] = "COPY" /\ g.vf[v] \cap {"internal", "addrforce"} # {}
         THEN Chain(g, InAt(g, v, 0), d - 1)
         ELSE IF g.code[v] = "PIECE" THEN Chain(g, InAt(g, v, 1), d - 1)
         ELSE {}

\* Spec 4.4 (parameter recovery): a call input is kept as a parameter only
\* when the value is used for nothing but that call.  For the trial of
\* every input slot of every call and return, onlyOpUse's breadth-first
\* walk with marks and early breaks gives exactly the verdict of the
\* closure above, and an ancestorOpUse pass names a varnode on the copy
\* chain whose flow reaches no use (an unwritten one being a type-locked
\* input), and it sets remformed only for a SUBPIECE of an INT_REM there.
TrialUseSound ==
    \A opm \in Live(fn) : fn.code[opm] \in {"CALL", "CALLIND", "RETURN"} =>
        \A s \in 1..(Len(fn.in[opm]) - 1) :
            LET trial == [addr |-> fn.tr[opm][s].addr, slot |-> s]
                invn == InAt(fn, opm, s)
                r == AncestorOpUse(fn, MaxLevel, invn, opm, trial)
                C == Chain(fn, invn, MaxLevel)
            IN  /\ OnlyOpUse(fn, invn, opm, trial) = RefOnlyUse(fn, invn, opm, trial)
                /\ r.res => \E a \in C : /\ IsWritten(a) \/ {"input", "typelock"} \subseteq fn.vf[a]
                                        /\ RefOnlyUse(fn, a, opm, trial)
                /\ r.rem => \E a \in C : /\ IsWritten(a) /\ fn.code[a] = "SUBPIECE"
                                        /\ IsWritten(InAt(fn, a, 0))
                                        /\ fn.code[InAt(fn, a, 0)] = "INT_REM"

=============================================================================
