--------------------------- MODULE AncestorRealistic ---------------------------
(***************************************************************************)
(* AncestorRealistic::execute (funcdata_varnode.cc): whether the varnode   *)
(* in one input slot of a CALL or RETURN has a realistic ancestry for a    *)
(* parameter.  The walk is an explicit depth-first traversal: stateStack   *)
(* holds the path, each turn of execute's loop is enterNode (extend the   *)
(* path into state.vn) or uponPop (backtrack with a pop command), and     *)
(* every written varnode entered is marked so that a second path to it is *)
(* cut short with pop_success.                                             *)
(*                                                                         *)
(* The data-flow graph the walk reads is a record g: the kind of each      *)
(* varnode (its flags, or its defining op and the flags enterNode tests),  *)
(* the inputs of that op, and for a MULTIEQUAL the input slots s for which *)
(* checkConditionalExe succeeds when it takes s as the solid slot (its     *)
(* block has two in-edges and in-edge s has one out-edge).  The varnode    *)
(* under test is Root, read by the op Call.                                *)
(***************************************************************************)
EXTENDS Integers, Sequences, FiniteSets, Relation

CONSTANTS
    Vn,       \* varnodes
    Root,     \* op->getIn(slot), the varnode under test
    Call,     \* the CALL or RETURN op reading Root
    Graphs    \* the data-flow graphs the walk may be run on

\* Unwritten varnodes, by the flags enterNode tests (an input_persist is
\* taken to be directly written).
InputKinds == {"input_unaffected", "input_persist", "input_indirect", "input_direct"}
LeafKinds == InputKinds \cup {"free"}
\* Written varnodes, by their defining op and the flags enterNode tests:
\*  INDIRECT_create_zero: indirect creation whose input 0 isIndirectZero;
\*  INDIRECT_create: another indirect creation;
\*  INDIRECT_call_bad: INDIRECT through a call whose output is the return
\*    address, or whose trial isKilledByCall;
\*  INDIRECT: any other INDIRECT (the walk continues into input 0);
\*  COPY_path: a COPY or SUBPIECE into a temporary, into the same storage
\*    or from an incidental copy (the walk continues into input 0);
\*  COPY_solid: any other COPY or SUBPIECE;
\*  MULTIEQUAL; solid_op: LOAD or any arithmetic or logical op.
WrittenKinds == {"INDIRECT_create_zero", "INDIRECT_create", "INDIRECT_call_bad",
                 "INDIRECT", "COPY_path", "COPY_solid", "MULTIEQUAL", "solid_op"}
CopyKinds == {"COPY_path", "COPY_solid"}
Kinds == LeafKinds \cup WrittenKinds

ASSUME Root \in Vn /\ Call \notin Vn
\* The shape of a data-flow graph.
GraphType == [kind : [Vn -> Kinds], in : [Vn -> Seq(Vn)], condOk : [Vn -> SUBSET {0, 1}]]
ASSUME Graphs \subseteq GraphType

Commands == {"enter_node", "pop_success", "pop_solid", "pop_fail", "pop_failkill"}
SolidFlags == {"seen_solid0", "seen_solid1"}
\* A State of stateStack: op reads vn in input slot (0-based, as in C++).
States == [op : Vn \cup {Call}, slot : Nat, vn : Vn, flags : SUBSET (SolidFlags \cup {"seen_kill"})]

VARIABLES
    g,               \* the data-flow graph
    allowFail,       \* allowFailingPath
    retest,          \* trial->hasCondExeEffect() when execute is called
    condExeEffect,   \* the trial's flag, set by setCondExeEffect()
    indCreateFormed, \* the trial's flag, set by setIndCreateFormed()
    stack,           \* stateStack
    command,         \* the command the loop of execute runs next
    multiDepth,      \* multiDepth
    marked,          \* markedVn: varnodes carrying the mark
    pc,              \* "start", "walk" or "done"
    result           \* the value execute returns

vars == <<g, allowFail, retest, condExeEffect, indCreateFormed, stack, command,
          multiDepth, marked, pc, result>>

TypeOK ==
    /\ g \in GraphType /\ allowFail \in BOOLEAN /\ retest \in BOOLEAN
    /\ condExeEffect \in BOOLEAN /\ indCreateFormed \in BOOLEAN
    /\ stack \in Seq(States) /\ command \in Commands
    /\ multiDepth \in 0..Cardinality(Vn) /\ marked \subseteq Vn
    /\ pc \in {"start", "walk", "done"} /\ result \in BOOLEAN

\* The input of op v in (0-based) slot s, its number of inputs, its opcode.
In(v, s) == g.in[v][s + 1]
NumInput(v) == IF v = Call THEN 1 ELSE Len(g.in[v])
IsMulti(v) == v # Call /\ g.kind[v] = "MULTIEQUAL"
IsWritten(v) == g.kind[v] \in WrittenKinds

\* A trial whose condExeEffect is set is one being retested.
Init ==
    /\ g \in Graphs /\ allowFail \in BOOLEAN /\ retest \in BOOLEAN
    /\ condExeEffect = retest /\ indCreateFormed \in BOOLEAN
    /\ stack = <<>> /\ command = "enter_node" /\ multiDepth = 0
    /\ marked = {} /\ pc = "start" /\ result = FALSE

-----------------------------------------------------------------------------
\* The minimal traversal enterNode makes behind a solid COPY: along the
\* chain of COPY and SUBPIECE ops above it, an input that is unaffected or
\* not directly written fails the path.  (The code skips marked inputs,
\* but only written varnodes are ever marked.)
RECURSIVE CopyChainFails(_)
CopyChainFails(w) ==
    \/ g.kind[w] \in {"input_unaffected", "input_indirect"}
    \/ g.kind[w] \in CopyKinds /\ CopyChainFails(In(w, 0))

\* The pop command enterNode returns for the kinds that end the path.
LeafCommand(k) ==
    CASE k = "input_unaffected"     -> "pop_fail"
      [] k = "input_persist"        -> "pop_success"
      [] k = "input_indirect"       -> "pop_fail"
      [] k = "input_direct"         -> "pop_success"
      [] k = "free"                 -> "pop_success"
      [] k = "INDIRECT_create_zero" -> "pop_failkill"
      [] k = "INDIRECT_create"      -> "pop_success"
      [] k = "INDIRECT_call_bad"    -> "pop_fail"
      [] k = "solid_op"             -> "pop_solid"
      [] k = "COPY_solid"           -> "pop_solid"

\* execute: the trial's varnode itself an input is unrealistic unless the
\* trial is being retested; otherwise push the first State.
Start ==
    /\ pc = "start"
    /\ IF g.kind[Root] \in InputKinds /\ ~retest
       THEN pc' = "done" /\ result' = FALSE /\ UNCHANGED stack
       ELSE /\ pc' = "walk" /\ UNCHANGED result
            /\ stack' = <<[op |-> Call, slot |-> 0, vn |-> Root, flags |-> {}]>>
    /\ UNCHANGED <<g, allowFail, retest, condExeEffect, indCreateFormed, command,
                   multiDepth, marked>>

\* enterNode's first test: the varnode was already entered on some path.
Visited(v) == v \in marked

\* AncestorRealistic::enterNode on the top State: a marked varnode is cut
\* short with pop_success; an unwritten one ends the path by its flags; a
\* written one is marked, then INDIRECT, path COPYs and MULTIEQUAL push a
\* State for their input 0 (MULTIEQUAL adding to multiDepth), a solid COPY
\* checks its chain, and the other ops end the path.
EnterNode ==
    LET v == stack[Len(stack)].vn  k == g.kind[v] IN
    /\ pc = "walk" /\ stack # <<>> /\ command = "enter_node"
    /\ IF Visited(v)
       THEN command' = "pop_success"
            /\ UNCHANGED <<stack, multiDepth, marked, indCreateFormed>>
       ELSE
       /\ marked' = IF IsWritten(v) THEN marked \cup {v} ELSE marked
       /\ indCreateFormed' = (indCreateFormed \/ k \in {"INDIRECT_create_zero", "INDIRECT_create"})
       /\ IF k \in {"INDIRECT", "COPY_path", "MULTIEQUAL"}
          THEN /\ stack' = Append(stack, [op |-> v, slot |-> 0, vn |-> In(v, 0), flags |-> {}])
               /\ command' = "enter_node"
               /\ multiDepth' = IF k = "MULTIEQUAL" THEN multiDepth + 1 ELSE multiDepth
          ELSE /\ command' = IF k = "COPY_solid" /\ CopyChainFails(In(v, 0))
                             THEN "pop_fail" ELSE LeafCommand(k)
               /\ UNCHANGED <<stack, multiDepth>>
    /\ UNCHANGED <<g, allowFail, retest, condExeEffect, pc, result>>

\* State::getSolidSlot.
SolidSlot(fl) == IF "seen_solid0" \in fl THEN 0 ELSE 1

\* checkConditionalExe(state), called with the MULTIEQUAL's own State:
\* the solid slot is read from that State's flags.
CheckConditionalExe(st) == SolidSlot(st.flags) \in g.condOk[st.op]

\* The flags uponPop records in the State below a MULTIEQUAL's State for
\* a pop from its input st.slot: a solid at depth 1 of a two-input
\* MULTIEQUAL, or a failkill.
PopMark(cmd, st) ==
    IF cmd = "pop_solid" /\ multiDepth = 1 /\ NumInput(st.op) = 2
    THEN {IF st.slot = 0 THEN "seen_solid0" ELSE "seen_solid1"}
    ELSE IF cmd = "pop_failkill" THEN {"seen_kill"} ELSE {}

\* Mutant of MultiVerdict: a kill beside a solid is excused without
\* allowFailingPath.
MultiVerdict_NoAllowFail(fl, st) ==
    IF fl \cap SolidFlags # {} /\ "seen_kill" \in fl /\ ~CheckConditionalExe(st) THEN "pop_fail"
    ELSE IF fl \cap SolidFlags = {} /\ "seen_kill" \in fl THEN "pop_failkill"
    ELSE "pop_success"

\* The command uponPop passes on once every input of the MULTIEQUAL of
\* State st is walked, from the flags fl of the State below it.
MultiVerdict(fl, st) ==
    IF fl \cap SolidFlags # {} /\ "seen_kill" \in fl
       /\ ~(allowFail /\ CheckConditionalExe(st)) THEN "pop_fail"
    ELSE IF fl \cap SolidFlags = {} /\ "seen_kill" \in fl THEN "pop_failkill"
    ELSE "pop_success"

\* The branch of that verdict that calls trial->setCondExeEffect().
SetsCondExe(fl, st) ==
    fl \cap SolidFlags # {} /\ "seen_kill" \in fl /\ allowFail /\ CheckConditionalExe(st)

\* Mutant of DepthAfterPop: multiDepth lowered on every pop.
DepthAfterPop_Always(st) == multiDepth - 1

\* multiDepth once the State st is popped.
DepthAfterPop(st) == IF IsMulti(st.op) THEN multiDepth - 1 ELSE multiDepth

\* Mutant of NextSlot: the sibling index not advanced.
NextSlot_Stuck(st) == st.slot

\* state.slot += 1.
NextSlot(st) == st.slot + 1

\* AncestorRealistic::uponPop on the top State.  A State whose op is not a
\* MULTIEQUAL is popped and the command passed on; below a MULTIEQUAL a
\* fail is passed on at once; otherwise the pop is recorded in the State
\* below, the next input is entered, and after the last one the recorded
\* flags decide the command passed on.
UponPop ==
    LET n == Len(stack)  st == stack[n]  fl == stack[n - 1].flags \cup PopMark(command, st)
        next == NextSlot(st) IN
    /\ pc = "walk" /\ stack # <<>> /\ command # "enter_node"
    /\ IF ~IsMulti(st.op) \/ command = "pop_fail"
       THEN /\ stack' = SubSeq(stack, 1, n - 1)
            /\ multiDepth' = DepthAfterPop(st)
            /\ UNCHANGED <<command, condExeEffect>>
       ELSE IF next = NumInput(st.op)
       THEN /\ stack' = [SubSeq(stack, 1, n - 1) EXCEPT ![n - 1].flags = fl]
            /\ multiDepth' = DepthAfterPop(st)
            /\ command' = MultiVerdict(fl, st)
            /\ condExeEffect' = (condExeEffect \/ SetsCondExe(fl, st))
       ELSE /\ stack' = [stack EXCEPT ![n - 1].flags = fl,
                                      ![n] = [st EXCEPT !.slot = next, !.vn = In(st.op, next)]]
            /\ command' = "enter_node"
            /\ UNCHANGED <<multiDepth, condExeEffect>>
    /\ UNCHANGED <<g, allowFail, retest, indCreateFormed, marked, pc, result>>

\* The end of execute's loop: clear the marks and return true for a
\* success or solid command.
Finish ==
    /\ pc = "walk" /\ stack = <<>>
    /\ pc' = "done" /\ marked' = {}
    /\ result' = (command \in {"pop_success", "pop_solid"})
    /\ UNCHANGED <<g, allowFail, retest, condExeEffect, indCreateFormed, stack, command,
                   multiDepth>>

Next == Start \/ EnterNode \/ UponPop \/ Finish

\* Each turn of execute's loop is one step with nothing else running, so
\* the walk is weakly fair.
Spec == Init /\ [][Next]_vars /\ WF_vars(Next)

-----------------------------------------------------------------------------
(* The verdict as the walk is documented: every path judged on its own     *)
(* (no marks), a MULTIEQUAL combining the results of all of its inputs.   *)

RECURSIVE RefCmd(_, _)
\* The command a path into varnode v returns, with d MULTIEQUALs above v.
RefCmd(v, d) ==
    LET k == g.kind[v] IN
    IF k \in {"INDIRECT", "COPY_path"} THEN RefCmd(g.in[v][1], d)
    ELSE IF k = "COPY_solid" /\ CopyChainFails(g.in[v][1]) THEN "pop_fail"
    ELSE IF k # "MULTIEQUAL" THEN LeafCommand(k)
    ELSE LET n == Len(g.in[v])
             rs == [i \in 1..n |-> RefCmd(g.in[v][i], d + 1)]
             solid == IF d = 0 /\ n = 2 THEN {i - 1 : i \in {j \in 1..n : rs[j] = "pop_solid"}}
                      ELSE {}
             kill == \E i \in 1..n : rs[i] = "pop_failkill"
             solidSlot == IF 0 \in solid THEN 0 ELSE 1
         IN  IF \E i \in 1..n : rs[i] = "pop_fail" THEN "pop_fail"
             ELSE IF solid # {} /\ kill /\ ~(allowFail /\ solidSlot \in g.condOk[v])
                  THEN "pop_fail"
             ELSE IF solid = {} /\ kill THEN "pop_failkill"
             ELSE "pop_success"

RefVerdict ==
    IF g.kind[Root] \in InputKinds /\ ~retest THEN FALSE
    ELSE RefCmd(Root, 0) \in {"pop_success", "pop_solid"}

\* execute's loop has no exit but an empty stateStack: on every graph,
\* cycles through MULTIEQUALs included, the walk ends and leaves no
\* varnode marked (the marks of one trial would cut the next one's walk).
WalkTerminates == <>(pc = "done" /\ marked = {})

\* Whether g has no loop: the reference verdict is defined on such graphs.
ReadsRel == [p \in Vn \X Vn |-> \E i \in DOMAIN g.in[p[1]] : g.in[p[1]][i] = p[2]]
Loopless == IsIrreflexive(TransitiveClosure(ReadsRel, Vn), Vn)

\* execute's result is the verdict the walk is documented to compute: the
\* explicit stack, the sibling advance in uponPop, multiDepth, the flags
\* kept in the State below a MULTIEQUAL and the solid slot given to
\* checkConditionalExe implement the per-path rules, and cutting a second
\* path to a marked varnode short does not change the answer.
ResultMatchesReference == pc = "done" /\ Loopless => result = RefVerdict

=============================================================================
