------------------------- MODULE MC_AncestorRealistic -------------------------
(***************************************************************************)
(* Model-checking instance of AncestorRealistic.  Varnodes are 1..N with  *)
(* Root = 1; the graphs are built from a set of kinds, each varnode's      *)
(* inputs drawn from the varnodes numbered above it (acyclic families) or *)
(* from all varnodes (cyclic family), with every varnode but Root read at *)
(* least once so that each one is on some path from Root.                 *)
(***************************************************************************)
EXTENDS AncestorRealistic

MC_Vn4 == 1..4
MC_Root == 1
MC_Call == 0

\* The kinds the families use: one unwritten varnode that passes and one
\* that fails, the two indirect creations, a solid op, and the three kinds
\* the walk or the chain check continues through.
MC_Kinds == {"input_unaffected", "input_direct", "INDIRECT_create_zero", "INDIRECT_create",
             "solid_op", "COPY_path", "COPY_solid", "MULTIEQUAL"}

Arity(k) == CASE k = "MULTIEQUAL" -> 2
              [] k \in {"COPY_path", "COPY_solid", "INDIRECT"} -> 1
              [] OTHER -> 0

\* The kind and input list varnode v may have, its inputs drawn from Up.
Node(v, Up) == UNION {{[kind |-> k, in |-> s] : s \in [1..Arity(k) -> Up]} : k \in MC_Kinds}

RECURSIVE NodeLists(_, _)
\* Every choice of node for varnodes 1..i.
NodeLists(i, Acyclic) ==
    IF i = 0 THEN {<<>>}
    ELSE {Append(s, n) : s \in NodeLists(i - 1, Acyclic),
                         n \in Node(i, IF Acyclic THEN {w \in Vn : w > i} ELSE Vn)}

\* The number of input slots reading w (Call reads Root).
Readers(in, w) ==
    (IF w = Root THEN 1 ELSE 0)
    + Cardinality({<<v, i>> \in Vn \X (1..2) : i <= Len(in[v]) /\ in[v][i] = w})

\* The checkConditionalExe outcomes: one of CondChoices for each MULTIEQUAL.
CondFns(kd, CondChoices) ==
    LET multi == {v \in Vn : kd[v] = "MULTIEQUAL"} IN
    {[v \in Vn |-> IF v \in multi THEN h[v] ELSE {}] : h \in [multi -> CondChoices]}

Graphs4(Acyclic, ReaderOk(_), CondChoices) ==
    UNION { {[kind |-> [v \in Vn |-> ns[v].kind], in |-> [v \in Vn |-> ns[v].in], condOk |-> c] :
               c \in CondFns([v \in Vn |-> ns[v].kind], CondChoices)}
            : ns \in {f \in NodeLists(Cardinality(Vn), Acyclic) :
                        \A w \in Vn : ReaderOk(Readers([v \in Vn |-> f[v].in], w))} }

\* checkConditionalExe's answer independent of the solid slot.
SlotFree == {{}, {0, 1}}

\* Trees: every varnode read by exactly one input slot.
TreeGraphs == Graphs4(TRUE, LAMBDA r : r = 1, SlotFree)
\* Trees in which checkConditionalExe may hold for one slot only.
TreeGraphsAnySlot == Graphs4(TRUE, LAMBDA r : r = 1, SUBSET {0, 1})
\* Acyclic graphs in which a varnode may be read on several paths.
DagGraphs == Graphs4(TRUE, LAMBDA r : r >= 1, SlotFree)
\* Both families that break the reference: the mark effect needs a varnode
\* with two readers, the slot effect a block test that holds for one slot.
CounterGraphs == DagGraphs \cup TreeGraphsAnySlot

\* Graphs with loops on varnodes 1..3, varnode 4 a free varnode nobody
\* reads: a MULTIEQUAL may read any of the three, itself included, as one
\* at a loop head reads the value its own loop body computes; other ops
\* read varnodes numbered above them, so that every loop passes through a
\* MULTIEQUAL, as SSA form guarantees.
CycleKinds == {"input_unaffected", "input_direct", "INDIRECT_create_zero", "solid_op",
               "INDIRECT", "COPY_solid", "MULTIEQUAL"}
CycleNode(v) ==
    UNION {{[kind |-> k, in |-> s] :
              s \in [1..Arity(k) -> IF k = "MULTIEQUAL" THEN 1..3 ELSE {w \in 1..3 : w > v}]}
           : k \in CycleKinds}
CycleGraphs ==
    {[kind |-> [v \in Vn |-> IF v = 4 THEN "free" ELSE ns[v].kind],
      in |-> [v \in Vn |-> IF v = 4 THEN <<>> ELSE ns[v].in],
      condOk |-> [v \in Vn |-> IF v # 4 /\ ns[v].kind = "MULTIEQUAL" THEN {0, 1} ELSE {}]] :
       ns \in {f \in CycleNode(1) \X CycleNode(2) \X CycleNode(3) :
                 /\ \A w \in 2..3 : \E v \in 1..3 : \E i \in DOMAIN f[v].in : f[v].in[i] = w
                 /\ \E v \in 1..3 : \E i \in DOMAIN f[v].in : f[v].in[i] <= v}}

\* The walk's graph family: every tree, and every graph with a loop.
WalkGraphs == TreeGraphs \cup CycleGraphs

=============================================================================
