------------------------------- MODULE DataFlow -------------------------------
(***************************************************************************)
(* The SSA data-flow graph of one function, as the analyses and rewrites   *)
(* of funcdata_op.cc and funcdata_varnode.cc read it: the basic blocks     *)
(* with their in-edges and their op lists, and for each op its opcode,     *)
(* its input varnodes and whether its output's storage is heritaged, the  *)
(* flags of each varnode, and for a call its FuncCallSpecs: the entry     *)
(* address (ent), isInputActive (iact) and the trial of each input slot.  *)
(*                                                                         *)
(* A varnode is a reference: an op id stands for that op's output, a       *)
(* member of Free for a varnode no op writes (a function input), and the  *)
(* number ConstBase + n for a constant of offset n (all references are    *)
(* numbers, so that TLC can compare any two).  Varnodes have one size,    *)
(* of Width bits.  An op is alive when it sits in a block, and is read by  *)
(* the live ops whose inputs name it (its descend list).                  *)
(*                                                                         *)
(* The dominator tree, findCommonBlock and isLoopIn come from the block   *)
(* graph (block.cc is not in the repository): they are computed from the  *)
(* in-edges, and the CFGs used are reducible, so that the loop edges are   *)
(* exactly the edges into a block that dominates their source.             *)
(***************************************************************************)
EXTENDS Naturals, Sequences, SequencesExt, FiniteSets, Bitwise

CONSTANTS
    Op,       \* op ids the op bank may allocate
    Free,     \* input varnodes: no op writes them
    Blocks,   \* basic blocks
    Entry,    \* the entry block
    Width,    \* bits of a varnode
    HashOf    \* the CSE hash of an op, by opcode: a hash may collide

Codes == {"INT_AND", "INT_OR", "INT_XOR", "COPY", "MULTIEQUAL", "CBRANCH", "BRANCH",
          "BRANCHIND", "LOAD", "STORE", "CALL", "CALLIND", "RETURN", "INDIRECT", "PIECE",
          "SUBPIECE", "INT_REM"}
\* Varnode flags: isPersist, isInput, isTypeLock, a space of type
\* IPTR_INTERNAL, isAddrForce, and (on an INDIRECT's output)
\* isIndirectCreation; directwrite and indirectonly on an input.
VnFlags == {"persist", "input", "typelock", "internal", "addrforce", "indcreate",
            "directwrite", "indirectonly"}
\* A ParamTrial of a call's (or return's) input: its address and flags.
TrialType == [addr : Nat, checked : BOOLEAN, active : BOOLEAN]
Full == 2^Width - 1
ConstBase == 1000
ConstVn == {ConstBase + n : n \in 0..Full}
\* The offset of a constant varnode.
Offset(v) == v - ConstBase
Refs == Op \cup Free \cup ConstVn

ASSUME Op \cup Free \subseteq 0..(ConstBase - 1) /\ Entry \in Blocks /\ Width \in Nat \ {0} /\ HashOf \in [Codes -> Nat]

VARIABLE fn   \* the function's graph (Funcdata), a record of GraphType

\* The shape of the graph record.
GraphType ==
    [pred : [Blocks -> Seq(Blocks)],
     blk  : [Blocks -> Seq(Op)],
     code : [Op -> Codes \cup {"none"}],
     in   : [Op -> Seq(Refs)],
     her  : [Op -> BOOLEAN],
     vf   : [Op \cup Free -> SUBSET VnFlags],
     ent  : [Op -> Nat],
     iact : [Op -> BOOLEAN],
     tr   : [Op -> Seq(TrialType)]]

Live(g) == UNION {ToSet(g.blk[b]) : b \in Blocks}
\* Ids never handed out by the op bank.
Spare(g) == {o \in Op : g.code[o] = "none"}
IsConst(v) == v \in ConstVn
\* Varnode::isWritten: an op's output.
IsWritten(v) == v \in Op
\* The ops with no output; a branch or return ends its block (isFlowBreak).
\* A call always has an output here.
HasOut(g, o) == g.code[o] \notin {"CBRANCH", "BRANCH", "BRANCHIND", "STORE", "RETURN"}
IsFlowBreak(g, o) == g.code[o] \in {"CBRANCH", "BRANCH", "BRANCHIND", "RETURN"}
\* PcodeOp::getParent and the op's position in its block's list.
Parent(g, o) == CHOOSE b \in Blocks : o \in ToSet(g.blk[b])
Pos(g, o) == CHOOSE i \in DOMAIN g.blk[Parent(g, o)] : g.blk[Parent(g, o)][i] = o
\* The descend list of v as (op, slot) entries, slots 1-based.
Descend(g, v) == UNION {{<<o, i>> : i \in {j \in DOMAIN g.in[o] : g.in[o][j] = v}} : o \in Live(g)}

\* The ids in ascending order (op ids are numbers).
RECURSIVE AscList(_)
AscList(S) == IF S = {} THEN <<>> ELSE <<Min(S)>> \o AscList(S \ {Min(S)})

\* The alive list, in the one order the model takes for it: by id.
AliveOrder(g) == AscList(Live(g))

\* The readers of v, one per descend entry, in the one order the model
\* takes for the descend list: by op id.
DescendOps(g, v) ==
    FoldLeft(LAMBDA acc, o : acc \o [i \in 1..Cardinality({e \in Descend(g, v) : e[1] = o}) |-> o],
             <<>>, AliveOrder(g))

-----------------------------------------------------------------------------
(* The block graph.                                                        *)

\* The blocks reachable from S along in-edges reversed, never entering avoid.
RECURSIVE ReachAvoid(_, _, _)
ReachAvoid(g, S, avoid) ==
    LET N == S \cup {b \in Blocks \ {avoid} : \E i \in DOMAIN g.pred[b] : g.pred[b][i] \in S}
    IN  IF N = S THEN S ELSE ReachAvoid(g, N, avoid)

\* d dominates b: every path from the entry to b passes through d.
Dominates(g, d, b) == b \notin ReachAvoid(g, {Entry} \ {d}, d)

\* FlowBlock::findCommonBlock: the deepest block dominating both.
FindCommonBlock(g, b1, b2) ==
    LET C == {d \in Blocks : Dominates(g, d, b1) /\ Dominates(g, d, b2)}
    IN  CHOOSE d \in C : \A e \in C : Dominates(g, e, d)

\* BlockBasic::isLoopIn(slot), slot 1-based: the in-edge is a back edge.
IsLoopIn(g, b, i) == Dominates(g, b, g.pred[b][i])

-----------------------------------------------------------------------------
(* What the graph computes.                                                *)

\* The value of v as a term over the inputs, unfolded d levels deep: an op
\* is its opcode applied to its inputs' terms, an unwritten varnode is
\* tagged "in" (every shape begins with a string, so TLC compares any
\* two).  Two varnodes with the same value have the same unfolding at
\* every depth, loops included.
RECURSIVE Term(_, _, _)
Term(g, v, d) ==
    IF ~IsWritten(v) THEN <<"in", <<v>>>>
    ELSE IF d = 0 THEN <<"deeper", <<>>>>
    ELSE <<g.code[v], [i \in DOMAIN g.in[v] |-> Term(g, g.in[v][i], d - 1)]>>

\* An input read by an op is defined where the op can see it: its writer
\* is alive and sits before the op in the same block, or in a block that
\* dominates the op's block (for a MULTIEQUAL, the block of the in-edge).
DefReaches(g, o, i) ==
    LET v == g.in[o][i]
        b == IF g.code[o] = "MULTIEQUAL" THEN g.pred[Parent(g, o)][i] ELSE Parent(g, o)
    IN  ~IsWritten(v)
        \/ /\ v \in Live(g)
           /\ IF Parent(g, v) = Parent(g, o) /\ g.code[o] # "MULTIEQUAL"
              THEN Pos(g, v) < Pos(g, o)
              ELSE Dominates(g, Parent(g, v), b)

=============================================================================
