----------------------------- MODULE CompareFlip -----------------------------
(***************************************************************************)
(* In-place rewriting of the condition of one conditional branch          *)
(* (funcdata_op.cc): Funcdata::replaceLessequal, which turns `x <= #c`     *)
(* into `x < #c+1` and `#c <= x` into `#c-1 < x`; opFlipInPlaceTest,      *)
(* which follows the CBRANCH's condition through BOOL_AND and BOOL_OR     *)
(* chains to the ops whose opcodes can be changed to negate it; and       *)
(* opFlipInPlaceExecute, which changes them (get_booleanflip), swapping   *)
(* the inputs of a comparison and calling replaceLessequal, exchanging   *)
(* AND and OR, and removing a BOOL_NEGATE.                                *)
(*                                                                         *)
(* The condition is a data-flow graph of ops Ids.  A comparison reads one *)
(* variable x and, in slot cslot, a constant varnode whose offset k is an *)
(* unsigned value of the op's width; a boolean op reads op outputs or the *)
(* free boolean input P (a varnode no op writes).  The set ext holds the  *)
(* ops whose output is also read by an op outside the condition.  A byte  *)
(* is ByteBits bits wide, so an op of size s compares ByteBits*s-bit      *)
(* values, and intb, the signed type the code computes in, holds          *)
(* ByteBits*IntbBytes bits (8 bytes in the build).                        *)
(***************************************************************************)
EXTENDS Integers, Sequences, SequencesExt, Folds

CONSTANTS
    ByteBits,   \* bits per byte in the scaled-down model
    IntbBytes,  \* bytes of intb (8 in the build)
    Ids,        \* the ops of the condition
    P,          \* the free boolean input varnode
    Graphs      \* the branch conditions the rewrites may start from

Compare == {"INT_EQUAL", "INT_NOTEQUAL", "INT_LESS", "INT_SLESS",
            "INT_LESSEQUAL", "INT_SLESSEQUAL"}
Boolean == {"BOOL_AND", "BOOL_OR", "BOOL_XOR", "BOOL_NEGATE"}
LessEqual == {"INT_LESSEQUAL", "INT_SLESSEQUAL"}

ASSUME ByteBits \in Nat \ {0} /\ IntbBytes \in Nat \ {0} /\ P \notin Ids

Pow2(n) == 2^n
Bits(sz) == ByteBits * sz
\* calc_mask(size) applied to an integer: its low 8*size bits.
Mask(v, sz) == v % Pow2(Bits(sz))
\* sign_extend(val, 8*size-1) of an unsigned offset of the op's width.
SignExtend(v, sz) == IF v >= Pow2(Bits(sz) - 1) THEN v - Pow2(Bits(sz)) ELSE v
\* The two's complement value an intb holds for the integer v.
IntbWrap(v) == SignExtend(Mask(v, IntbBytes), IntbBytes)

\* get_booleanflip (opcodes.cc): the negated opcode and whether the inputs
\* must be reordered.
FlipCode == [INT_EQUAL |-> "INT_NOTEQUAL", INT_NOTEQUAL |-> "INT_EQUAL",
             INT_SLESS |-> "INT_SLESSEQUAL", INT_SLESSEQUAL |-> "INT_SLESS",
             INT_LESS |-> "INT_LESSEQUAL", INT_LESSEQUAL |-> "INT_LESS"]
FlipReorder(c) == c \notin {"INT_EQUAL", "INT_NOTEQUAL"}

\* The value of a comparison for x, both taken as unsigned offsets.
Eval(op, x) ==
    LET a == IF op.cslot = 1 THEN op.k ELSE x
        b == IF op.cslot = 2 THEN op.k ELSE x
        sa == SignExtend(a, op.size)   sb == SignExtend(b, op.size)
    IN  CASE op.code = "INT_EQUAL"      -> a = b
          [] op.code = "INT_NOTEQUAL"   -> a # b
          [] op.code = "INT_LESS"       -> a < b
          [] op.code = "INT_LESSEQUAL"  -> a <= b
          [] op.code = "INT_SLESS"      -> sa < sb
          [] op.code = "INT_SLESSEQUAL" -> sa <= sb

\* A branch condition: each op's record, the ops still alive, the varnode
\* the CBRANCH reads as in(1), and the ops with an outside reader.
Operand == Ids \cup {P}
Node == [code : Compare \cup Boolean, size : Nat, cslot : {0, 1, 2}, k : Nat, in : Seq(Operand)]
Graph == [size : Nat, node : [Ids -> Node], alive : SUBSET Ids, root : Operand, ext : SUBSET Ids]

\* The value the varnode o holds for the valuation env of x and P.
RECURSIVE Value(_, _, _)
Value(g, o, env) ==
    IF o = P THEN env.p
    ELSE LET nd == g.node[o]
             In(i) == Value(g, nd.in[i], env)
         IN  CASE nd.code \in Compare  -> Eval(nd, env.x)
               [] nd.code = "BOOL_NEGATE" -> ~In(1)
               [] nd.code = "BOOL_AND" -> In(1) /\ In(2)
               [] nd.code = "BOOL_OR"  -> In(1) \/ In(2)
               [] nd.code = "BOOL_XOR" -> In(1) # In(2)

\* The valuations of x (one width per condition) and of P.
Envs(g) == [x : 0 .. Pow2(Bits(g.size)) - 1, p : BOOLEAN]

\* The number of input slots reading op o's output, the CBRANCH's and the
\* outside reader's included (the length of its descend list).
Readers(g, o) ==
    Cardinality({<<n, i>> \in g.alive \X (1..2) : i <= Len(g.node[n].in) /\ g.node[n].in[i] = o})
    + (IF g.root = o THEN 1 ELSE 0) + (IF o \in g.ext THEN 1 ELSE 0)

\* vn->loneDescend() == op and vn->isWritten() for an input of op: the
\* reader is the op itself, as op reads vn.
LoneWritten(g, o) == o # P /\ Readers(g, o) = 1

-----------------------------------------------------------------------------
(* opFlipInPlaceTest.  The result is [r, fl]: the return value and the    *)
(* fliplist, which the recursive calls share and which keeps the entries  *)
(* of a search that returns 2 part-way.                                   *)

RECURSIVE FlipTestF(_, _, _)
FlipTestF(g, n, fl) ==
    LET nd == g.node[n]
        Push(r) == [r |-> r, fl |-> Append(fl, n)]
        Sub(o, f) == IF LoneWritten(g, o) THEN FlipTestF(g, o, f) ELSE [r |-> 2, fl |-> f]
    IN  CASE nd.code = "INT_EQUAL" -> Push(1)
          [] nd.code \in {"BOOL_NEGATE", "INT_NOTEQUAL"} -> Push(0)
          [] nd.code \in {"INT_SLESS", "INT_LESS"} -> Push(IF nd.cslot # 1 THEN 1 ELSE 0)
          [] nd.code \in LessEqual -> Push(IF nd.cslot = 2 THEN 1 ELSE 0)
          [] nd.code \in {"BOOL_AND", "BOOL_OR"} ->
               LET s1 == Sub(nd.in[1], fl)
                   s2 == IF s1.r = 2 THEN s1 ELSE Sub(nd.in[2], s1.fl)
               IN  IF s2.r = 2 THEN s2 ELSE [r |-> s1.r, fl |-> Append(s2.fl, n)]
          [] OTHER -> [r |-> 2, fl |-> fl]

\* Mutant of BranchTestF: the CBRANCH's condition is followed even when
\* another op reads it.
BranchTestF_NoLone(g) ==
    IF g.root = P THEN [r |-> 2, fl |-> <<>>] ELSE FlipTestF(g, g.root, <<>>)

\* opFlipInPlaceTest called on the CBRANCH: its in(1) must be written and
\* read by the branch alone.
BranchTestF(g) ==
    IF LoneWritten(g, g.root) THEN FlipTestF(g, g.root, <<>>) ELSE [r |-> 2, fl |-> <<>>]

-----------------------------------------------------------------------------
(* Funcdata::replaceLessequal and opFlipInPlaceExecute.                   *)

\* Mutant of ReplaceLessequalF: x <= #c with c all ones is not refused.
ReplaceLessequalF_NoMaxCheck(op, ubWrap) ==
    LET diff == IF op.cslot = 1 THEN -1 ELSE 1
        val  == SignExtend(op.k, op.size)
        code == IF op.code = "INT_SLESSEQUAL" THEN "INT_SLESS" ELSE "INT_LESS"
    IN  IF diff = -1 /\ val = 0 THEN op
        ELSE [op EXCEPT !.code = code, !.k = Mask(val + diff, op.size)]

\* Mutant of ReplaceLessequalF: the new constant is not cut to the op size.
ReplaceLessequalF_NoMask(op, ubWrap) ==
    LET diff == IF op.cslot = 1 THEN -1 ELSE 1
        val  == SignExtend(op.k, op.size)
        code == IF op.code = "INT_SLESSEQUAL" THEN "INT_SLESS" ELSE "INT_LESS"
    IN  IF (diff = -1 /\ val = 0) \/ (diff = 1 /\ val = -1) THEN op
        ELSE [op EXCEPT !.code = code, !.k = val + diff]

(* Funcdata::replaceLessequal.  ubWrap resolves the one undefined case:   *)
(* when val+diff leaves intb, the build either wraps (the overflow check   *)
(* sees the wrapped sum) or, having assumed no signed overflow, tests the  *)
(* mathematical sum.                                                      *)
ReplaceLessequalF(op, ubWrap) ==
    LET diff == IF op.cslot = 1 THEN -1 ELSE 1
        val  == SignExtend(op.k, op.size)
        sum  == IF ubWrap THEN IntbWrap(val + diff) ELSE val + diff
        res  == Mask(val + diff, op.size)
        bail == IF op.code = "INT_SLESSEQUAL"
                THEN (val < 0 /\ sum > 0) \/ (val > 0 /\ sum < 0)
                ELSE (diff = -1 /\ val = 0) \/ (diff = 1 /\ val = -1)
        code == IF op.code = "INT_SLESSEQUAL" THEN "INT_SLESS" ELSE "INT_LESS"
    IN  IF bail THEN op
        ELSE [op EXCEPT !.code = code, !.k = res]

\* One comparison of opFlipInPlaceExecute's list: set the flipped opcode,
\* and if reordered swap the inputs (opSwapInput) and call replaceLessequal
\* on a LESSEQUAL result.
FlipInPlaceF(op, ubWrap) ==
    LET opc     == FlipCode[op.code]
        flipped == [op EXCEPT !.code = opc]
        swapped == [flipped EXCEPT !.cslot = 3 - @]
    IN  IF ~FlipReorder(op.code) THEN flipped
        ELSE IF opc \in LessEqual
             THEN ReplaceLessequalF(swapped, ubWrap)
             ELSE swapped

\* A BOOL_NEGATE n is removed: its lone reader (an op or the CBRANCH)
\* reads n's input instead (opSetInput), and n is destroyed.
RemoveNegateF(g, n) ==
    LET vn == g.node[n].in[1]
        Redirect(s) == [i \in DOMAIN s |-> IF s[i] = n THEN vn ELSE s[i]]
    IN  [g EXCEPT !.node = [m \in Ids |-> IF m \in g.alive THEN [@[m] EXCEPT !.in = Redirect(@)]
                                            ELSE @[m]],
                  !.root = IF @ = n THEN vn ELSE @,
                  !.alive = @ \ {n}]

\* opFlipInPlaceExecute: each op of the list in turn.
ExecuteF(g, fl, ubWrap) ==
    LET One(h, n) ==
          LET c == h.node[n].code IN
          CASE c = "BOOL_NEGATE" -> RemoveNegateF(h, n)
            [] c \in {"BOOL_AND", "BOOL_OR"} ->
                 [h EXCEPT !.node[n].code = IF c = "BOOL_AND" THEN "BOOL_OR" ELSE "BOOL_AND"]
            [] OTHER -> [h EXCEPT !.node[n] = FlipInPlaceF(@, ubWrap)]
    IN  FoldLeft(One, g, fl)

-----------------------------------------------------------------------------

VARIABLES
    orig,     \* the branch condition as it was first built
    g,        \* the branch condition after the rewrites so far
    negated   \* whether the condition has been flipped an odd number of times

vars == <<orig, g, negated>>

\* The ops' widths stay within their sizes.
TypeOK ==
    /\ orig \in Graph /\ g \in Graph /\ negated \in BOOLEAN
    /\ \A n \in g.alive : g.node[n].code \in Compare => g.node[n].k < Pow2(Bits(g.node[n].size))

Init ==
    /\ orig \in Graphs
    /\ g = orig
    /\ negated = FALSE

\* A rule asks for a comparison x <= #c to be rewritten as a strict one.
ReplaceLessequal(n) ==
    /\ n \in g.alive /\ g.node[n].code \in LessEqual
    /\ \E ub \in BOOLEAN : g' = [g EXCEPT !.node[n] = ReplaceLessequalF(@, ub)]
    /\ g' # g
    /\ UNCHANGED <<orig, negated>>

\* A rule normalises the branch by flipping its condition in place: the
\* flip is made when opFlipInPlaceTest does not answer 2, and the caller
\* swaps the branch targets (negated).
FlipInPlace ==
    LET t == BranchTestF(g) IN
    /\ t.r # 2
    /\ \E ub \in BOOLEAN : g' = ExecuteF(g, t.fl, ub)
    /\ negated' = ~negated
    /\ UNCHANGED orig

Next == (\E n \in Ids : ReplaceLessequal(n)) \/ FlipInPlace

Spec == Init /\ [][Next]_vars

\* Spec section 4.4: a rule that rewrites a comparison preserves its truth
\* value under every input valuation.  After any sequence of flips and
\* lessequal rewrites, the value the CBRANCH tests equals the original one
\* for every x and P, negated once per flip.
TruthKept ==
    \A env \in Envs(g) : Value(g, g.root, env) = (Value(orig, orig.root, env) # negated)

\* opFlipInPlaceTest only changes ops whose output nobody but the
\* condition reads (the loneDescend checks on the CBRANCH's input and on
\* both inputs of BOOL_AND and BOOL_OR): an op outside the condition that
\* reads an op's output still finds that op alive and its value unchanged.
OutsideReadersKept ==
    \A n \in orig.ext :
        n \in g.alive /\ \A env \in Envs(g) : Value(g, n, env) = Value(orig, n, env)

=============================================================================
