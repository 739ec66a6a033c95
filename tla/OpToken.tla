------------------------------- MODULE OpToken -------------------------------
(***************************************************************************)
(* Operator tokens of the high-level language (printlanguage.hh OpToken)   *)
(* and OpToken::parentheses (printlanguage.cc), shared by the RPN emitter *)
(* and the infix printer it implements.  A token is a record: its name    *)
(* (standing for the identity of the OpToken object), the two print       *)
(* strings p0/p1, the number of stages, the precedence, whether it is      *)
(* associative, and its type.  An expression is a tree: an op node        *)
(* [tok, kids, atom |-> NoAtom] or a leaf [tok |-> Leaf, kids |-> <<>>,   *)
(* atom], a leaf standing for an explicit varnode.                         *)
(***************************************************************************)
EXTENDS Integers, Sequences

CONSTANTS Leaf, NoAtom

TokTypes == {"binary", "unary_prefix", "postsurround", "presurround", "space"}

IsOp(t) == t.tok # Leaf

\* Mutant of Parentheses: an associative token drops the parentheses
\* around any input of its precedence, not only around itself.
Parentheses_AnyAssoc(tok, op2, stage) ==
    CASE tok.type \in {"space", "binary"} ->
            IF tok.prec # op2.prec THEN tok.prec > op2.prec
            ELSE ~tok.assoc /\ ~(op2.type = "postsurround" /\ stage = 0)
      [] tok.type = "unary_prefix" ->
            IF tok.prec # op2.prec THEN tok.prec > op2.prec
            ELSE op2.type \notin {"unary_prefix", "presurround"}
      [] tok.type = "postsurround" ->
            IF stage = 1 THEN FALSE
            ELSE IF tok.prec # op2.prec THEN tok.prec > op2.prec
            ELSE op2.type \notin {"postsurround", "binary"}
      [] tok.type = "presurround" ->
            IF stage = 0 THEN FALSE
            ELSE IF tok.prec # op2.prec THEN tok.prec > op2.prec
            ELSE op2.type \notin {"unary_prefix", "presurround"}

\* OpToken::parentheses(op2, stage): must op2's expression, as input of
\* this token at the given stage, be put in parentheses?
Parentheses(tok, op2, stage) ==
    CASE tok.type \in {"space", "binary"} ->
            IF tok.prec # op2.prec THEN tok.prec > op2.prec
            ELSE ~(tok.assoc /\ tok.name = op2.name) /\ ~(op2.type = "postsurround" /\ stage = 0)
      [] tok.type = "unary_prefix" ->
            IF tok.prec # op2.prec THEN tok.prec > op2.prec
            ELSE op2.type \notin {"unary_prefix", "presurround"}
      [] tok.type = "postsurround" ->
            IF stage = 1 THEN FALSE
            ELSE IF tok.prec # op2.prec THEN tok.prec > op2.prec
            ELSE op2.type \notin {"postsurround", "binary"}
      [] tok.type = "presurround" ->
            IF stage = 0 THEN FALSE
            ELSE IF tok.prec # op2.prec THEN tok.prec > op2.prec
            ELSE op2.type \notin {"unary_prefix", "presurround"}

-----------------------------------------------------------------------------
(* A reference for parentheses: how a C-like grammar reads an input        *)
(* expression printed without them.  Every precedence level groups one    *)
(* way: binary, space and postsurround tokens left to right, unary_prefix *)
(* and presurround tokens right to left.                                  *)

LeftGrouping(t) == t.type \in {"binary", "space", "postsurround"}

\* Is the input at this stage printed inside the token's own surround?
InsideSurround(tok, stage) ==
    \/ tok.type = "postsurround" /\ stage = 1
    \/ tok.type = "presurround" /\ stage = 0

\* Is the input at this stage printed to the left of the token's strings?
LeftOperand(tok, stage) == tok.type \in {"binary", "space", "postsurround"} /\ stage = 0

\* Without parentheses, would op2's expression be read as something other
\* than the input of tok?  A tighter op2 binds first; at one level, an
\* input on the side the level groups from binds first too, and on the
\* other side only the same associative operator may stand unbracketed.
ParenNeeded(tok, op2, stage) ==
    /\ ~InsideSurround(tok, stage)
    /\ op2.prec <= tok.prec
    /\ op2.prec = tok.prec =>
          IF LeftOperand(tok, stage) THEN ~LeftGrouping(tok)
          ELSE LeftGrouping(tok) /\ ~(tok.assoc /\ tok.name = op2.name)

=============================================================================
