------------------------------ MODULE InfixPrint ------------------------------
(***************************************************************************)
(* What PrintLanguage promises for one expression: its tokens come out in *)
(* infix order, with an input expression in parentheses exactly where     *)
(* OpToken::parentheses asks for them, and once a token is out it stays.  *)
(* The printer may emit any number of the remaining tokens in one step.   *)
(***************************************************************************)
EXTENDS OpToken

CONSTANTS Trees, NoTree

VARIABLES tree, out

RECURSIVE Infix(_)
\* The tokens of expression t printed by recursion over the tree.
Infix(t) ==
    IF ~IsOp(t) THEN <<t.atom>>
    ELSE LET tok == t.tok
             W(i) == LET s == Infix(t.kids[i]) IN
                     IF IsOp(t.kids[i]) /\ Parentheses(tok, t.kids[i].tok, i - 1)
                     THEN <<"(">> \o s \o <<")">> ELSE s
         IN  CASE tok.type = "unary_prefix" -> <<tok.p0>> \o W(1)
               [] tok.type = "binary" -> W(1) \o <<tok.p0>> \o W(2)
               [] tok.type = "space" -> W(1) \o W(2)
               [] tok.type = "postsurround" -> W(1) \o <<tok.p0>> \o W(2) \o <<tok.p1>>
               [] tok.type = "presurround" -> <<tok.p0>> \o W(1) \o <<tok.p1>> \o W(2)

Init == tree = NoTree /\ out = <<>>

\* The printer is handed an expression.
Start == tree = NoTree /\ tree' \in Trees /\ UNCHANGED out

\* Some more of the expression's tokens are printed.
Emit ==
    LET whole == Infix(tree) IN
    /\ tree # NoTree
    /\ Len(out) < Len(whole)
    /\ \E n \in Len(out) + 1 .. Len(whole) : out' = SubSeq(whole, 1, n)
    /\ UNCHANGED tree

Next == Start \/ Emit

Spec == Init /\ [][Next]_<<tree, out>> /\ WF_<<tree, out>>(Emit)

=============================================================================
