------------------------------- MODULE PrintRPN -------------------------------
(***************************************************************************)
(* The reverse-Polish expression emitter of PrintLanguage                  *)
(* (printlanguage.cc): pushOp, pushAtom, pushVnImplied, pushVnExplicit,   *)
(* emitOp, emitAtom, recurse, opBinary and opUnary.  One expression is    *)
(* printed: its root op is pushed (op->push, which for every op of this   *)
(* repository is opBinary or opUnary), then recurse() runs, each turn of  *)
(* its loop one step.  The emitter's output is abstracted to the token    *)
(* sequence: atoms, print strings and the parentheses of openParen and   *)
(* closeParen; groups and spacing are layout and are left out.           *)
(*                                                                         *)
(* The calls pushOp and pushAtom make to recurse() are translated as the  *)
(* mutually recursive operators below, over a record S holding revpol,    *)
(* nodepend, pending and out.                                              *)
(***************************************************************************)
EXTENDS OpToken

CONSTANTS Trees, NoTree

VARIABLES
    tree,      \* the expression being printed
    rpn,       \* the printer: revpol, nodepend, pending and out (below)
    final,     \* recurse()'s local final: the entries it does not claim
    pc         \* "push", "recurse" or "done"

\* PrintLanguage::revpol, its [tok, visited, paren] entries; nodepend, the
\* expressions still to be pushed; pending; and the tokens emitted so far.
revpol == rpn.revpol
nodepend == rpn.nodepend
pending == rpn.pending
out == rpn.out

vars == <<tree, rpn, final, pc>>

\* The expressions, as one constant value.
TreeSet == Trees

Abs == INSTANCE InfixPrint WITH Trees <- TreeSet, out <- rpn.out


\* F applied to the value of v, v evaluated once.
Bind(v, F(_)) == CHOOSE r \in {F(x) : x \in {v}} : TRUE

\* PrintLanguage::emitOp: the tokens an RPN entry prints at its stage.
EmitOpF(S, e) ==
    LET tok == e.tok  v == e.visited
        toks == CASE tok.type = "binary" -> IF v = 1 THEN <<tok.p0>> ELSE <<>>
                  [] tok.type = "unary_prefix" -> IF v = 0 THEN <<tok.p0>> ELSE <<>>
                  [] tok.type = "postsurround" ->
                        IF v = 0 THEN <<>> ELSE IF v = 1 THEN <<tok.p0>> ELSE <<tok.p1>>
                  [] tok.type = "presurround" ->
                        IF v = 2 THEN <<>> ELSE IF v = 0 THEN <<tok.p0>> ELSE <<tok.p1>>
                  [] tok.type = "space" -> <<>>
    IN  [S EXCEPT !.out = @ \o toks]

Top(S) == S.revpol[Len(S.revpol)]

\* Mutant of CloseLoop: visited is advanced only on an entry that is popped.
RECURSIVE CloseLoop_NoAdvance(_)
CloseLoop_NoAdvance(S) ==
    LET e == [Top(S) EXCEPT !.visited = @ + 1] IN
    IF e.visited = e.tok.stage
    THEN LET S1 == EmitOpF([S EXCEPT !.revpol[Len(S.revpol)] = e], e)
             S2 == [S1 EXCEPT !.out = IF e.paren THEN @ \o <<")">> ELSE @,
                              !.revpol = SubSeq(@, 1, Len(@) - 1)]
         IN  IF S2.revpol = <<>> THEN S2 ELSE CloseLoop_NoAdvance(S2)
    ELSE S

\* Mutant of CloseLoop: the entry is popped one stage too late.
RECURSIVE CloseLoop_OffByOne(_)
CloseLoop_OffByOne(S) ==
    LET e == [Top(S) EXCEPT !.visited = @ + 1]
        S0 == [S EXCEPT !.revpol[Len(S.revpol)] = e]
    IN  IF e.visited > e.tok.stage
        THEN LET S1 == EmitOpF(S0, e)
                 S2 == [S1 EXCEPT !.out = IF e.paren THEN @ \o <<")">> ELSE @,
                                  !.revpol = SubSeq(@, 1, Len(@) - 1)]
             IN  IF S2.revpol = <<>> THEN S2 ELSE CloseLoop_OffByOne(S2)
        ELSE S0

Popped(S, paren) ==
    [S EXCEPT !.out = IF paren THEN @ \o <<")">> ELSE @, !.revpol = SubSeq(@, 1, Len(@) - 1)]

RECURSIVE CloseLoop(_), CloseTop(_, _), CloseNext(_)
\* The do-while loop of pushAtom: count the finished input on the top
\* entry; when all its stages are done, emit it, close its parenthesis or
\* group, pop it and go on with the entry below.
CloseLoop(S) == CloseTop(S, [Top(S) EXCEPT !.visited = @ + 1])

CloseTop(S, e) ==
    IF e.visited = e.tok.stage
    THEN CloseNext(Popped(EmitOpF([S EXCEPT !.revpol[Len(S.revpol)] = e], e), e.paren))
    ELSE [S EXCEPT !.revpol[Len(S.revpol)] = e]

CloseNext(S) == IF S.revpol = <<>> THEN S ELSE CloseLoop(S)

\* Mutant of PushImplied: the inputs pushed in operand order, not reversed.
PushImplied_InOrder(S, kids) ==
    [S EXCEPT !.nodepend = @ \o kids]

\* pushVnImplied on each input, the last input first (opBinary, opUnary).
PushImplied(S, kids) ==
    [S EXCEPT !.nodepend = @ \o [i \in DOMAIN kids |-> kids[Len(kids) + 1 - i]]]

RECURSIVE RecurseF(_), PushOpF(_, _), PushAtomF(_, _), PushNodeF(_, _), RecurseLoop(_, _), TurnF(_)

\* PrintLanguage::recurse: claim the pending entries and push each, last first.
RecurseF(S) == RecurseLoop([S EXCEPT !.pending = Len(S.nodepend)], S.pending)

RecurseLoop(S, fin) == IF fin < S.pending THEN RecurseLoop(TurnF(S), fin) ELSE S

\* One turn of recurse()'s loop: pop the last entry of nodepend, push its
\* expression (op->push if implied, else pushVnExplicit), reclaim the rest.
TurnF(S) ==
    LET e == S.nodepend[Len(S.nodepend)]
        S1 == [S EXCEPT !.nodepend = SubSeq(@, 1, Len(@) - 1), !.pending = @ - 1]
        Reclaim(S2) == [S2 EXCEPT !.pending = Len(S2.nodepend)]
    IN  Bind(IF IsOp(e) THEN PushNodeF(S1, e) ELSE PushAtomF(S1, e.atom), Reclaim)

\* PrintLanguage::pushOp: emit the open entry's stage, decide whether the
\* new operator's expression is parenthesized, and push its entry.
PushOpF(S, tok) ==
    LET Open(S1) ==
            IF S1.revpol = <<>>
            THEN [S1 EXCEPT !.revpol = Append(@, [tok |-> tok, visited |-> 0, paren |-> FALSE])]
            ELSE LET paren == Parentheses(Top(S1).tok, tok, Top(S1).visited)
                 IN  [EmitOpF(S1, Top(S1)) EXCEPT !.out = IF paren THEN @ \o <<"(">> ELSE @,
                            !.revpol = Append(@, [tok |-> tok, visited |-> 0, paren |-> paren])]
    IN  Bind(IF S.pending < Len(S.nodepend) THEN RecurseF(S) ELSE S, Open)

\* PrintLanguage::pushAtom for an explicit varnode (pushVnExplicit).
PushAtomF(S, atom) ==
    LET Put(S1) ==
            IF S1.revpol = <<>> THEN [S1 EXCEPT !.out = @ \o <<atom>>]
            ELSE CloseLoop([EmitOpF(S1, Top(S1)) EXCEPT !.out = @ \o <<atom>>])
    IN  Bind(IF S.pending < Len(S.nodepend) THEN RecurseF(S) ELSE S, Put)

\* op->push for an op: opBinary or opUnary pushes its token, then its inputs.
PushNodeF(S, t) == PushImplied(PushOpF(S, t.tok), t.kids)

-----------------------------------------------------------------------------

Init ==
    /\ tree = NoTree
    /\ rpn = [revpol |-> <<>>, nodepend |-> <<>>, pending |-> 0, out |-> <<>>]
    /\ final = 0 /\ pc = "push"

\* The root op of expression t is pushed (op->push), and recurse() is entered.
PushRoot(t) ==
    /\ pc = "push"
    /\ tree' = t
    /\ LET S == PushNodeF(rpn, t)
       IN  /\ final' = S.pending /\ rpn' = [S EXCEPT !.pending = Len(S.nodepend)]
    /\ pc' = "recurse"

\* One turn of recurse()'s loop: pop the last pending expression and push it.
RecurseTurn ==
    /\ pc = "recurse" /\ final < pending
    /\ rpn' = TurnF(rpn)
    /\ UNCHANGED <<tree, final, pc>>

\* recurse() returns once every entry it claimed has been pushed.
RecurseDone ==
    /\ pc = "recurse" /\ final = pending
    /\ pc' = "done"
    /\ UNCHANGED <<tree, rpn, final>>

Next == (\E t \in Trees : PushRoot(t)) \/ RecurseTurn \/ RecurseDone

\* recurse() is a sequential loop: once entered it runs to its return.
\* Whether and which expression is printed is the caller's choice.
Spec == Init /\ [][Next]_vars /\ WF_vars(RecurseTurn \/ RecurseDone)

-----------------------------------------------------------------------------
(* Properties.                                                             *)

\* Every entry of revpol is still open: pushAtom pops an entry as soon as
\* its last stage is visited, so none stays with visited = stage; and
\* recurse never claims more entries than nodepend holds.
TypeOK ==
    /\ \A i \in DOMAIN revpol : revpol[i].visited \in 0 .. revpol[i].tok.stage - 1
    /\ final \in 0..pending /\ pending \in 0..Len(nodepend)
    /\ pc \in {"push", "recurse", "done"}

\* When recurse() returns, the RPN stack and nodepend are empty and the
\* tokens emitted are those of the infix printer: the reversed pushes of
\* pushVnImplied, the stages counted by pushAtom and the emitOp calls of
\* pushOp and pushAtom print every operand in place.
EmitsInfix ==
    pc = "done" => revpol = <<>> /\ nodepend = <<>> /\ out = Abs!Infix(tree)

\* pushOp brackets every input the grammar needs bracketed: whenever an
\* entry sits on revpol above the entry whose input it is, the paren flag
\* OpToken::parentheses gave it is set if ParenNeeded says that, printed
\* bare, the input would be read as something other than the tree.
ParensSufficient ==
    \A i \in 2 .. Len(revpol) :
        ParenNeeded(revpol[i - 1].tok, revpol[i].tok, revpol[i - 1].visited) => revpol[i].paren

\* The emitter implements the infix printer: every token it emits is the
\* next token of the infix form (nothing emitted early is ever wrong), and
\* it goes on until the whole expression is out.
InfixRefinement == Abs!Spec

=============================================================================
