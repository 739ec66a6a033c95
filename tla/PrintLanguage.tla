---------------------------- MODULE PrintLanguage ----------------------------
(***************************************************************************)
(* The two printing paths of PrintLanguage composed: the RPN emitter of   *)
(* an expression (PrintRPN) and the string data of an atom (CharData).    *)
(* The printer runs one of them for a statement: an expression is pushed  *)
(* and recursed on, or a string buffer is walked by escapeCharacterData;  *)
(* each component's steps leave the other's variables unchanged.          *)
(***************************************************************************)
EXTENDS PrintRPN, CharData

allvars == <<vars, cvars>>

PLInit == Init /\ CharInit

\* The steps of the two components, each leaving the other's variables
\* unchanged: an expression is pushed only while no string is being
\* printed, and a string is started only while no expression is pushed.
PLNext ==
    \/ \E t \in Trees : cpc = "idle" /\ PushRoot(t) /\ UNCHANGED cvars
    \/ RecurseTurn /\ UNCHANGED cvars
    \/ RecurseDone /\ UNCHANGED cvars
    \/ \E s \in Strings : pc = "push" /\ StringStart(s) /\ UNCHANGED vars
    \/ StringTurn /\ UNCHANGED vars
    \/ StringEnd /\ UNCHANGED vars

\* recurse() is a sequential loop: once entered it runs to its return.
\* Whether an expression or a string is printed is the caller's choice.
PLSpec == PLInit /\ [][PLNext]_allvars /\ WF_vars(RecurseTurn \/ RecurseDone)

=============================================================================
