------------------------------ MODULE MC_CseMask ------------------------------
(***************************************************************************)
(* Model-checking instance of CseMask: two functions over blocks b0..b3,  *)
(* input varnodes x = 50 and y = 51, 2-bit varnodes, ops 1..13 (the ids   *)
(* a function does not use are the op bank's spares), and every choice   *)
(* of which of the candidate ops' outputs are heritaged.                  *)
(***************************************************************************)
EXTENDS CseMask

MC_Blocks == {"b0", "b1", "b2", "b3"}
MC_Op == 1..13
X == 50
Y == 51
MC_Free == {X, Y}
K(n) == ConstBase + n

\* OR and XOR share a hash, so that isCseMatch must tell them apart.
MC_HashOf == [c \in Codes |-> CASE c = "INT_AND" -> 1
                                [] c \in {"INT_OR", "INT_XOR"} -> 2
                                [] c = "COPY" -> 3
                                [] c = "MULTIEQUAL" -> 4
                                [] OTHER -> 5]

\* A function: its CFG, its blocks' op lists, op -> <<code, inputs>>, the
\* heritaged outputs, the varnode flags, and the calls' entry addresses,
\* isInputActive and trials.
MkC(pred, blk, ops, her, vf, ent, iact, tr) ==
    [pred |-> pred, blk |-> blk,
     code |-> [o \in MC_Op |-> IF o \in DOMAIN ops THEN ops[o][1] ELSE "none"],
     in   |-> [o \in MC_Op |-> IF o \in DOMAIN ops THEN ops[o][2] ELSE <<>>],
     her  |-> [o \in MC_Op |-> o \in her],
     vf   |-> [v \in MC_Op \cup MC_Free |-> IF v \in DOMAIN vf THEN vf[v] ELSE {}],
     ent  |-> [o \in MC_Op |-> IF o \in DOMAIN ent THEN ent[o] ELSE 0],
     iact |-> [o \in MC_Op |-> o \in iact],
     tr   |-> [o \in MC_Op |-> IF o \in DOMAIN tr THEN tr[o] ELSE <<>>]]

\* A function without calls.
Mk(pred, blk, ops, her) == MkC(pred, blk, ops, her, <<>>, <<>>, {}, <<>>)

\* A diamond: b0 branches to b1 and b2, which join in b3.  In b0 two equal
\* ANDs with an XOR reading the first between them; in b1 and b2 two equal
\* ORs, joined by a MULTIEQUAL in b3, that only a new op in b0 can merge.
Diamond == [b \in MC_Blocks |-> CASE b = "b3" -> <<"b1", "b2">>
                                  [] b = "b0" -> <<>>
                                  [] OTHER -> <<"b0">>]
DiamondBlk == [b \in MC_Blocks |-> CASE b = "b0" -> <<1, 2, 3, 4, 5>>
                                     [] b = "b1" -> <<6, 7>>
                                     [] b = "b2" -> <<8, 9>>
                                     [] b = "b3" -> <<10, 11>>]
DiamondOps ==
    1 :> <<"INT_AND", <<X, K(1)>>>> @@ 2 :> <<"INT_XOR", <<1, X>>>> @@ 3 :> <<"INT_AND", <<X, K(1)>>>>
    @@ 4 :> <<"INT_OR", <<2, 3>>>> @@ 5 :> <<"CBRANCH", <<4>>>>
    @@ 6 :> <<"INT_OR", <<X, Y>>>> @@ 7 :> <<"CBRANCH", <<6>>>>
    @@ 8 :> <<"INT_OR", <<X, Y>>>> @@ 9 :> <<"CBRANCH", <<8>>>>
    @@ 10 :> <<"MULTIEQUAL", <<6, 8>>>> @@ 11 :> <<"CBRANCH", <<10>>>>

\* Three equal ANDs on the diamond, one in each of b1, b2 and b3: which
\* pairs merge, and where, depends on the order of the list.
TriBlk == [b \in MC_Blocks |-> CASE b = "b0" -> <<>>
                                 [] b = "b1" -> <<1, 2>>
                                 [] b = "b2" -> <<3, 4>>
                                 [] b = "b3" -> <<5, 6, 7, 8>>]
TriOps ==
    1 :> <<"INT_AND", <<X, Y>>>> @@ 2 :> <<"CBRANCH", <<1>>>>
    @@ 3 :> <<"INT_AND", <<X, Y>>>> @@ 4 :> <<"CBRANCH", <<3>>>>
    @@ 5 :> <<"INT_AND", <<X, Y>>>> @@ 6 :> <<"MULTIEQUAL", <<1, 3>>>>
    @@ 7 :> <<"INT_OR", <<5, 6>>>> @@ 8 :> <<"CBRANCH", <<7>>>>

\* A loop: b1 is the head, b2 the body, b3 the exit.  The MULTIEQUAL's
\* mask grows around the back edge, and the two equal ANDs in b3 read it;
\* the AND in the body repeats one in b0, which dominates it.
Loop == [b \in MC_Blocks |-> CASE b = "b0" -> <<>>
                               [] b = "b1" -> <<"b0", "b2">>
                               [] OTHER -> <<"b1">>]
LoopBlk == [b \in MC_Blocks |-> CASE b = "b0" -> <<1>>
                                  [] b = "b1" -> <<3, 4>>
                                  [] b = "b2" -> <<5, 6, 7>>
                                  [] b = "b3" -> <<8, 10, 9>>]
LoopOps ==
    1 :> <<"INT_AND", <<X, K(1)>>>> @@ 3 :> <<"MULTIEQUAL", <<1, 5>>>> @@ 4 :> <<"CBRANCH", <<3>>>>
    @@ 5 :> <<"INT_OR", <<3, K(2)>>>> @@ 6 :> <<"INT_AND", <<X, K(1)>>>> @@ 7 :> <<"CBRANCH", <<6>>>>
    @@ 8 :> <<"INT_AND", <<3, K(3)>>>> @@ 10 :> <<"INT_AND", <<3, K(3)>>>> @@ 9 :> <<"CBRANCH", <<10>>>>

\* Calls on the diamond.  X is copied to op 1 and passed to the call in
\* b0 (entry 100) and to the call in b1, whose output joins b2's value in
\* b3 and is returned.  b2 uses X's copy in a branch, passes it on to the
\* return, takes a SUBPIECE of its remainder, or does not read it.
CallBlk(b2) == [b \in MC_Blocks |-> CASE b = "b0" -> <<1, 2, 3>>
                                       [] b = "b1" -> <<4, 5>>
                                       [] b = "b2" -> b2
                                       [] b = "b3" -> <<8, 9>>]
CallOps(b2ops) ==
    1 :> <<"COPY", <<X>>>> @@ 2 :> <<"CALL", <<K(0), 1>>>> @@ 3 :> <<"CBRANCH", <<Y>>>>
    @@ 4 :> <<"CALL", <<K(0), 1>>>> @@ 5 :> <<"BRANCH", <<K(0)>>>>
    @@ 8 :> <<"MULTIEQUAL", <<4, 6>>>> @@ 9 :> <<"RETURN", <<K(0), 8>>>> @@ b2ops
B2 == {<<<<6, 7>>, 6 :> <<"INT_AND", <<1, Y>>>> @@ 7 :> <<"CBRANCH", <<6>>>>>>,
       <<<<6, 7>>, 6 :> <<"INT_OR", <<1, Y>>>> @@ 7 :> <<"BRANCH", <<K(0)>>>>>>,
       <<<<10, 6, 7>>, 10 :> <<"INT_REM", <<1, Y>>>> @@ 6 :> <<"SUBPIECE", <<10, K(0)>>>>
                       @@ 7 :> <<"BRANCH", <<K(0)>>>>>>,
       <<<<6, 7>>, 6 :> <<"INT_OR", <<Y, Y>>>> @@ 7 :> <<"BRANCH", <<K(0)>>>>>>}
Trial(a, c) == [addr |-> a, checked |-> c, active |-> c]
CallGraphs ==
    {MkC(Diamond, CallBlk(t[1][1]), CallOps(t[1][2]), MC_Op,
         1 :> t[2] @@ X :> t[3], 2 :> 100 @@ 4 :> t[5], {2, 4, 9},
         2 :> <<Trial(7, TRUE)>> @@ 4 :> <<Trial(t[4], t[6])>> @@ 9 :> <<Trial(9, TRUE)>>) :
       t \in B2 \X {{}, {"internal"}} \X {{"input", "typelock"}, {"input"}} \X {7, 8}
             \X {100, 101} \X BOOLEAN}

\* Inputs read through INDIRECTs and MULTIEQUALs.  On the diamond, y is
\* read by an INDIRECT in b0 and by two equal MULTIEQUALs in b3, whose
\* first output is returned or read by an INDIRECT, or the second copied; on the
\* loop, y enters a MULTIEQUAL that reads itself around the back edge and
\* is read in the body by an INDIRECT or an AND.  y is written directly,
\* or not.  The return's trial is the one of CallGraphs' return.
IndDiamondBlk == [b \in MC_Blocks |-> CASE b = "b0" -> <<1, 2>> [] b = "b3" -> <<3, 4, 5>> [] OTHER -> <<>>]
IndDiamondOps(tail) ==
    1 :> <<"INDIRECT", <<Y, K(0)>>>> @@ 2 :> <<"CBRANCH", <<X>>>>
    @@ 3 :> <<"MULTIEQUAL", <<Y, 1>>>> @@ 4 :> <<"MULTIEQUAL", <<Y, 1>>>> @@ 5 :> tail
IndLoopBlk == [b \in MC_Blocks |-> CASE b = "b1" -> <<3, 4>> [] b = "b2" -> <<5>> [] OTHER -> <<>>]
IndLoopOps(tail) == 3 :> <<"MULTIEQUAL", <<Y, 3>>>> @@ 4 :> <<"CBRANCH", <<X>>>> @@ 5 :> tail
YFlags == {{"input"}, {"input", "directwrite"}}
IndGraphs ==
    {MkC(Diamond, IndDiamondBlk, IndDiamondOps(t), MC_Op, Y :> f, <<>>, {}, 5 :> <<Trial(9, TRUE)>>) :
       t \in {<<"RETURN", <<K(0), 3>>>>, <<"INDIRECT", <<3, K(0)>>>>, <<"COPY", <<4>>>>}, f \in YFlags}
    \cup {MkC(Loop, IndLoopBlk, IndLoopOps(t), MC_Op, Y :> f, <<>>, {}, <<>>) :
           t \in {<<"INDIRECT", <<3, K(0)>>>>, <<"INT_AND", <<3, K(1)>>>>}, f \in YFlags}

\* The other ops' outputs are always heritaged.
MC_Graphs ==
    {Mk(Diamond, DiamondBlk, DiamondOps, ({2, 4, 10} \cup h)) : h \in SUBSET {1, 3, 6, 8}}
    \cup {Mk(Diamond, TriBlk, TriOps, ({6, 7} \cup h)) : h \in SUBSET {1, 3, 5}}
    \cup CallGraphs
    \cup IndGraphs
    \cup {Mk(Loop, LoopBlk, LoopOps, ({3, 5, 8} \cup h)) : h \in SUBSET {1, 6, 8, 10}}

MC_TermDepth == 3
MC_MaxLevel == 3


=============================================================================
