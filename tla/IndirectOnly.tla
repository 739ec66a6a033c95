----------------------------- MODULE IndirectOnly -----------------------------
(***************************************************************************)
(* Funcdata::markIndirectOnly and checkIndirectUse (funcdata_varnode.cc): *)
(* an illegal input (an input no instruction writes directly) whose only  *)
(* readers are INDIRECTs, directly or through chains of MULTIEQUALs, is   *)
(* flagged indirectonly.  The walk is checkIndirectUse's worklist: vlist  *)
(* holds the varnodes met so far (the ones it marks), i the next to scan; *)
(* a reader that is neither INDIRECT nor MULTIEQUAL ends it with false.   *)
(* The marks are cleared on return, so only the flag survives the call.   *)
(***************************************************************************)
EXTENDS DataFlow

\* Varnode::isIllegalInput: an input without the directwrite flag.
IsIllegalInput(g, v) == "input" \in g.vf[v] /\ "directwrite" \notin g.vf[v]

\* A MULTIEQUAL that only passes the value on, for the faulty walk below.
IndReaderStep_SkipMulti(g, st, op) ==
    IF ~st.res \/ g.code[op] \in {"INDIRECT", "MULTIEQUAL"} THEN st
    ELSE [st EXCEPT !.res = FALSE]

\* One reader op of the scanned varnode: an INDIRECT is skipped, an
\* unmarked MULTIEQUAL's output is pushed and marked, anything else makes
\* the result false and breaks the loop over the descend list.
IndReaderStep(g, st, op) ==
    IF ~st.res \/ g.code[op] = "INDIRECT" THEN st
    ELSE IF g.code[op] = "MULTIEQUAL"
         THEN IF op \in ToSet(st.vlist) THEN st ELSE [st EXCEPT !.vlist = Append(@, op)]
    ELSE [st EXCEPT !.res = FALSE]

\* The while loop: scan vlist[i] while there is one and result holds.
RECURSIVE IndWalk(_, _)
IndWalk(g, st) ==
    IF st.i > Len(st.vlist) \/ ~st.res THEN st
    ELSE IndWalk(g, FoldLeft(LAMBDA s, op : IndReaderStep(g, s, op),
                             [st EXCEPT !.i = @ + 1], DescendOps(g, st.vlist[st.i])))

CheckIndirectUse(g, v) == IndWalk(g, [vlist |-> <<v>>, i |-> 1, res |-> TRUE]).res

\* The loop over the input varnodes: each illegal one that passes the
\* check gains the indirectonly flag; no flag is ever taken away.
MarkIndirectOnlyF(g) ==
    [g EXCEPT !.vf = [v \in DOMAIN g.vf |->
                        IF v \in Free /\ IsIllegalInput(g, v) /\ CheckIndirectUse(g, v)
                        THEN g.vf[v] \cup {"indirectonly"} ELSE g.vf[v]]]

MarkIndirectOnly == fn' = MarkIndirectOnlyF(fn)

-----------------------------------------------------------------------------
(* Reference: the varnodes v's value flows into through MULTIEQUALs, and   *)
(* whether every live op reading one of them is an INDIRECT or MULTIEQUAL. *)

RECURSIVE MultiClosure(_, _)
MultiClosure(g, S) ==
    LET N == S \cup {o \in Live(g) : g.code[o] = "MULTIEQUAL" /\ \E j \in DOMAIN g.in[o] : g.in[o][j] \in S}
    IN  IF N = S THEN S ELSE MultiClosure(g, N)

OnlyIndirectReads(g, v) ==
    \A o \in Live(g) :
        (\E j \in DOMAIN g.in[o] : g.in[o][j] \in MultiClosure(g, {v}))
            => g.code[o] \in {"INDIRECT", "MULTIEQUAL"}

=============================================================================
