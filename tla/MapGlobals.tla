------------------------------ MODULE MapGlobals ------------------------------
(***************************************************************************)
(* Funcdata::mapGlobals (funcdata_varnode.cc): the varnodes of a function  *)
(* are walked in the location order of the varnode bank; each run of      *)
(* overlapping persistent varnodes starting at a non-free one is one       *)
(* global, and gets a new symbol unless the scope already holds an entry  *)
(* at its base address.  A varnode is its storage (one address space, an *)
(* offset and a size) and its flags; a symbol entry is a range.  The data *)
(* type of a symbol only matters by its size.                             *)
(***************************************************************************)
EXTENDS Integers, Sequences, SequencesExt

CONSTANTS
    Locs,       \* the storage [off, sz, persist] varnodes may have, in location order
    PreSyms,    \* the sets of entries [off, sz] the scopes may hold already
    Owned       \* the offsets some scope owns: discoverScope finds one

VARIABLES
    vns,        \* the varnodes, in the order of vbank.beginLoc()..endLoc()
    syms,       \* the symbol entries of the scopes
    warned,     \* the "overlap smaller symbols" warning was written
    st          \* "idle", "done", or "thrown" (LowlevelError)

vars == <<vns, syms, warned, st>>

\* How a location occurs in the bank: not at all, or as a varnode that is
\* free (neither input nor written) or not.
Kinds == {"absent", "used", "free"}

\* The varnode bank for a choice of kind per location, kept in loc order.
Bank(k) ==
    LET present == SelectSeq([i \in 1..Len(Locs) |-> i], LAMBDA i : k[i] # "absent")
    IN  [j \in 1..Len(present) |->
           [off |-> Locs[present[j]].off, sz |-> Locs[present[j]].sz,
            persist |-> Locs[present[j]].persist, free |-> k[present[j]] = "free"]]

Init ==
    /\ \E k \in [1..Len(Locs) -> Kinds] : vns = Bank(k)
    /\ syms \in PreSyms
    /\ warned = FALSE
    /\ st = "idle"

-----------------------------------------------------------------------------
\* Scope::queryProperties(addr,1,...): an entry whose range holds addr, as
\* a set of one, or {} for null.  With more than one, the scope returns one
\* of them.
HoldsAddr(e, a) == e.off <= a /\ a < e.off + e.sz

QueryProperties(S, a) ==
    IF \E e \in S : HoldsAddr(e, a) THEN {CHOOSE e \in S : HoldsAddr(e, a)} ELSE {}

\* Scope::discoverScope: the scope owning the range, or null.
DiscoverScope(a) == a \in Owned

\* The inner loop: the varnodes after the base that are persistent and
\* start before endaddr join the global.  endaddr is set to the end of each
\* one that joins, and maxvn is the largest one.
RECURSIVE Extend(_, _)
Extend(j, c) ==
    IF j > Len(vns) \/ ~vns[j].persist \/ vns[j].off >= c.end
    THEN [c EXCEPT !.next = j]
    ELSE Extend(j + 1, [c EXCEPT !.end = vns[j].off + vns[j].sz,
                                 !.max = IF vns[j].sz > vns[c.max].sz THEN j ELSE @])

\* The size of ct: maxvn's own type when maxvn spans the global exactly
\* (a varnode's type has the varnode's size), else a base type of the span.
CtSize(base, c) ==
    IF vns[c.max].off = base.off /\ base.off + vns[c.max].sz = c.end
    THEN vns[c.max].sz ELSE c.end - base.off

\* The body for one global based at vns[i]: a new symbol when no entry
\* holds the base address (or a throw when no scope owns it), else the
\* inconsistent-use test of the entry's last byte against ct's.
GlobalStep(acc, i, c) ==
    LET a == vns[i].off  sz == CtSize(vns[i], c)  q == QueryProperties(acc.syms, a) IN
    IF q = {}
    THEN IF DiscoverScope(a) THEN [acc EXCEPT !.syms = @ \cup {[off |-> a, sz |-> sz]}]
         ELSE [acc EXCEPT !.thrown = TRUE]
    ELSE IF \E e \in q : (a + sz) - 1 > (e.off + e.sz) - 1 THEN [acc EXCEPT !.incons = TRUE]
    ELSE acc

\* The outer loop: free and non-persistent varnodes are skipped; a global
\* resumes the walk after its last member.
RECURSIVE Walk(_, _)
Walk(i, acc) ==
    IF i > Len(vns) \/ acc.thrown THEN acc
    ELSE IF vns[i].free \/ ~vns[i].persist THEN Walk(i + 1, acc)
    ELSE LET c == Extend(i + 1, [end |-> vns[i].off + vns[i].sz, max |-> i, next |-> 0])
         IN  Walk(c.next, GlobalStep(acc, i, c))

\* Funcdata::mapGlobals: the symbols added before a throw stay; the warning
\* is written only after the loop.
MapGlobalsF == Walk(1, [syms |-> syms, incons |-> FALSE, thrown |-> FALSE])

MapGlobals ==
    LET r == MapGlobalsF IN
    /\ st = "idle"
    /\ syms' = r.syms
    /\ warned' = (~r.thrown /\ r.incons)
    /\ st' = IF r.thrown THEN "thrown" ELSE "done"
    /\ UNCHANGED vns

Next == MapGlobals

Spec == Init /\ [][Next]_vars

-----------------------------------------------------------------------------
\* funcdata.hh says mapGlobals makes sure there is a Symbol entry for all
\* global Varnodes: once it has returned, every persistent varnode that is
\* not free lies inside some entry, unless it wrote the warning that a
\* global overlaps a smaller symbol.
GlobalsMapped ==
    st = "done" /\ ~warned =>
        \A j \in 1..Len(vns) :
            vns[j].persist /\ ~vns[j].free =>
                \E e \in syms : e.off <= vns[j].off /\ vns[j].off + vns[j].sz <= e.off + e.sz

=============================================================================
