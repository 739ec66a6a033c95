---------------------------- MODULE MC_CompareFlip ----------------------------
(***************************************************************************)
(* Two families of branch conditions, with 2-bit bytes and a 4-byte intb. *)
(* Single comparisons of 1, 2 and 4 bytes against every constant of each  *)
(* width: the ops narrower than intb and the op as wide as intb, where     *)
(* val+diff can overflow.  And conditions of up to three ops of one byte:  *)
(* comparisons, BOOL_AND, BOOL_OR, BOOL_XOR and BOOL_NEGATE over each     *)
(* other and the free input P, every op read by another, by the CBRANCH   *)
(* or by an op outside the condition, and any op may have such a reader.  *)
(***************************************************************************)
EXTENDS CompareFlip

MC_Ids == {1, 2, 3}
UnsignedCodes == {"INT_EQUAL", "INT_NOTEQUAL", "INT_LESS", "INT_LESSEQUAL"}
SignedCodes == {"INT_SLESS", "INT_SLESSEQUAL"}

Cmp(c, sz, slot, k) == [code |-> c, size |-> sz, cslot |-> slot, k |-> k, in |-> <<>>]
BoolOp(c, ins) == [code |-> c, size |-> 1, cslot |-> 0, k |-> 0, in |-> ins]

\* The comparison c of size sz alone, read by the CBRANCH.
Singles(Codes) ==
    UNION {{[size |-> sz, node |-> [n \in MC_Ids |-> Cmp(c, sz, slot, k)], alive |-> {1},
             root |-> 1, ext |-> {}] : k \in 0 .. Pow2(Bits(sz)) - 1, slot \in {1, 2}, c \in Codes}
           : sz \in {1, 2, 4}}

\* One-byte comparisons giving each answer of opFlipInPlaceTest: `x == #1`
\* (1), `#2 < x` (0), `x <= #2` (1, and rewritable), `#0 != x` (0).
Leaves == {Cmp("INT_EQUAL", 1, 2, 1), Cmp("INT_LESS", 1, 1, 2),
           Cmp("INT_LESSEQUAL", 1, 2, 2), Cmp("INT_NOTEQUAL", 1, 1, 0)}

\* The ops op n may be, reading the ops numbered above it or P.
NodesAt(n) ==
    LET Up == {m \in MC_Ids : m > n} \cup {P} IN
    Leaves \cup {BoolOp("BOOL_NEGATE", <<a>>) : a \in Up}
           \cup {BoolOp(c, <<a, b>>) : c \in {"BOOL_AND", "BOOL_OR", "BOOL_XOR"}, a \in Up, b \in Up}

Reads(nd, n) == \E i \in DOMAIN nd.in : nd.in[i] = n

\* Whether each of ops 2 and 3 is read by an op or from outside.
AllRead(ns, e) == \A n \in {2, 3} : n \in e \/ \E m \in MC_Ids : Reads(ns[m], n)

Conditions ==
    {[size |-> 1, node |-> [n \in MC_Ids |-> t[n]], alive |-> MC_Ids, root |-> 1, ext |-> t[4]] :
       t \in {t \in NodesAt(1) \X NodesAt(2) \X NodesAt(3) \X SUBSET MC_Ids : AllRead(t, t[4])}}

UnsignedGraphs == Singles(UnsignedCodes) \cup Conditions
SignedGraphs == Singles(SignedCodes)

=============================================================================
