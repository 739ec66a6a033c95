---------------------------- MODULE MC_PrintLanguage ----------------------------
(***************************************************************************)
(* Expressions of depth up to two over the tokens C printing uses for     *)
(* +, -, *, array subscript, unary minus and a type cast, with the        *)
(* precedences and types of PrintC's OpToken table, and two variables;    *)
(* and strings of one or two elements in UTF-8, UTF-16 and UTF-32 of      *)
(* either byte order, the elements taken from codepoints at each length  *)
(* boundary of the encodings and from malformed runs.                     *)
(***************************************************************************)
EXTENDS PrintLanguage

Tk(nm, a, b, st, pr, as, ty) ==
    [name |-> nm, p0 |-> a, p1 |-> b, stage |-> st, prec |-> pr, assoc |-> as, type |-> ty]

MC_Binary ==
    { Tk("plus", "+", "", 2, 50, TRUE, "binary"), Tk("minus", "-", "", 2, 50, FALSE, "binary"),
      Tk("mult", "*", "", 2, 54, TRUE, "binary"), Tk("subscript", "[", "]", 2, 66, FALSE, "postsurround"),
      Tk("cast", "(", ")", 2, 62, FALSE, "presurround") }
MC_Unary == { Tk("neg", "-", "", 1, 62, FALSE, "unary_prefix") }

Lf(a) == [tok |-> Leaf, kids |-> <<>>, atom |-> a]
Op(t, ks) == [tok |-> t, kids |-> ks, atom |-> NoAtom]

\* The expressions of depth at most d.
Exprs(d) ==
    LET Leaves == {Lf("a"), Lf("b")}
        Up(E) == Leaves \cup {Op(t, <<x, y>>) : t \in MC_Binary, x \in E, y \in E}
                        \cup {Op(t, <<x>>) : t \in MC_Unary, x \in E}
    IN  IF d = 1 THEN Up(Leaves) ELSE Up(Up(Leaves))

MC_Trees == {e \in Exprs(2) : IsOp(e)}

\* 0, A, and the last and first codepoints of 11, 12, 16 and 17 bits.
MC_Codepoints == {0, 65, 2047, 2048, 65535, 65536, 128512}

\* Malformed runs: a lone trail byte, a lead without its trail, an encoded
\* surrogate and an invalid lead (UTF-8); a lone trail surrogate and a high
\* surrogate followed by a non-trail (UTF-16); a surrogate (UTF-32).
BadRuns(cs, be) ==
    CASE cs = 1 -> {<<128>>, <<195, 65>>, <<237, 160, 128>>, <<248>>}
      [] cs = 2 -> {Bytes16(56320, be), Bytes16(55296, be) \o Bytes16(65, be)}
      [] cs = 4 -> {Bytes32(55296, be)}

Elems(cs, be) == {[cp |-> c] : c \in MC_Codepoints} \cup {[bad |-> b] : b \in BadRuns(cs, be)}

Buffer(es, cs, be) ==
    LET b == Concat([k \in DOMAIN es |-> ElemBytes(es[k], cs, be)])
    IN  [elems |-> es, bytes |-> b, count |-> Len(b), charsize |-> cs, bigend |-> be]

MC_Strings ==
    UNION { { Buffer(es, cs, be) :
                es \in {<<e>> : e \in Elems(cs, be)} \cup (Elems(cs, be) \X Elems(cs, be)) } :
            <<cs, be>> \in {<<1, FALSE>>, <<2, FALSE>>, <<2, TRUE>>, <<4, FALSE>>, <<4, TRUE>>} }

=============================================================================
