------------------------------- MODULE CharData -------------------------------
(***************************************************************************)
(* String data in PrintLanguage (printlanguage.cc): escapeCharacterData   *)
(* walks a byte buffer of UTF-8, UTF-16 or UTF-32 elements, decoding each *)
(* with getCodepoint (readUtf16 for UTF-16), and hands every codepoint to  *)
(* printUnicode until it reads a 0 terminator or an invalid element, or   *)
(* count bytes are consumed.  writeUtf8 is the encoder printUnicode uses. *)
(* Each turn of the loop is one step; the bit operations of the code are  *)
(* written as the arithmetic they do on bytes.                             *)
(***************************************************************************)
EXTENDS Integers, Sequences

CONSTANTS
    Strings,   \* the inputs: [bytes, count, charsize, bigend]
    NoString

VARIABLES
    str,       \* the buffer being printed
    ci,        \* escapeCharacterData's i: bytes consumed
    cpt,       \* its codepoint: the last one getCodepoint returned
    printed,   \* the codepoints passed to printUnicode
    sres,      \* its return value
    cpc        \* "idle", "loop" or "done"

cvars == <<str, ci, cpt, printed, sres, cpc>>

\* mostsigbit_set(n) + 1: the number of significant bits of n >= 0.
RECURSIVE NumBits(_)
NumBits(n) == IF n = 0 THEN 0 ELSE 1 + NumBits(n \div 2)

\* Mutant of WriteUtf8: a codepoint of exactly 12 bits is given two bytes.
WriteUtf8_TwoByteEdge(cp) ==
    LET bits == NumBits(cp) IN
    IF cp < 0 \/ (cp >= 128 /\ bits > 21) THEN [ok |-> FALSE, bytes |-> <<>>]
    ELSE [ok |-> TRUE,
          bytes |-> IF cp < 128 THEN <<cp>>
                    ELSE IF bits <= 12 THEN <<192 + ((cp \div 64) % 32), 128 + (cp % 64)>>
                    ELSE IF bits < 17
                         THEN <<224 + ((cp \div 4096) % 16), 128 + ((cp \div 64) % 64), 128 + (cp % 64)>>
                    ELSE <<240 + ((cp \div 262144) % 8), 128 + ((cp \div 4096) % 64),
                           128 + ((cp \div 64) % 64), 128 + (cp % 64)>>]

\* PrintLanguage::writeUtf8: the bytes written, or ok = FALSE where it throws
\* (a negative codepoint, or one of more than 21 bits).
WriteUtf8(cp) ==
    LET bits == NumBits(cp) IN
    IF cp < 0 \/ (cp >= 128 /\ bits > 21) THEN [ok |-> FALSE, bytes |-> <<>>]
    ELSE [ok |-> TRUE,
          bytes |-> IF cp < 128 THEN <<cp>>
                    ELSE IF bits < 12 THEN <<192 + ((cp \div 64) % 32), 128 + (cp % 64)>>
                    ELSE IF bits < 17
                         THEN <<224 + ((cp \div 4096) % 16), 128 + ((cp \div 64) % 64), 128 + (cp % 64)>>
                    ELSE <<240 + ((cp \div 262144) % 8), 128 + ((cp \div 4096) % 64),
                           128 + ((cp \div 64) % 64), 128 + (cp % 64)>>]

\* PrintLanguage::readUtf16: the 16-bit element at byte j (0-based).
ReadUtf16(b, j, bigend) ==
    IF bigend THEN b[j + 1] * 256 + b[j + 2] ELSE b[j + 2] * 256 + b[j + 1]

IsTrail(v) == v \div 64 = 2     \* (v & 0xc0) == 0x80

\* The UTF-8 branch of getCodepoint: [cp, skip], cp = -1 when invalid.
Utf8At(b, j) ==
    LET v(k) == b[j + k + 1] IN
    CASE v(0) < 128 -> [cp |-> v(0), skip |-> 1]
      [] v(0) \div 32 = 6 ->
            IF ~IsTrail(v(1)) THEN [cp |-> -1, skip |-> 2]
            ELSE [cp |-> (v(0) % 32) * 64 + (v(1) % 64), skip |-> 2]
      [] v(0) \div 16 = 14 ->
            IF ~IsTrail(v(1)) \/ ~IsTrail(v(2)) THEN [cp |-> -1, skip |-> 3]
            ELSE [cp |-> (v(0) % 16) * 4096 + (v(1) % 64) * 64 + (v(2) % 64), skip |-> 3]
      [] v(0) \div 8 = 30 ->
            IF ~IsTrail(v(1)) \/ ~IsTrail(v(2)) \/ ~IsTrail(v(3)) THEN [cp |-> -1, skip |-> 4]
            ELSE [cp |-> (v(0) % 8) * 262144 + (v(1) % 64) * 4096 + (v(2) % 64) * 64 + (v(3) % 64),
                  skip |-> 4]
      [] OTHER -> [cp |-> -1, skip |-> 0]

\* The UTF-16 branch: a high surrogate is combined with the trail after it.
Utf16At(b, j, bigend) ==
    LET u == ReadUtf16(b, j, bigend) IN
    IF u >= 55296 /\ u <= 56319 THEN
        LET t == ReadUtf16(b, j + 2, bigend) IN
        IF t < 56320 \/ t > 57343 THEN [cp |-> -1, skip |-> 4]
        ELSE [cp |-> u * 1024 + t + (65536 - 55296 * 1024 - 56320), skip |-> 4]
    ELSE IF u >= 56320 /\ u <= 57343 THEN [cp |-> -1, skip |-> 2]
    ELSE [cp |-> u, skip |-> 2]

Utf32At(b, j, bigend) ==
    [cp |-> IF bigend THEN ((b[j + 1] * 256 + b[j + 2]) * 256 + b[j + 3]) * 256 + b[j + 4]
            ELSE ((b[j + 4] * 256 + b[j + 3]) * 256 + b[j + 2]) * 256 + b[j + 1],
     skip |-> 4]

\* Mutant of GetCodepoint: the final check for a surrogate codepoint is
\* left out.
GetCodepoint_NoSurrogateCheck(s, j) ==
    CASE s.charsize = 2 -> Utf16At(s.bytes, j, s.bigend)
      [] s.charsize = 1 -> Utf8At(s.bytes, j)
      [] s.charsize = 4 -> Utf32At(s.bytes, j, s.bigend)
      [] OTHER -> [cp |-> -1, skip |-> 0]

\* PrintLanguage::getCodepoint on the element at byte j of buffer s: an
\* encoded surrogate (D800-DFFF) is invalid whatever the encoding.
GetCodepoint(s, j) ==
    LET r == CASE s.charsize = 2 -> Utf16At(s.bytes, j, s.bigend)
                [] s.charsize = 1 -> Utf8At(s.bytes, j)
                [] s.charsize = 4 -> Utf32At(s.bytes, j, s.bigend)
                [] OTHER -> [cp |-> -1, skip |-> 0]
    IN  IF r.cp >= 55296 /\ r.cp <= 57343 THEN [r EXCEPT !.cp = -1] ELSE r

-----------------------------------------------------------------------------

CharInit ==
    /\ str = NoString /\ ci = 0 /\ cpt = 0 /\ printed = <<>>
    /\ sres = FALSE /\ cpc = "idle"

\* escapeCharacterData is called on buffer s.
StringStart(s) ==
    /\ cpc = "idle"
    /\ str' = s /\ ci' = 0 /\ cpt' = 0 /\ printed' = <<>>
    /\ cpc' = "loop"
    /\ UNCHANGED sres

\* One turn of its loop: decode the next element; a 0 or an invalid element
\* ends the loop, any other codepoint is printed and skipped.
StringTurn ==
    /\ cpc = "loop" /\ ci < str.count
    /\ LET r == GetCodepoint(str, ci) IN
       IF r.cp = 0 \/ r.cp = -1
       THEN /\ cpt' = r.cp /\ sres' = (r.cp = 0) /\ cpc' = "done"
            /\ UNCHANGED <<str, ci, printed>>
       ELSE /\ cpt' = r.cp /\ printed' = Append(printed, r.cp) /\ ci' = ci + r.skip
            /\ UNCHANGED <<str, sres, cpc>>

\* The loop ends with count bytes consumed; the result is whether the last
\* codepoint read was 0.
StringEnd ==
    /\ cpc = "loop" /\ ci >= str.count
    /\ sres' = (cpt = 0) /\ cpc' = "done"
    /\ UNCHANGED <<str, ci, cpt, printed>>

CharNext == (\E s \in Strings : StringStart(s)) \/ StringTurn \/ StringEnd

-----------------------------------------------------------------------------
(* The reference: a buffer is the encoding, by the Unicode standard, of a  *)
(* sequence of elements, each a codepoint or a malformed byte run.         *)

RefUtf8(cp) ==
    CASE cp < 128 -> <<cp>>
      [] cp < 2048 -> <<192 + cp \div 64, 128 + (cp % 64)>>
      [] cp < 65536 -> <<224 + cp \div 4096, 128 + ((cp \div 64) % 64), 128 + (cp % 64)>>
      [] OTHER -> <<240 + cp \div 262144, 128 + ((cp \div 4096) % 64),
                    128 + ((cp \div 64) % 64), 128 + (cp % 64)>>

Units16(cp) ==
    IF cp < 65536 THEN <<cp>>
    ELSE <<55296 + (cp - 65536) \div 1024, 56320 + ((cp - 65536) % 1024)>>

Bytes16(u, bigend) == IF bigend THEN <<u \div 256, (u % 256)>> ELSE <<(u % 256), u \div 256>>

Bytes32(cp, bigend) ==
    LET be == <<cp \div 16777216, ((cp \div 65536) % 256), ((cp \div 256) % 256), (cp % 256)>>
    IN  IF bigend THEN be ELSE [k \in 1..4 |-> be[5 - k]]

RECURSIVE Concat(_)
Concat(ss) == IF ss = <<>> THEN <<>> ELSE Head(ss) \o Concat(Tail(ss))

\* The bytes of one element: a codepoint [cp] or a malformed run [bad].
ElemBytes(e, charsize, bigend) ==
    IF "bad" \in DOMAIN e THEN e.bad
    ELSE CASE charsize = 1 -> RefUtf8(e.cp)
           [] charsize = 2 -> Concat([k \in DOMAIN Units16(e.cp) |-> Bytes16(Units16(e.cp)[k], bigend)])
           [] charsize = 4 -> Bytes32(e.cp, bigend)

\* The codepoints before the first terminator or malformed element.
RECURSIVE Expected(_)
Expected(es) ==
    IF es = <<>> \/ "bad" \in DOMAIN Head(es) \/ Head(es).cp = 0 THEN <<>>
    ELSE <<Head(es).cp>> \o Expected(Tail(es))

Terminated(es) ==
    \E k \in DOMAIN es : "cp" \in DOMAIN es[k] /\ es[k].cp = 0
                         /\ \A j \in 1 .. k - 1 : "cp" \in DOMAIN es[j]

-----------------------------------------------------------------------------
(* Properties.                                                             *)

\* When escapeCharacterData returns, it has printed exactly the codepoints
\* of the buffer before its first terminator or malformed element, and it
\* returns true exactly when it stopped at a terminator: getCodepoint's
\* UTF-8 lead and trail tests, its surrogate pairing for UTF-16, and its
\* rejection of encoded surrogates decide where the string ends.
DecodesInput ==
    cpc = "done" => printed = Expected(str.elems) /\ sres = Terminated(str.elems)

\* For UTF-8 data, writeUtf8 gives back, for the codepoints printed so far,
\* exactly the bytes getCodepoint consumed: the encoder and the decoder
\* agree on every length boundary (7, 11, 16 and 21 bits).
ReencodesInput ==
    str # NoString /\ str.charsize = 1 =>
        Concat([k \in DOMAIN printed |-> WriteUtf8(printed[k]).bytes]) = SubSeq(str.bytes, 1, ci)

=============================================================================
