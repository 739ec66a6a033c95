------------------------- MODULE MC_AddrSpaceManager -------------------------
(***************************************************************************)
(* A processor with a ram and a register space and a unique space, as a  *)
(* .sla <spaces> tag lists them, and the same list with a misnumbered     *)
(* space, a repeated name, or no unique space; a default space that is   *)
(* there or is not; the compiler specs of MC_CSpecs.  Join requests are  *)
(* those constructFloatExtensionAddress (one piece and a logical size)   *)
(* and constructJoinAddress (two pieces, logical size 0) make.           *)
(***************************************************************************)
EXTENDS AddrSpaceManager

Sp(t, nm, i) == [type |-> t, name |-> nm, index |-> i]

MC_XmlLists ==
    { <<Sp("processor", "ram", 1), Sp("processor", "register", 2), Sp("internal", "unique", 3)>>,
      <<Sp("processor", "ram", 1), Sp("internal", "unique", 3), Sp("processor", "register", 2)>>,
      <<Sp("processor", "ram", 1), Sp("processor", "ram", 2), Sp("internal", "unique", 3)>>,
      <<Sp("processor", "ram", 1), Sp("processor", "register", 2)>> }

MC_DefNames == {"ram", "nosuch"}

TagIn(k, a, spc) == [kind |-> k, arg |-> a, space |-> spc]
Tag(k, a) == TagIn(k, a, "ram")
SP == Tag("stackpointer", Null)
Delay(num, v) == [numeric |-> num, value |-> v]
DP(ns) == Tag("default_proto", ns)

\* Compiler specs: one stack pointer, a further spacebase or a second
\* stack pointer; a default model, the only model, two models and no
\* default, a default named twice, two defaults in one tag; an eval tag
\* before or after the model it names, or twice; an explicit __thiscall;
\* a stack pointer or delay in an unknown space; a return address given
\* twice, or after an empty tag; a negative or a non-numeric delay; an
\* unknown split style.
MC_CSpecs ==
    { <<SP, DP(<<"cdecl">>)>>,
      <<SP, Tag("spacebase", "frame"), Tag("prototype", "cdecl")>>,
      <<SP, SP, DP(<<"cdecl">>)>>,
      <<SP, Tag("prototype", "cdecl"), Tag("prototype", "stdcall")>>,
      <<SP, DP(<<"cdecl">>), Tag("prototype", "cdecl")>>,
      <<SP, DP(<<"cdecl", "stdcall">>)>>,
      <<SP, Tag("eval_called_prototype", "cdecl"), DP(<<"cdecl">>)>>,
      <<SP, DP(<<"cdecl">>), Tag("eval_called_prototype", "stdcall")>>,
      <<SP, DP(<<"cdecl">>), Tag("eval_current_prototype", "cdecl"),
            Tag("eval_current_prototype", "cdecl")>>,
      <<SP, Tag("prototype", "stdcall"), DP(<<"cdecl">>), Tag("eval_called_prototype", "stdcall"),
            Tag("resolveprototype", "__thiscall")>>,
      <<TagIn("stackpointer", Null, "nosuch"), DP(<<"cdecl">>)>>,
      <<SP, Tag("returnaddress", 1), DP(<<"cdecl">>), Tag("returnaddress", 1)>>,
      <<SP, Tag("returnaddress", 0), Tag("returnaddress", 1), DP(<<"cdecl">>)>>,
      <<SP, Tag("deadcodedelay", Delay(TRUE, -1)), DP(<<"cdecl">>)>>,
      <<SP, Tag("deadcodedelay", Delay(FALSE, -1)), Tag("prefersplit", "inhalf"), DP(<<"cdecl">>)>>,
      <<SP, TagIn("deadcodedelay", Delay(TRUE, 2), "nosuch"), DP(<<"cdecl">>)>>,
      <<SP, DP(<<"cdecl">>), Tag("prefersplit", "halves")>> }

\* Processor specs: known children, none at all, an unknown child.
MC_PSpecs == { <<"programcounter", "volatile", "context_data">>, Null, <<"register_data", "bogus">> }

MC_ProtoNames == {"cdecl", "stdcall", "__thiscall"}

\* Piece 1 is an 8-byte float register, pieces 2 and 3 the two halves of
\* an 8-byte register, pieces 4 and 6 adjacent words of ram (the default
\* space), piece 5 a word of the unique space.  The spaces are
\* little-endian.
MC_PieceSize == <<8, 4, 4, 4, 4, 4>>
MC_PieceSpace == <<"register", "register", "register", "ram", "unique", "ram">>
MC_PieceOffset == <<16, 0, 4, 256, 0, 260>>
MC_Registers == {<<"register", 0, 8>>}
\* The float register at its own size and at 4 bytes; the register halves
\* in order (a parent register) and swapped, adjacent ram words, and a
\* register with a unique word.
MC_FloatExts == {<<1, 8>>, <<1, 4>>}
MC_JoinPairs == {<<3, 2>>, <<2, 3>>, <<6, 4>>, <<5, 2>>}

MC_JoinReqs ==
    { [pieces |-> <<1>>, logicalsize |-> 4], [pieces |-> <<1>>, logicalsize |-> 2],
      [pieces |-> <<1>>, logicalsize |-> 0],
      [pieces |-> <<2, 3>>, logicalsize |-> 0], [pieces |-> <<3, 2>>, logicalsize |-> 0] }

\* Spaces: const, three from the tag, fspec, iop, join, two spacebases.
MC_MaxSpaces == 9

MC_MaxJoins == 3

\* uint4 scaled to 16 bits: the sizes stay far below the wrap.
MC_SizeBits == 16

\* uintb scaled to 12 bits: two 6-bit chunks fill it, and unpackOffset's
\* bound (67 = 64+3 for 64 bits) becomes 15, so a third chunk throws.
MC_UintbBits == 12
MC_ShiftLimit == 15
\* invar holds 30 inputs in the build; two here.
MC_InvarCap == 2

\* The packed encoder: every byte but a tag carries its value plus 0x20,
\* an offset as 6-bit chunks from the low end, closed by the end tag.
RECURSIVE EncOff(_)
EncOff(off) == IF off = 0 THEN <<>> ELSE <<(off % 64) + 32>> \o EncOff(off \div 64)
EncVn(v) ==
    IF v.kind = "addr"
    THEN <<TagAddrsz, v.idx + 32>> \o EncOff(v.offset) \o <<TagEnd, v.size + 32>>
    ELSE <<TagSpaceid, v.idx + 32>>
Encode(o) ==
    <<TagOp, o.opc + 32>> \o (IF o.out = Null THEN <<TagVoid>> ELSE EncVn(o.out))
    \o FoldLeft(LAMBDA acc, v : acc \o EncVn(v), <<>>, o.ins) \o <<TagEnd>>

Av(i, off, sz) == [kind |-> "addr", idx |-> i, offset |-> off, size |-> sz]
Sv(i) == [kind |-> "spaceid", idx |-> i]
Pop(c, out, ins) == [opc |-> c, out |-> out, ins |-> ins]

\* A COPY from a constant into register space at the widest offset; a
\* LOAD through a space id at offset 64; an op with neither output nor
\* input; a STORE to the last space the smallest tag list has.
MC_Ops ==
    { Pop(1, Av(2, 4095, 4), <<Av(0, 1, 4)>>),
      Pop(62, Av(3, 0, 1), <<Sv(1), Av(1, 64, 4)>>),
      Pop(10, Null, <<>>),
      Pop(63, Null, <<Sv(2), Av(2, 63, 8)>>) }

\* Streams the encoder never writes: a varnode with an unknown tag, an
\* offset of three chunks, and three inputs.
MC_Bad ==
    { <<TagOp, 33, TagVoid, TagOp, 32, TagEnd>>,
      <<TagOp, 33, TagVoid, TagAddrsz, 33, 40, 40, 40, TagEnd, 36, TagEnd>>,
      Encode(Pop(1, Null, <<Av(0, 1, 4), Av(0, 2, 4), Av(0, 3, 4)>>)) }

MC_Streams == {[src |-> o, bytes |-> Encode(o)] : o \in MC_Ops} \cup {[src |-> Null, bytes |-> b] : b \in MC_Bad}


\* The one register, by the name getRegister knows it under.
MC_RegisterOf == [r0 |-> <<"register", 0, 8>>]

\* What an uninitialised offset may hold: zero, or all ones.
MC_Garbage == {0, Uintb - 1}

\* The XML writer: an addr child with space, offset and size attributes, a
\* register child with a name, a spaceid child with the space's name.
Ch(t, as, spc, off, sz, nm) == [tag |-> t, attrs |-> as, space |-> spc, offset |-> off,
                               size |-> sz, name |-> nm]
XmlVn(v) ==
    CASE v.kind = "addr" -> Ch("addr", <<"space", "offset", "size">>, v.spc, v.offset, v.size, "")
      [] v.kind = "reg" -> Ch("addr", <<"name">>, "", 0, 0, v.name)
      [] v.kind = "spaceid" -> Ch("spaceid", <<"name">>, "", 0, 0, v.spc)
VoidCh == Ch("void", <<>>, "", 0, 0, "")
XmlEncode(o) ==
    [code |-> o.opc,
     kids |-> <<XmlVn(o.pc), IF o.out = Null THEN VoidCh ELSE XmlVn(o.out)>>
              \o [i \in DOMAIN o.ins |-> XmlVn(o.ins[i])]]

Xa(spc, off, sz) == [kind |-> "addr", spc |-> spc, offset |-> off, size |-> sz]
Xr(nm) == [kind |-> "reg", name |-> nm]
Xs(spc) == [kind |-> "spaceid", spc |-> spc]
Xop(c, out, ins) == [opc |-> c, pc |-> Xa("ram", 16, 1), out |-> out, ins |-> ins]

\* A COPY from a register into ram; a LOAD through the register space's
\* id; a STORE through the unique space's id, which not every list has.
MC_XmlSrc ==
    { Xop(1, Xa("ram", 4095, 4), <<Xr("r0")>>),
      Xop(62, Xr("r0"), <<Xs("register"), Xa("ram", 64, 4)>>),
      Xop(63, Null, <<Xs("unique"), Xa("unique", 8, 8)>>) }

PcCh == XmlVn(Xa("ram", 16, 1))
\* Elements the writer never produces: no children; a pc and no output;
\* an output with neither space nor name; name before space; a space
\* name no list has; a spaceid naming no space; three inputs.
MC_XmlBad ==
    { [code |-> 1, kids |-> <<>>],
      [code |-> 1, kids |-> <<PcCh>>],
      [code |-> 1, kids |-> <<PcCh, Ch("addr", <<"offset", "size">>, "", 4, 4, "")>>],
      [code |-> 1, kids |-> <<PcCh, Ch("addr", <<"name", "space">>, "ram", 4, 4, "r0")>>],
      [code |-> 1, kids |-> <<PcCh, VoidCh, XmlVn(Xa("stack", 0, 4))>>],
      [code |-> 1, kids |-> <<PcCh, VoidCh, XmlVn(Xs("stack"))>>],
      XmlEncode(Xop(1, Null, <<Xa("ram", 1, 4), Xa("ram", 2, 4), Xa("ram", 3, 4)>>)) }

MC_XmlOps == {[src |-> o, el |-> XmlEncode(o)] : o \in MC_XmlSrc} \cup {[src |-> Null, el |-> e] : e \in MC_XmlBad}

=============================================================================
