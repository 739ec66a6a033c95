--------------------------- MODULE AddrSpaceManager ---------------------------
(***************************************************************************)
(* The address-space manager (translate.cc).  An Architecture is an        *)
(* AddrSpaceManager, and so is the Translate object it builds.            *)
(* Architecture::restoreFromSpec has the Translate read its <spaces> tag  *)
(* (restoreXmlSpaces), then copies those spaces into the Architecture     *)
(* (copySpaces, which shares them by reference count), adds the fspec, iop *)
(* and join spaces and the spacebase spaces of the compiler spec.  Later,  *)
(* the join space hands out JoinRecords (findAddJoin) and recovers them   *)
(* from their offset (findJoin).  ~Architecture deletes the Translate and *)
(* then runs ~AddrSpaceManager on itself.                                  *)
(*                                                                         *)
(* A space object is an id 1..MaxSpaces with a type, a name and the index *)
(* it was constructed with.  A join piece (a VarnodeData) is an integer    *)
(* 1..Len(PieceSize), ordered as VarnodeData::operator< orders storage.   *)
(***************************************************************************)
EXTENDS Integers, Sequences, SequencesExt, FiniteSets, Bitwise, TLC

CONSTANTS
    Null,
    MaxSpaces,   \* space objects that may be constructed
    XmlLists,    \* <spaces> children: sequences of [type, name, index]
    DefNames,    \* values of the defaultspace attribute
    CSpecs,      \* <compiler_spec> children: sequences of [kind, arg, space]
    PSpecs,      \* <processor_spec> children: sequences of names, or Null
    ProtoNames,  \* names of prototype models, "__thiscall" among them
    PieceSize,   \* the size of each join piece
    JoinReqs,    \* findAddJoin requests: [pieces, logicalsize]
    PieceSpace,  \* the name of the space of each piece
    PieceOffset, \* the offset of each piece in its space
    BigEndian,   \* the processor's spaces are big-endian
    Registers,   \* the named registers: <<space name, offset, size>>
    FloatExts,   \* constructFloatExtensionAddress calls: <<piece, logical size>>
    JoinPairs,   \* constructJoinAddress calls: <<hi piece, lo piece>>
    MaxJoins,    \* bound on the join records handed out
    SizeBits,    \* the width of uint4, scaled down
    UintbBits,   \* the width of uintb, scaled down
    ShiftLimit,  \* unpackOffset's bound on shift (67 for a 64-bit uintb)
    InvarCap,    \* the entries of restorePackedOp's invar array (30)
    PtrSize,     \* sizeof(void *)
    TagOp, TagVoid, TagSpaceid, TagAddrsz, TagEnd,  \* the packed-format tags
    Streams,     \* packed ops: [src, bytes], src the op the encoder was given
    RegisterOf,  \* Translate::getRegister: register name -> <<space name, offset, size>>
    XmlOps,      \* <op> elements: [src, el], src the op the writer was given
    Garbage      \* values an uninitialised uintb may hold

Trans == "trans"
Arch == "arch"
Mgrs == {Trans, Arch}
Ids == 1..MaxSpaces
PtrKinds == {"constantspace", "uniqspace", "fspecspace", "joinspace", "iopspace", "stackspace"}
\* The space types, and the name insertSpace requires of a reserved one.
Types == {"constant", "processor", "spacebase", "internal", "fspec", "join", "iop"}
Reserved == [constant |-> "const", internal |-> "unique", fspec |-> "fspec",
             join |-> "join", iop |-> "iop"]
Word == 2^SizeBits

VARIABLES
    attr,        \* attr[s]: the type, name and index space s was built with
    nspc,        \* space objects constructed so far
    refcount,    \* AddrSpace::refcount
    deleted,     \* space objects deleted
    mgr,         \* each manager's baselist, shortcut pointers, defaultspace
    st,          \* "empty", "ready", "failed", "crashed" or "destroyed"
    owned,       \* Architecture::translate holds the Translate
    splitlist,   \* the Architecture's join records, in allocation order
    joinallocate,
    lastJoin,    \* the request and the record index findAddJoin returned
    protos,      \* the Architecture's protoModels, defaultfp, evalfp_called/current
    dumped       \* the last packed op decoded, and what dump received

vars == <<attr, nspc, refcount, deleted, mgr, st, owned, splitlist, joinallocate, lastJoin, protos,
          dumped>>

Spec1 == [type : Types, name : STRING, index : Nat]
Manager == [base : Seq(Ids), ptr : [PtrKinds -> Ids \cup {Null}], dflt : Ids \cup {Null}]
JoinRecord == [pieces : Seq(DOMAIN PieceSize), size : Nat, offset : Nat]
\* protoModels maps a name to a model, or to null once operator[] has
\* looked up a name it does not hold; a model is named by its map key.
Registry == [pm : [ProtoNames -> {"absent", "null", "model"}],
             dfp : ProtoNames \cup {Null}, evc : ProtoNames \cup {Null}, evr : ProtoNames \cup {Null}]
ThisCall == "__thiscall"

TypeOK ==
    /\ attr \in [Ids -> Spec1 \cup {Null}] /\ nspc \in 0..MaxSpaces
    /\ refcount \in [Ids -> 0..2] /\ deleted \subseteq Ids
    /\ mgr \in [Mgrs -> Manager]
    /\ st \in [Mgrs -> {"empty", "ready", "failed", "crashed", "destroyed"}]
    /\ owned \in BOOLEAN
    /\ splitlist \in Seq(JoinRecord) /\ joinallocate \in Nat
    /\ lastJoin \in [req : [pieces : Seq(DOMAIN PieceSize), logicalsize : Nat] \cup {Null},
                    rec : {-1} \cup 1..MaxJoins]
    /\ protos \in Registry
    /\ dumped = Null \/ dumped.out.res \in {"ok", "throw", "ub"}

EmptyManager == [base |-> <<>>, ptr |-> [k \in PtrKinds |-> Null], dflt |-> Null]
EmptyRegistry == [pm |-> [n \in ProtoNames |-> "absent"], dfp |-> Null, evc |-> Null, evr |-> Null]

\* AddrSpaceManager::AddrSpaceManager for both managers.
Init ==
    /\ attr = [s \in Ids |-> Null] /\ nspc = 0
    /\ refcount = [s \in Ids |-> 0] /\ deleted = {}
    /\ mgr = [m \in Mgrs |-> EmptyManager]
    /\ st = [m \in Mgrs |-> "empty"] /\ owned = FALSE
    /\ splitlist = <<>> /\ joinallocate = 0
    /\ lastJoin = [req |-> Null, rec |-> -1]
    /\ protos = EmptyRegistry
    /\ dumped = Null

-----------------------------------------------------------------------------
(* insertSpace and the loops that call it.  The state threaded through    *)
(* them is a record S: the manager m, the reference counts rc, the next   *)
(* free space id n, the attributes at, and ok, FALSE once a throw is met. *)

\* The shortcut pointer insertSpace sets for a space of type t and name nm.
PtrField(t, nm) ==
    CASE t = "constant" -> "constantspace"
      [] t = "internal" -> "uniqspace"
      [] t = "fspec" -> "fspecspace"
      [] t = "join" -> "joinspace"
      [] t = "iop" -> "iopspace"
      [] t = "spacebase" /\ nm = "stack" -> "stackspace"
      [] OTHER -> "none"

\* Mutant of InsertChecks: the bad-id check dropped.
InsertChecks_NoIdCheck(S, s) ==
    LET a == S.at[s]  t == a.type  k == PtrField(t, a.name)  M == S.m
        constLate == t = "constant" /\ M.base # <<>>
        mismatch == t \in DOMAIN Reserved /\ a.name # Reserved[t]
        dup == \/ k \notin {"none", "constantspace"} /\ M.ptr[k] # Null
               \/ t \in {"processor", "spacebase"} /\
                     \E i \in DOMAIN M.base : S.at[M.base[i]].name = a.name
    IN  [ok |-> ~constLate /\ ~mismatch /\ ~dup,
         m |-> IF constLate \/ k = "none" THEN M ELSE [M EXCEPT !.ptr[k] = s]]

\* The checks of insertSpace on space s of S.at, and the manager with the
\* type's shortcut pointer set: it is set before the throws, except that a
\* const space after the first throws before its pointer is set.
InsertChecks(S, s) ==
    LET a == S.at[s]  t == a.type  k == PtrField(t, a.name)  M == S.m
        constLate == t = "constant" /\ M.base # <<>>
        mismatch == t \in DOMAIN Reserved /\ a.name # Reserved[t]
        dup == \/ k \notin {"none", "constantspace"} /\ M.ptr[k] # Null
               \/ t \in {"processor", "spacebase"} /\
                     \E i \in DOMAIN M.base : S.at[M.base[i]].name = a.name
    IN  [ok |-> ~constLate /\ ~mismatch /\ ~dup /\ Len(M.base) = a.index,
         m |-> IF constLate \/ k = "none" THEN M ELSE [M EXCEPT !.ptr[k] = s]]

\* Mutant of InsertSpaceF: the reference count taken before the checks.
InsertSpaceF_EarlyRef(S, s) ==
    IF ~S.ok THEN S
    ELSE LET C == InsertChecks(S, s) IN
         [S EXCEPT !.ok = C.ok, !.rc[s] = @ + 1,
                   !.m = IF C.ok THEN [C.m EXCEPT !.base = Append(@, s)] ELSE C.m]

\* AddrSpaceManager::insertSpace(s): push_back and refcount += 1 on success.
InsertSpaceF(S, s) ==
    IF ~S.ok THEN S
    ELSE LET C == InsertChecks(S, s) IN
         IF C.ok THEN [S EXCEPT !.m = [C.m EXCEPT !.base = Append(@, s)], !.rc[s] = @ + 1]
         ELSE [S EXCEPT !.ok = FALSE, !.m = C.m]

\* new AddrSpace(...) with attributes a, then insertSpace on it.  The
\* object is constructed even when the insert throws.
NewSpaceF(S, a) ==
    IF ~S.ok THEN S
    ELSE InsertSpaceF([S EXCEPT !.n = @ + 1, !.at[S.n + 1] = a], S.n + 1)

RECURSIVE NewSpacesF(_, _)
\* The restoreXmlSpaces loop: construct and insert each child in turn.
NewSpacesF(S, as) ==
    IF as = <<>> THEN S ELSE NewSpacesF(NewSpaceF(S, Head(as)), Tail(as))

RECURSIVE CopySpacesF(_, _)
\* The insertSpace loop of copySpaces over op2's baselist.
CopySpacesF(S, ids) ==
    IF ids = <<>> THEN S ELSE CopySpacesF(InsertSpaceF(S, Head(ids)), Tail(ids))

\* setDefaultSpace(index): throws if already set or index is past baselist.
SetDefaultSpaceF(S, index) ==
    IF ~S.ok THEN S
    ELSE IF S.m.dflt # Null \/ Len(S.m.base) <= index THEN [S EXCEPT !.ok = FALSE]
    ELSE [S EXCEPT !.m.dflt = S.m.base[index + 1]]

\* getSpaceByName: the space of baselist with that name, or null.
GetSpaceByName(S, nm) ==
    LET hits == {i \in DOMAIN S.m.base : S.at[S.m.base[i]].name = nm}
    IN  IF hits = {} THEN Null ELSE S.m.base[CHOOSE i \in hits : \A j \in hits : i <= j]

\* new Space(this, translate, nm, numSpaces()) and insertSpace on it.
NewAtEndF(S, t, nm) == NewSpaceF(S, [type |-> t, name |-> nm, index |-> Len(S.m.base)])

\* parseProto: the model's name is looked up with operator[]; a name that
\* holds a model already is a duplicate: res is deleted and then read for
\* the message (ub), a read of freed memory.
ParseProtoF(S, nm) ==
    IF ~S.ok THEN S
    ELSE IF S.pm[nm] = "model" THEN [S EXCEPT !.ok = FALSE, !.ub = TRUE]
    ELSE [S EXCEPT !.pm[nm] = "model"]

\* Mutant of ParseProtoEvalF: the unknown-name check is dropped.
ParseProtoEvalF_NoCheck(S, called, nm) ==
    IF ~S.ok THEN S
    ELSE LET S1 == IF S.pm[nm] = "absent" THEN [S EXCEPT !.pm[nm] = "null"] ELSE S IN
         IF called THEN IF S1.evc # Null THEN [S1 EXCEPT !.ok = FALSE] ELSE [S1 EXCEPT !.evc = nm]
         ELSE IF S1.evr # Null THEN [S1 EXCEPT !.ok = FALSE] ELSE [S1 EXCEPT !.evr = nm]

\* parseProtoEval: operator[] on the name (a null entry if it is unknown,
\* then a throw); each of the two pointers may be set once.
ParseProtoEvalF(S, called, nm) ==
    IF ~S.ok THEN S
    ELSE IF S.pm[nm] # "model" THEN [S EXCEPT !.ok = FALSE, !.pm[nm] = "null"]
    ELSE IF called THEN IF S.evc # Null THEN [S EXCEPT !.ok = FALSE] ELSE [S EXCEPT !.evc = nm]
    ELSE IF S.evr # Null THEN [S EXCEPT !.ok = FALSE] ELSE [S EXCEPT !.evr = nm]

\* parseDefaultProto: each child is parsed as a model and becomes the
\* default; a child met while a default is set throws.
ParseDefaultProtoF(S, names) ==
    FoldLeft(LAMBDA t, nm :
               IF ~t.ok THEN t
               ELSE IF t.dfp # Null THEN [t EXCEPT !.ok = FALSE]
               ELSE LET t1 == ParseProtoF(t, nm) IN IF t1.ok THEN [t1 EXCEPT !.dfp = nm] ELSE t1,
             S, names)

\* Architecture::addSpacebase: a new SpacebaseSpace named nm at the end.
AddSpacebaseF(S, nm) == NewAtEndF(S, "spacebase", nm)

\* parseStackPointer / parseSpacebase / parseDeadcodeDelay: the space
\* attribute names a space of the manager or the tag throws.
KnownSpace(S, tag) == GetSpaceByName(S, tag.space) # Null

\* parseDeadcodeDelay reads the delay with operator>> into an int4 set to
\* -1.  A text that is not a number fails the extraction, and since C++11
\* a failed extraction stores 0: only a number below 0 reaches the throw.
\* The attribute is [numeric, value]: whether its text is a number, and
\* the number.
ExtractedDelay(txt) == IF txt.numeric THEN txt.value ELSE 0

\* parseReturnAddress: no child returns; a child while the return address
\* is already set throws; otherwise the child sets it.
ParseReturnAddressF(S, nchild) ==
    IF nchild = 0 THEN S
    ELSE IF S.ra THEN [S EXCEPT !.ok = FALSE] ELSE [S EXCEPT !.ra = TRUE]

\* parseStackPointer: the base space must exist; the new spacebase space
\* is the one named "stack".
ParseStackPointerF(S, tag) ==
    IF ~KnownSpace(S, tag) THEN [S EXCEPT !.ok = FALSE] ELSE AddSpacebaseF(S, "stack")

\* parseSpacebase: the base space must exist; the new space takes the
\* name the tag gives.
ParseSpacebaseF(S, tag) ==
    IF ~KnownSpace(S, tag) THEN [S EXCEPT !.ok = FALSE] ELSE AddSpacebaseF(S, tag.arg)

\* parseDeadcodeDelay: an unknown space, or a delay below 0, throws; the
\* delay set on the space is not kept.
ParseDeadcodeDelayF(S, tag) ==
    IF ~KnownSpace(S, tag) \/ ExtractedDelay(tag.arg) < 0 THEN [S EXCEPT !.ok = FALSE] ELSE S

\* parsePreferSplit: a style other than "inhalf" throws; the split
\* records are not kept.
ParsePreferSplitF(S, tag) == IF tag.arg # "inhalf" THEN [S EXCEPT !.ok = FALSE] ELSE S

\* One child of <compiler_spec>, dispatched on its name.  Children of
\* other names change no state the model keeps; a name the loop does not
\* know is skipped.  Once a child has thrown the rest are never read.
CompilerTagF(S, tag) ==
    IF ~S.ok THEN S
    ELSE CASE tag.kind = "stackpointer" -> ParseStackPointerF(S, tag)
      [] tag.kind = "spacebase" -> ParseSpacebaseF(S, tag)
      [] tag.kind = "deadcodedelay" -> ParseDeadcodeDelayF(S, tag)
      [] tag.kind = "returnaddress" -> ParseReturnAddressF(S, tag.arg)
      [] tag.kind = "prefersplit" -> ParsePreferSplitF(S, tag)
      [] tag.kind = "default_proto" -> ParseDefaultProtoF(S, tag.arg)
      [] tag.kind \in {"prototype", "resolveprototype"} -> ParseProtoF(S, tag.arg)
      [] tag.kind = "eval_called_prototype" -> ParseProtoEvalF(S, TRUE, tag.arg)
      [] tag.kind = "eval_current_prototype" -> ParseProtoEvalF(S, FALSE, tag.arg)
      [] OTHER -> S

\* The children of <processor_spec> that parseProcessorConfig accepts.
ProcElems == {"programcounter", "volatile", "incidentalcopy", "context_data", "jumpassist",
              "register_data", "segmented_address", "default_symbols",
              "default_memory_blocks", "address_shift_amount", "properties", "data_space"}

\* parseProcessorConfig: a missing <processor_spec> throws, and so does the
\* first child whose name it does not know.
ProcessorConfigF(S, pspec) ==
    IF ~S.ok THEN S
    ELSE IF pspec = Null THEN [S EXCEPT !.ok = FALSE]
    ELSE FoldLeft(LAMBDA t, e : IF ~t.ok \/ e \in ProcElems THEN t ELSE [t EXCEPT !.ok = FALSE],
                  S, pspec)

\* parseCompilerConfig: the children in document order, then the default
\* model (the only model if no <default_proto> set one), then a
\* __thiscall model cloned from the default if there is none.
CompilerConfigF(S, tags) ==
    LET S1 == FoldLeft(CompilerTagF, S, tags)
        known == {n \in ProtoNames : S1.pm[n] # "absent"}
        S2 == IF ~S1.ok \/ S1.dfp # Null THEN S1
              ELSE IF Cardinality(known) = 1 THEN [S1 EXCEPT !.dfp = CHOOSE n \in known : TRUE]
              ELSE [S1 EXCEPT !.ok = FALSE]
    IN  IF ~S2.ok \/ S2.pm[ThisCall] # "absent" THEN S2 ELSE [S2 EXCEPT !.pm[ThisCall] = "model"]

\* The inserts of restoreXmlSpaces: the const space first, then each child.
RestoreXmlSpacesF(S, xml) ==
    NewSpacesF(NewSpaceF(S, [type |-> "constant", name |-> "const", index |-> 0]), xml)

-----------------------------------------------------------------------------
(* Architecture::restoreFromSpec.  newtrans->initialize reads the         *)
(* <spaces> tag (restoreXmlSpaces); translate is assigned only after it   *)
(* returns.  A throw leaves the Architecture failed: RegisterProgram never *)
(* registers it.  A default space name that names no space is a null      *)
(* dereference in restoreXmlSpaces, modelled as the process crashing.     *)

ArchInit(xml, defname, pspec, cspec) ==
    LET T0 == [m |-> EmptyManager, rc |-> refcount, n |-> nspc, at |-> attr, ok |-> TRUE,
               ub |-> FALSE, ra |-> FALSE] @@ EmptyRegistry
        T1 == RestoreXmlSpacesF(T0, xml)
        dsp == GetSpaceByName(T1, defname)
        T2 == SetDefaultSpaceF(T1, T1.at[dsp].index)
        A0 == [T2 EXCEPT !.m = EmptyManager]
        A1 == SetDefaultSpaceF(CopySpacesF(A0, T2.m.base), T2.at[T2.m.dflt].index)
        A2 == NewAtEndF(NewAtEndF(NewAtEndF(A1, "fspec", "fspec"), "iop", "iop"), "join", "join")
        A3 == CompilerConfigF(ProcessorConfigF(A2, pspec), cspec)
        Fin == IF ~T1.ok THEN T1 ELSE IF ~T2.ok THEN T2 ELSE A3
        nullDeref == T1.ok /\ dsp = Null
        \* The process dies, or the read of freed memory goes unnoticed.
        crash == IF nullDeref THEN TRUE ELSE T2.ok /\ A3.ub
    IN  /\ st = [m \in Mgrs |-> "empty"]
        /\ \/ /\ crash
              /\ st' = [m \in Mgrs |-> "crashed"]
              /\ UNCHANGED <<attr, nspc, refcount, mgr, owned, protos>>
           \/ /\ ~nullDeref
              /\ attr' = Fin.at /\ nspc' = Fin.n /\ refcount' = Fin.rc
              /\ owned' = T2.ok
              /\ mgr' = [mgr EXCEPT ![Trans] = IF T1.ok THEN T2.m ELSE T1.m,
                                    ![Arch] = IF T2.ok THEN A3.m ELSE EmptyManager]
              /\ st' = IF T2.ok
                       THEN [st EXCEPT ![Trans] = "ready", ![Arch] = IF A3.ok THEN "ready" ELSE "failed"]
                       ELSE [m \in Mgrs |-> "failed"]
              /\ protos' = IF T2.ok THEN [pm |-> A3.pm, dfp |-> A3.dfp, evc |-> A3.evc, evr |-> A3.evr]
                           ELSE EmptyRegistry
        /\ UNCHANGED <<deleted, splitlist, joinallocate, lastJoin, dumped>>

\* Architecture::setDefaultModel(nm): getModel finds the entry or throws
\* (a throw changes nothing and is left out).
SetDefaultModel(nm) ==
    /\ st[Arch] = "ready" /\ protos.pm[nm] # "absent"
    /\ protos' = [protos EXCEPT !.dfp = nm]
    /\ UNCHANGED <<attr, nspc, refcount, deleted, mgr, st, owned, splitlist, joinallocate, lastJoin, dumped>>

-----------------------------------------------------------------------------
(* Join records.                                                           *)

RECURSIVE PiecesLess(_, _, _)
\* The lexicographic loop of JoinRecord::operator< from position i.
PiecesLess(p, q, i) ==
    IF Len(p) = i - 1 THEN Len(q) > i - 1
    ELSE IF Len(q) = i - 1 THEN FALSE
    ELSE IF p[i] # q[i] THEN p[i] < q[i]
    ELSE PiecesLess(p, q, i + 1)

\* Mutant of JoinLess: the unified size not compared.
JoinLess_NoSize(a, b) == PiecesLess(a.pieces, b.pieces, 1)

\* JoinRecord::operator<: unified size first, then the pieces.
JoinLess(a, b) ==
    IF a.size # b.size THEN a.size < b.size ELSE PiecesLess(a.pieces, b.pieces, 1)

\* The unified size of a request, in uint4 arithmetic.
TotalSize(req) ==
    IF req.logicalsize # 0 THEN req.logicalsize
    ELSE LET RECURSIVE Sum(_) Sum(p) == IF p = <<>> THEN 0 ELSE PieceSize[Head(p)] + Sum(Tail(p))
         IN  Sum(req.pieces) % Word

\* The throws of findAddJoin.
JoinRejected(req) ==
    \/ req.pieces = <<>>
    \/ Len(req.pieces) = 1 /\ req.logicalsize = 0
    \/ req.logicalsize # 0 /\ Len(req.pieces) # 1
    \/ req.logicalsize = 0 /\ TotalSize(req) = 0

\* Mutant of RoundSize: rounded down, not up.
RoundSize_Floor(total) == LET y == total % Word IN y - (y % 16)

\* (totalsize + 15) & ~0xf in uint4: the next multiple of 16.
RoundSize(total) == LET y == (total + 15) % Word IN y - (y % 16)

\* Mutant of NextAllocate: joinallocate not advanced.
NextAllocate_Stuck(total) == joinallocate

NextAllocate(total) == joinallocate + RoundSize(total)

\* Mutant of NewRecordIndex: the back of splitlist read before the push.
NewRecordIndex_BeforePush == Len(splitlist)

\* splitlist.back() after splitlist.push_back(newjoin).
NewRecordIndex == Len(splitlist) + 1

\* AddrSpaceManager::findAddJoin(pieces, logicalsize): splitset.find with
\* the JoinRecordCompare equivalence, else a new record at joinallocate.
FindAddJoin(req) ==
    /\ st[Arch] = "ready" /\ Len(splitlist) < MaxJoins
    /\ IF JoinRejected(req)
       THEN /\ lastJoin' = [req |-> req, rec |-> -1] /\ UNCHANGED <<splitlist, joinallocate>>
       ELSE LET test == [pieces |-> req.pieces, size |-> TotalSize(req), offset |-> 0]
                same == {i \in DOMAIN splitlist : ~JoinLess(splitlist[i], test) /\ ~JoinLess(test, splitlist[i])}
            IN  IF same # {}
                THEN /\ lastJoin' = [req |-> req, rec |-> CHOOSE i \in same : TRUE]
                     /\ UNCHANGED <<splitlist, joinallocate>>
                ELSE /\ splitlist' = Append(splitlist, [test EXCEPT !.offset = joinallocate])
                     /\ joinallocate' = NextAllocate(test.size)
                     /\ lastJoin' = [req |-> req, rec |-> NewRecordIndex]
    /\ UNCHANGED <<attr, nspc, refcount, deleted, mgr, st, owned, protos, dumped>>

\* The Architecture's space named nm, Null if it has none.
ArchSpace(nm) ==
    LET hits == {i \in DOMAIN mgr[Arch].base : attr[mgr[Arch].base[i]].name = nm}
    IN  IF hits = {} THEN Null ELSE mgr[Arch].base[CHOOSE i \in hits : TRUE]

\* A call of a join-address constructor that returns an address it
\* already had, or throws: no record is asked for or handed out.
NoJoin ==
    /\ lastJoin' = [req |-> Null, rec |-> -1]
    /\ UNCHANGED <<splitlist, joinallocate, attr, nspc, refcount, deleted, mgr, st, owned, protos, dumped>>

\* constructFloatExtensionAddress(realaddr, realsize, logicalsize): the
\* real address itself when the sizes agree, else the join address of a
\* one-piece record of the logical size.
ConstructFloatExtensionAddress(p, logicalsize) ==
    /\ st[Arch] = "ready" /\ ArchSpace(PieceSpace[p]) # Null
    /\ IF logicalsize = PieceSize[p] THEN NoJoin
       ELSE FindAddJoin([pieces |-> <<p>>, logicalsize |-> logicalsize])

\* Address::isContiguous(hisz, loaddr, losz): one space, the most
\* significant piece at the low end on a big-endian space.
IsContiguous(hi, lo) ==
    /\ PieceSpace[hi] = PieceSpace[lo]
    /\ IF BigEndian THEN PieceOffset[hi] + PieceSize[hi] = PieceOffset[lo]
       ELSE PieceOffset[lo] + PieceSize[lo] = PieceOffset[hi]

\* constructJoinAddress(translate, hiaddr, hisz, loaddr, losz): pieces
\* outside processor and spacebase spaces throw; contiguous pieces in a
\* mappable space (a spacebase or the default space) give the earliest
\* address, and in a register space too when a register covers both;
\* otherwise the join address of the two-piece record.
ConstructJoinAddress(hi, lo) ==
    LET hs == ArchSpace(PieceSpace[hi])  ls == ArchSpace(PieceSpace[lo])
        hitp == attr[hs].type  lotp == attr[ls].type
        usejoinspace == ~(\/ "spacebase" \in {hitp, lotp}
                          \/ mgr[Arch].dflt \in {hs, ls})
        first == IF BigEndian THEN hi ELSE lo
        parent == <<PieceSpace[first], PieceOffset[first], PieceSize[hi] + PieceSize[lo]>> \in Registers
    IN  /\ st[Arch] = "ready" /\ hs # Null /\ ls # Null
        /\ IF {hitp, lotp} \ {"spacebase", "processor"} # {} THEN NoJoin
           ELSE IF IsContiguous(hi, lo) /\ (~usejoinspace \/ parent) THEN NoJoin
           ELSE FindAddJoin([pieces |-> <<hi, lo>>, logicalsize |-> 0])

RECURSIVE Search(_, _, _)
\* The binary search of findJoin over splitlist[lo..hi] (0-based); 0 for
\* "Unlinked join address".
Search(off, lo, hi) ==
    IF lo > hi THEN 0
    ELSE LET mid == (lo + hi) \div 2  val == splitlist[mid + 1].offset
         IN  IF val = off THEN mid + 1
             ELSE IF val < off THEN Search(off, mid + 1, hi) ELSE Search(off, lo, mid - 1)

\* AddrSpaceManager::findJoin(offset): the index of the record found.
FindJoin(off) == Search(off, 0, Len(splitlist) - 1)

-----------------------------------------------------------------------------
(* PcodeEmit::restorePackedOp, which reads one p-code op from a packed     *)
(* byte stream against the Translate's spaces.  A stream byte is an        *)
(* integer; the tags are the byte values TagOp..TagEnd.  Each decoder      *)
(* returns [res, pos, val]: res is "ok", "throw" (a LowlevelError) or "ub" *)
(* (a read past the stream or past baselist, or a write past invar).      *)

Fail(r) == [res |-> r, pos |-> 0, val |-> Null]
Ok(p, v) == [res |-> "ok", pos |-> p, val |-> v]
Byte(b, p) == b[p]
Uintb == 2^UintbBits

\* (uintb)(val-0x20) << shift, cut to the width of uintb.
Chunk(val, shift) == (((val - 32) % Uintb) * 2^shift) % Uintb

\* Mutant of OffsetLoop: the chunks are taken 8 bits apart.
RECURSIVE OffsetLoop_Wide(_, _, _, _)
OffsetLoop_Wide(b, p, shift, res) ==
    IF shift >= ShiftLimit THEN Fail("throw")
    ELSE IF p > Len(b) THEN Fail("ub")
    ELSE IF Byte(b, p) = TagEnd THEN Ok(p + 1, res)
    ELSE OffsetLoop_Wide(b, p + 1, shift + 8, res | Chunk(Byte(b, p), shift))

\* The loop of unpackOffset: six bits per byte until the end tag, and a
\* throw once shift reaches ShiftLimit (67 for a 64-bit uintb).
RECURSIVE OffsetLoop(_, _, _, _)
OffsetLoop(b, p, shift, res) ==
    IF shift >= ShiftLimit THEN Fail("throw")
    ELSE IF p > Len(b) THEN Fail("ub")
    ELSE IF Byte(b, p) = TagEnd THEN Ok(p + 1, res)
    ELSE OffsetLoop(b, p + 1, shift + 6, res | Chunk(Byte(b, p), shift))

\* AddrSpaceManager::getSpace(i) of the Translate: baselist[i].
GetSpaceF(i) ==
    LET base == mgr[Trans].base IN
    IF i >= 0 /\ i < Len(base) THEN Ok(0, base[i + 1]) ELSE Fail("ub")

\* unpackVarnodeData: an addrsz varnode (space index, offset, size), or a
\* spaceid varnode (the constant space, offset the space's pointer).
UnpackVarnodeF(b, p) ==
    IF p + 1 > Len(b) THEN Fail("ub")
    ELSE IF Byte(b, p) = TagAddrsz
    THEN LET spc == GetSpaceF(Byte(b, p + 1) - 32)
             off == OffsetLoop(b, p + 2, 0, 0)
         IN  IF spc.res # "ok" THEN spc
             ELSE IF off.res # "ok" THEN off
             ELSE IF off.pos > Len(b) THEN Fail("ub")
             ELSE Ok(off.pos + 1, [space |-> spc.val, offset |-> off.val,
                                   size |-> (Byte(b, off.pos) - 32) % Word])
    ELSE IF Byte(b, p) = TagSpaceid
    THEN LET spc == GetSpaceF(Byte(b, p + 1) - 32) IN
         IF spc.res # "ok" THEN spc
         ELSE Ok(p + 2, [space |-> mgr[Trans].ptr["constantspace"], offset |-> spc.val,
                         size |-> PtrSize])
    ELSE Fail("throw")

\* The input loop of restorePackedOp: varnodes until the end tag, each
\* stored in invar[isize] of an array of InvarCap entries.
RECURSIVE InputLoop(_, _, _)
InputLoop(b, p, ins) ==
    IF p > Len(b) THEN Fail("ub")
    ELSE IF Byte(b, p) = TagEnd THEN Ok(p + 1, ins)
    ELSE LET v == UnpackVarnodeF(b, p) IN
         IF v.res # "ok" THEN v
         ELSE IF Len(ins) >= InvarCap THEN Fail("ub")
         ELSE InputLoop(b, v.pos, Append(ins, v.val))

\* restorePackedOp: the op tag, the opcode, the output or the void tag,
\* the inputs; the result is what dump receives.
RestorePackedOpF(b) ==
    IF Len(b) < 3 THEN Fail("ub")
    ELSE LET opc == Byte(b, 2) - 32
             out == IF Byte(b, 3) = TagVoid THEN Ok(4, Null) ELSE UnpackVarnodeF(b, 3)
             ins == IF out.res = "ok" THEN InputLoop(b, out.pos, <<>>) ELSE out
         IN  IF ins.res # "ok" THEN ins
             ELSE Ok(ins.pos, [opc |-> opc, out |-> out.val, ins |-> ins.val])

\* A packed op is decoded while the Translate's spaces are in place.
RestorePackedOp(s) ==
    /\ st[Trans] = "ready"
    /\ dumped' = [stream |-> s, out |-> RestorePackedOpF(s.bytes)]
    /\ UNCHANGED <<attr, nspc, refcount, deleted, mgr, st, owned, splitlist, joinallocate,
                   lastJoin, protos>>

-----------------------------------------------------------------------------
(* PcodeEmit::restoreXmlOp (translate.cc) and VarnodeData::restoreXml      *)
(* (pcoderaw.cc): the same op read from an <op> element.  An element is   *)
(* [code, kids]; a child is [tag, attrs, space, offset, size, name], attrs *)
(* the sequence of its attribute names in document order.  The spaces are *)
(* looked up by name in the Translate's baselist.                          *)

TransSpaces == [m |-> mgr[Trans], at |-> attr]

\* The first attribute restoreXml's loop acts on: "space", "name" or none.
FirstKey(c) ==
    LET ks == {i \in DOMAIN c.attrs : c.attrs[i] \in {"space", "name"}}
    IN  IF ks = {} THEN "none" ELSE c.attrs[Min(ks)]

\* VarnodeData::restoreXml.  A "space" attribute names a space (a throw if
\* none has the name) whose restoreXmlAttributes reads offset and size; a
\* "name" attribute copies the register getRegister returns (a throw for
\* an unknown name).  With neither, space is null, size 0, and offset is
\* whatever the stack slot held (g).
VarnodeRestoreF(c, g) ==
    LET key == FirstKey(c) IN
    IF key = "space"
    THEN LET spc == GetSpaceByName(TransSpaces, c.space) IN
         IF spc = Null THEN Fail("throw")
         ELSE Ok(0, [space |-> spc, offset |-> c.offset,
                     size |-> IF "size" \in ToSet(c.attrs) THEN c.size ELSE 0])
    ELSE IF key = "name"
    THEN IF c.name \notin DOMAIN RegisterOf THEN Fail("throw")
         ELSE LET r == RegisterOf[c.name] IN
              Ok(0, [space |-> GetSpaceByName(TransSpaces, r[1]), offset |-> r[2], size |-> r[3]])
    ELSE Ok(0, [space |-> Null, offset |-> g, size |-> 0])

\* Mutant of XmlInputF: a spaceid child read as a varnode.
XmlInputF_NoSpaceid(c, g) == VarnodeRestoreF(c, g)

\* An input child: a "spaceid" child is the constant space, its offset the
\* pointer getSpaceByName returns (0 when no space has the name, no throw).
XmlInputF(c, g) ==
    IF c.tag = "spaceid"
    THEN LET spc == GetSpaceByName(TransSpaces, c.name) IN
         Ok(0, [space |-> mgr[Trans].ptr["constantspace"],
                offset |-> IF spc = Null THEN 0 ELSE spc, size |-> PtrSize])
    ELSE VarnodeRestoreF(c, g)

\* The input loop: children from the third on, while isize < 30; the
\* children after the thirtieth input are never read.
RECURSIVE XmlInputs(_, _, _, _)
XmlInputs(kids, i, ins, g) ==
    IF i > Len(kids) \/ Len(ins) >= InvarCap THEN Ok(0, ins)
    ELSE LET v == XmlInputF(kids[i], g) IN
         IF v.res # "ok" THEN v
         ELSE XmlInputs(kids, i + 1, Append(ins, v.val), g)

\* restoreXmlOp: the first child is the pc (Address::restoreXml, which is
\* VarnodeData::restoreXml), the second "void" or the output, then the
\* inputs.  Dereferencing list.end() when a child is missing is undefined.
RestoreXmlOpF(el, g) ==
    LET kids == el.kids
        pc == VarnodeRestoreF(kids[1], g)
        out == IF kids[2].tag = "void" THEN Ok(0, Null) ELSE VarnodeRestoreF(kids[2], g)
        ins == XmlInputs(kids, 3, <<>>, g)
    IN  IF Len(kids) = 0 THEN Fail("ub")
        ELSE IF pc.res # "ok" THEN pc
        ELSE IF Len(kids) = 1 THEN Fail("ub")
        ELSE IF out.res # "ok" THEN out
        ELSE IF ins.res # "ok" THEN ins
        ELSE Ok(0, [opc |-> el.code, out |-> out.val, ins |-> ins.val])

\* An <op> element is decoded while the Translate's spaces are in place.
RestoreXmlOp(e) ==
    /\ st[Trans] = "ready"
    /\ \E g \in Garbage : dumped' = [stream |-> e, out |-> RestoreXmlOpF(e.el, g)]
    /\ UNCHANGED <<attr, nspc, refcount, deleted, mgr, st, owned, splitlist, joinallocate,
                   lastJoin, protos>>

-----------------------------------------------------------------------------
(* ~Architecture: delete translate (~Translate runs ~AddrSpaceManager on  *)
(* the Translate), then ~AddrSpaceManager on the Architecture itself.      *)

\* Mutant of Release: every space deleted whatever its reference count.
Release_NoShare(base, rc, del) ==
    [rc |-> rc, del |-> del \cup {base[i] : i \in DOMAIN base}]

\* The baselist loop of ~AddrSpaceManager: refcount -= 1 if shared, else delete.
Release(base, rc, del) ==
    LET shared == {base[i] : i \in {j \in DOMAIN base : rc[base[j]] > 1}}
        mine == {base[i] : i \in DOMAIN base} \ shared
    IN  [rc |-> [s \in Ids |-> IF s \in shared THEN rc[s] - 1 ELSE rc[s]], del |-> del \cup mine]

DeleteTranslate ==
    /\ st[Arch] \in {"ready", "failed"} /\ owned /\ st[Trans] # "destroyed"
    /\ LET R == Release(mgr[Trans].base, refcount, deleted)
       IN  refcount' = R.rc /\ deleted' = R.del
    /\ st' = [st EXCEPT ![Trans] = "destroyed"]
    /\ UNCHANGED <<attr, nspc, mgr, owned, splitlist, joinallocate, lastJoin, protos, dumped>>

DestroyArchBase ==
    /\ st[Arch] \in {"ready", "failed"} /\ (owned => st[Trans] = "destroyed")
    /\ LET R == Release(mgr[Arch].base, refcount, deleted)
       IN  refcount' = R.rc /\ deleted' = R.del
    /\ st' = [st EXCEPT ![Arch] = "destroyed"] /\ protos' = EmptyRegistry
    /\ UNCHANGED <<attr, nspc, mgr, owned, splitlist, joinallocate, lastJoin, dumped>>

Next ==
    \/ \E xml \in XmlLists, d \in DefNames, ps \in PSpecs, cs \in CSpecs : ArchInit(xml, d, ps, cs)
    \/ \E req \in JoinReqs : FindAddJoin(req)
    \/ \E c \in FloatExts : ConstructFloatExtensionAddress(c[1], c[2])
    \/ \E c \in JoinPairs : ConstructJoinAddress(c[1], c[2])
    \/ \E nm \in ProtoNames : SetDefaultModel(nm)
    \/ \E s \in Streams : RestorePackedOp(s)
    \/ \E e \in XmlOps : RestoreXmlOp(e)
    \/ DeleteTranslate
    \/ DestroyArchBase

Spec == Init /\ [][Next]_vars

-----------------------------------------------------------------------------
(* Properties.                                                             *)

Live(m) == st[m] \notin {"destroyed", "crashed"}
Holds(m, s) == \E i \in DOMAIN mgr[m].base : mgr[m].base[i] = s
SpaceOf(m, s) == s # Null /\ Holds(m, s)

\* The join space seen abstractly: each record's pieces and size, mapped
\* to its offset.
JoinKeys == {[pieces |-> r.pieces, size |-> r.size] : r \in {splitlist[i] : i \in DOMAIN splitlist}}
JoinMap == [k \in JoinKeys |-> splitlist[CHOOSE i \in DOMAIN splitlist :
                                   splitlist[i].pieces = k.pieces /\ splitlist[i].size = k.size].offset]
JoinAbs == INSTANCE JoinSpace WITH joins <- JoinMap

\* findAddJoin implements the join space: a request that is new gets a
\* fresh join address, one seen before gets the address it had, and an
\* address once handed out never changes.
JoinRefinement == JoinAbs!Spec

\* A manager that finished initializing is what insertSpace, setDefaultSpace
\* and copySpaces promise: baselist[i] has index i with the const space
\* first, every shortcut pointer and the default space are spaces of the
\* baselist of the right type, and the Architecture's baselist starts with
\* the Translate's spaces in order, with the same default space.
ManagerWellFormed ==
    /\ \A m \in Mgrs : st[m] = "ready" =>
          LET B == mgr[m].base IN
          /\ \A i \in DOMAIN B : attr[B[i]].index = i - 1
          /\ B # <<>> /\ attr[B[1]].type = "constant"
          /\ SpaceOf(m, mgr[m].dflt)
          /\ \A k \in PtrKinds : mgr[m].ptr[k] # Null =>
                /\ SpaceOf(m, mgr[m].ptr[k])
                /\ PtrField(attr[mgr[m].ptr[k]].type, attr[mgr[m].ptr[k]].name) = k
    /\ st[Arch] = "ready" /\ st[Trans] = "ready" =>
          /\ SubSeq(mgr[Arch].base, 1, Len(mgr[Trans].base)) = mgr[Trans].base
          /\ mgr[Arch].dflt = mgr[Trans].dflt

\* The reference count of a space not yet deleted is the number of live
\* managers whose baselist holds it, and no live manager holds a deleted
\* space: insertSpace counts only the inserts that succeed, and
\* ~AddrSpaceManager deletes a space only when it holds the last reference.
SpaceOwnership ==
    \A s \in 1..nspc :
        /\ s \notin deleted => refcount[s] = Cardinality({m \in Mgrs : Live(m) /\ Holds(m, s)})
        /\ s \in deleted => \A m \in Mgrs : Live(m) => ~Holds(m, s)

\* The prototype registry of an Architecture that finished restoreFromSpec
\* is usable: every entry of protoModels is a model (no null left by a
\* failed lookup), defaultfp and the eval pointers are entries of it, and
\* a __thiscall model exists, as parseCompilerConfig, parseDefaultProto and
\* parseProtoEval promise between them, whatever order the compiler spec
\* lists its tags in.
ProtoRegistryUsable ==
    st[Arch] = "ready" =>
        /\ \A n \in ProtoNames : protos.pm[n] # "null"
        /\ \A p \in {protos.dfp, protos.evc, protos.evr} \ {Null} : protos.pm[p] = "model"
        /\ protos.dfp # Null /\ protos.pm[ThisCall] = "model"

\* findJoin recovers every record findAddJoin handed out from its offset:
\* the binary search needs the offsets of splitlist strictly increasing.
JoinFound == \A i \in DOMAIN splitlist : FindJoin(splitlist[i].offset) = i

\* findAddJoin throws exactly on a malformed request, and otherwise returns
\* a record with the requested pieces and unified size, the only one.
JoinReplyExact ==
    lastJoin.req # Null =>
        IF JoinRejected(lastJoin.req) THEN lastJoin.rec = -1
        ELSE /\ lastJoin.rec \in DOMAIN splitlist
             /\ splitlist[lastJoin.rec].pieces = lastJoin.req.pieces
             /\ splitlist[lastJoin.rec].size = TotalSize(lastJoin.req)
             /\ \A i \in DOMAIN splitlist : i # lastJoin.rec =>
                   splitlist[i].pieces # lastJoin.req.pieces \/ splitlist[i].size # TotalSize(lastJoin.req)

\* The decoded varnode or op an encoded one stands for, its space indices
\* looked up in the Translate's baselist.
ResolveVn(v) ==
    IF v.kind = "addr"
    THEN [space |-> mgr[Trans].base[v.idx + 1], offset |-> v.offset, size |-> v.size]
    ELSE [space |-> mgr[Trans].ptr["constantspace"], offset |-> mgr[Trans].base[v.idx + 1],
          size |-> PtrSize]
ResolveOp(o) ==
    [opc |-> o.opc, out |-> IF o.out = Null THEN Null ELSE ResolveVn(o.out),
     ins |-> [i \in DOMAIN o.ins |-> ResolveVn(o.ins[i])]]
Indices(o) == {v.idx : v \in {o.ins[i] : i \in DOMAIN o.ins} \cup (IF o.out = Null THEN {} ELSE {o.out})}

\* The space of the Translate's baselist named nm, and the decoded
\* varnode or op a by-name op (as the XML writer is given it) stands for.
NamedSpace(nm) == CHOOSE s \in {mgr[Trans].base[i] : i \in DOMAIN mgr[Trans].base} : attr[s].name = nm
ResolveXmlVn(v) ==
    CASE v.kind = "addr" -> [space |-> NamedSpace(v.spc), offset |-> v.offset, size |-> v.size]
      [] v.kind = "reg" -> [space |-> NamedSpace(RegisterOf[v.name][1]),
                            offset |-> RegisterOf[v.name][2], size |-> RegisterOf[v.name][3]]
      [] v.kind = "spaceid" -> [space |-> mgr[Trans].ptr["constantspace"],
                                offset |-> NamedSpace(v.spc), size |-> PtrSize]
ResolveXmlOp(o) ==
    [opc |-> o.opc, out |-> IF o.out = Null THEN Null ELSE ResolveXmlVn(o.out),
     ins |-> [i \in DOMAIN o.ins |-> ResolveXmlVn(o.ins[i])]]
XmlVns(o) == {o.ins[i] : i \in DOMAIN o.ins} \cup (IF o.out = Null THEN {} ELSE {o.out})
NamesKnown(o) ==
    \A v \in XmlVns(o) \cup {o.pc} :
        LET nm == IF v.kind = "reg" THEN RegisterOf[v.name][1] ELSE v.spc
        IN  \E i \in DOMAIN mgr[Trans].base : attr[mgr[Trans].base[i]].name = nm

\* Both decoders read back what their writer wrote.  restorePackedOp: for
\* a stream encoded against the Translate's spaces with at most InvarCap
\* inputs, dump receives the encoded opcode, the output or none, and each
\* input with its space, offset and size, in order (the 6-bit chunks of
\* unpackOffset, the 0x20 bias of every byte, the end tags).
\* restoreXmlOp: for an <op> element whose spaces all exist, dump receives
\* the same, by name, register and space id (restoreXml acting on the first
\* of its space or name attributes, the pc and output children in place,
\* the inputs in order up to the cap).
OpRoundTrip ==
    LET s == dumped.stream IN
    /\ (/\ dumped # Null /\ "bytes" \in DOMAIN s /\ s.src # Null /\ Len(s.src.ins) <= InvarCap
        /\ \A i \in Indices(s.src) : i < Len(mgr[Trans].base))
       => dumped.out.res = "ok" /\ dumped.out.val = ResolveOp(s.src)
    /\ (/\ dumped # Null /\ "el" \in DOMAIN s /\ s.src # Null /\ Len(s.src.ins) <= InvarCap
        /\ NamesKnown(s.src))
       => dumped.out.res = "ok" /\ dumped.out.val = ResolveXmlOp(s.src)


=============================================================================
