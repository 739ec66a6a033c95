------------------------------- MODULE IRStore -------------------------------
(***************************************************************************)
(* The data-flow store of one function (class Funcdata): the varnode bank, *)
(* the op bank, and the linkage edits of funcdata_op.cc and                *)
(* funcdata_varnode.cc through which every rule rewrites the graph.        *)
(*                                                                         *)
(* A varnode is an id of Vn, an op an id of Op; the banks allocate ids    *)
(* and a destroyed object's id may be handed out again.  Storage, sizes,   *)
(* data-types and symbols are abstracted away: a varnode is either a       *)
(* constant or a storage location.  Block positions are abstracted to the  *)
(* op being alive (in a block) or dead; the order inside a block is the    *)
(* subject of module BlockOrder.                                           *)
(*                                                                         *)
(* The whole store is the record fd, so a Funcdata method that calls other *)
(* methods is an operator composing theirs, in the order of the code.      *)
(***************************************************************************)
EXTENDS Naturals, Sequences, SequencesExt, FiniteSets

CONSTANTS
    Op,       \* op ids the op bank may allocate
    Vn,       \* varnode ids the varnode bank may allocate
    NoOp,     \* the null PcodeOp pointer
    NoVn,     \* the null Varnode pointer
    MaxIn,    \* bound on the number of input slots of an op
    TypeLocked \* ids whose storage the symbol table maps with a locked type

ASSUME NoOp \notin Op /\ NoVn \notin Vn /\ MaxIn \in Nat \ {0} /\ TypeLocked \subseteq Vn

\* The opcodes the linkage code tells apart: isMarker() is MULTIEQUAL.
Opcode == {"COPY", "MULTIEQUAL"}
IsMarker(c) == c = "MULTIEQUAL"

VARIABLE fd

(* vs: whether a varnode id is allocated; isconst: it lives in the       *)
(* constant space; isinput: the input flag; def: the defining op;         *)
(* descend: the ordered reader list.  os: whether an op id is allocated,  *)
(* dead or alive (in a block); code; ins: the input slots; out.           *)
TypeOK ==
    fd \in [vs      : [Vn -> {"none", "live"}],
            isconst : [Vn -> BOOLEAN],
            isinput : [Vn -> BOOLEAN],
            def     : [Vn -> Op \cup {NoOp}],
            descend : [Vn -> Seq(Op)],
            os      : [Op -> {"none", "dead", "alive"}],
            code    : [Op -> Opcode],
            ins     : [Op -> UNION {[1..n -> Vn \cup {NoVn}] : n \in 0..MaxIn}],
            out     : [Op -> Vn \cup {NoVn}]]

Init ==
    fd = [vs |-> [v \in Vn |-> "none"], isconst |-> [v \in Vn |-> FALSE],
          isinput |-> [v \in Vn |-> FALSE],
          def |-> [v \in Vn |-> NoOp], descend |-> [v \in Vn |-> <<>>],
          os |-> [o \in Op |-> "none"], code |-> [o \in Op |-> "COPY"],
          ins |-> [o \in Op |-> <<>>], out |-> [o \in Op |-> NoVn]]

LiveVn(s) == {v \in Vn : s.vs[v] = "live"}
\* Ids a bank may hand out: never used, or freed (the allocator reuses the
\* memory of a destroyed object, so a freed id is back to "none").
SpareVn(s) == {v \in Vn : s.vs[v] = "none"}
SpareOp(s) == {o \in Op : s.os[o] = "none"}
\* The id the next allocation takes.
NextVn(s) == CHOOSE v \in SpareVn(s) : TRUE
NextOp(s) == CHOOSE o \in SpareOp(s) : TRUE
IsFree(s, v) == s.def[v] = NoOp /\ ~s.isinput[v]
\* PcodeOp::getSlot: the first slot holding v.
GetSlot(s, o, v) == SelectInSeq(s.ins[o], LAMBDA x : x = v)
\* The sequence q with position i holding x (built afresh).
SetAt(q, i, x) == [j \in DOMAIN q |-> IF j = i THEN x ELSE q[j]]

-----------------------------------------------------------------------------
(* Factories (funcdata_varnode.cc).                                        *)

\* newConstant / newVarnode / newUnique: vbank.create of a free varnode.
NewVarnodeF(s, v, const) == [s EXCEPT !.vs[v] = "live", !.isconst[v] = const]

\* vbank.destroy: the id is released (its fields back to their defaults).
FreeVnF(s, v) ==
    [s EXCEPT !.vs[v] = "none", !.isconst[v] = FALSE, !.isinput[v] = FALSE,
              !.def[v] = NoOp, !.descend[v] = <<>>]

\* Mutant of NewOpF: slots numbered from 0 as in the C++ vector.
NewOpF_ZeroBased(s, o, n, c) ==
    [s EXCEPT !.os[o] = "dead", !.code[o] = c,
              !.ins[o] = [i \in 0..n |-> NoVn], !.out[o] = NoVn]

\* newOp: obank.create, a dead op with n empty slots.
NewOpF(s, o, n, c) ==
    [s EXCEPT !.os[o] = "dead", !.code[o] = c,
              !.ins[o] = [i \in 1..n |-> NoVn], !.out[o] = NoVn]

\* newUniqueOut: vbank.createDefUnique then op->setOutput(vn), no unset of
\* an output the op may already have.
NewUniqueOutF(s, v, o) ==
    [NewVarnodeF(s, v, FALSE) EXCEPT !.def[v] = o, !.out[o] = v]

-----------------------------------------------------------------------------
(* Linkage edits (funcdata_op.cc).                                         *)

\* opUnsetOutput: the output becomes free (vbank.makeFree), not deleted.
OpUnsetOutputF(s, o) ==
    IF s.out[o] = NoVn THEN s
    ELSE [s EXCEPT !.out[o] = NoVn, !.def[s.out[o]] = NoOp,
                   !.isinput[s.out[o]] = FALSE]

\* Mutant of OpSetOutputF: vn's previous def is not unset.
OpSetOutputF_KeepOldDef(s, o, v) ==
    IF v = s.out[o] THEN s
    ELSE [OpUnsetOutputF(s, o) EXCEPT !.def[v] = o, !.out[o] = v]

\* opSetOutput: unset the op's old output, unset the old def of vn, setDef.
OpSetOutputF(s, o, v) ==
    IF v = s.out[o] THEN s
    ELSE LET s1 == OpUnsetOutputF(s, o)
             s2 == IF s1.def[v] # NoOp THEN OpUnsetOutputF(s1, s1.def[v]) ELSE s1
         IN  [s2 EXCEPT !.def[v] = o, !.out[o] = v]

\* opUnsetInput: vn->eraseDescend(op) (first entry) then op->clearInput.
OpUnsetInputF(s, o, i) ==
    [s EXCEPT !.descend[s.ins[o][i]] = RemoveFirst(@, o), !.ins[o] = SetAt(@, i, NoVn)]

\* Mutant of OpSetInputF: the slot's old input is overwritten, not unset.
OpSetInputF_NoUnset(s, o, v, i) ==
    IF v = s.ins[o][i] THEN s
    ELSE LET dup == s.isconst[v] /\ s.descend[v] # <<>>
             w   == IF dup THEN NextVn(s) ELSE v
             s1  == IF dup THEN NewVarnodeF(s, w, TRUE) ELSE s
         IN  [s1 EXCEPT !.descend[w] = Append(@, o), !.ins[o] = SetAt(@, i, w)]

\* Mutant of OpSetInputF: constants are shared, never duplicated.
OpSetInputF_NoDup(s, o, v, i) ==
    IF v = s.ins[o][i] THEN s
    ELSE LET s2 == IF s.ins[o][i] # NoVn THEN OpUnsetInputF(s, o, i) ELSE s
         IN  [s2 EXCEPT !.descend[v] = Append(@, o), !.ins[o] = SetAt(@, i, v)]

\* opSetInput: a constant that already has a reader is duplicated
\* (newConstant) before it is attached; the old input is unset first.
OpSetInputF(s, o, v, i) ==
    IF v = s.ins[o][i] THEN s
    ELSE LET dup == s.isconst[v] /\ s.descend[v] # <<>>
             w   == IF dup THEN NextVn(s) ELSE v
             s1  == IF dup THEN NewVarnodeF(s, w, TRUE) ELSE s
             s2  == IF s1.ins[o][i] # NoVn THEN OpUnsetInputF(s1, o, i) ELSE s1
         IN  [s2 EXCEPT !.descend[w] = Append(@, o), !.ins[o] = SetAt(@, i, w)]

\* opSwapInput: the slots are exchanged, reader lists untouched.
OpSwapInputF(s, o, i, j) ==
    [s EXCEPT !.ins[o] = SetAt(SetAt(@, i, @[j]), j, @[i])]

\* opInsertInput: op->insertInput(slot) then opSetInput.
OpInsertInputF(s, o, v, i) ==
    OpSetInputF([s EXCEPT !.ins[o] = InsertAt(@, i, NoVn)], o, v, i)

\* opRemoveInput: opUnsetInput then op->removeInput(slot).
OpRemoveInputF(s, o, i) ==
    LET s1 == OpUnsetInputF(s, o, i) IN [s1 EXCEPT !.ins[o] = RemoveAt(@, i)]

\* opSetAllInput: unset every non-empty slot, resize, set slot by slot.
OpSetAllInputF(s, o, vec) ==
    LET Unset(t, i) == IF t.ins[o][i] # NoVn THEN OpUnsetInputF(t, o, i) ELSE t
        s1 == FoldLeft(Unset, s, [i \in 1..Len(s.ins[o]) |-> i])
        s2 == [s1 EXCEPT !.ins[o] = [i \in 1..Len(vec) |-> NoVn]]
    IN  FoldLeft(LAMBDA t, i : OpSetInputF(t, o, vec[i], i), s2,
                 [i \in 1..Len(vec) |-> i])

\* opUnlink: unset output, unset every slot, uninsert if in a block.
OpUnlinkF(s, o) ==
    LET s1 == OpUnsetOutputF(s, o)
        s2 == FoldLeft(LAMBDA t, i : OpUnsetInputF(t, o, i), s1,
                       [i \in 1..Len(s.ins[o]) |-> i])
    IN  [s2 EXCEPT !.os[o] = "dead"]

\* Mutant of DestroyVarnodeF: the readers' slots are left pointing at vn.
DestroyVarnodeF_KeepReaders(s, v) ==
    LET s2 == IF s.def[v] # NoOp THEN [s EXCEPT !.out[s.def[v]] = NoVn] ELSE s
    IN  FreeVnF(s2, v)

\* destroyVarnode: every reader's slot holding vn is cleared (getSlot finds
\* the next one on each visit), the def's output is cleared, vn is freed.
DestroyVarnodeF(s, v) ==
    LET Clear(t, o) == [t EXCEPT !.ins[o] = SetAt(@, GetSlot(t, o, v), NoVn)]
        s1 == FoldLeft(Clear, s, s.descend[v])
        s2 == IF s.def[v] # NoOp THEN [s1 EXCEPT !.out[s.def[v]] = NoVn] ELSE s1
    IN  FreeVnF(s2, v)

\* opDestroy: destroy the output, unset the non-empty slots, mark dead.
\* The op object stays in the dead list.
OpDestroyF(s, o) ==
    LET s1 == IF s.out[o] # NoVn THEN DestroyVarnodeF(s, s.out[o]) ELSE s
        s2 == FoldLeft(LAMBDA t, i : IF t.ins[o][i] # NoVn
                                     THEN OpUnsetInputF(t, o, i) ELSE t,
                       s1, [i \in 1..Len(s.ins[o]) |-> i])
    IN  [s2 EXCEPT !.os[o] = "dead"]

\* opDestroyRaw: destroy every input and the output, then obank.destroy.
OpDestroyRawF(s, o) ==
    LET s1 == FoldLeft(LAMBDA t, i : DestroyVarnodeF(t, s.ins[o][i]), s,
                       [i \in 1..Len(s.ins[o]) |-> i])
        s2 == IF s.out[o] # NoVn THEN DestroyVarnodeF(s1, s.out[o]) ELSE s1
    IN  [s2 EXCEPT !.os[o] = "none", !.code[o] = "COPY", !.ins[o] = <<>>]

-----------------------------------------------------------------------------
(* Whole-graph edits (funcdata_varnode.cc).                                *)

\* totalReplace: the iterator is advanced before each opSetInput, and the
\* entry erased is at or before it, so the loop visits the list as it was.
TotalReplaceF(s, v, nv) ==
    FoldLeft(LAMBDA t, o : OpSetInputF(t, o, nv, GetSlot(t, o, v)), s, s.descend[v])

\* totalReplaceConstant: each reader gets a fresh constant, except markers,
\* which all share the output of one COPY of the constant, created at the
\* first marker and inserted after vn's def (or at the start of block 0).
TotalReplaceConstantF(s, v) ==
    LET Step(acc, o) ==
          LET t == acc[1]  copyop == acc[2]  i == GetSlot(t, o, v) IN
          IF IsMarker(t.code[o])
          THEN IF copyop = NoOp
               THEN LET c  == NextOp(t)
                        t1 == NewOpF(t, c, 1, "COPY")
                        t2 == NewUniqueOutF(t1, NextVn(t1), c)
                        nr == NextVn(t1)
                        t3 == NewVarnodeF(t2, NextVn(t2), TRUE)
                        t4 == OpSetInputF(t3, c, NextVn(t2), 1)
                        t5 == [t4 EXCEPT !.os[c] = "alive"]
                    IN  <<OpSetInputF(t5, o, nr, i), c>>
               ELSE <<OpSetInputF(t, o, t.out[copyop], i), copyop>>
          ELSE LET t1 == NewVarnodeF(t, NextVn(t), TRUE)
               IN  <<OpSetInputF(t1, o, NextVn(t), i), copyop>>
    IN  FoldLeft(Step, <<s, NoOp>>, s.descend[v])[1]

\* clearDeadVarnodes: a reader-less input that is not type-locked is made
\* free; every reader-less free varnode is destroyed.
ClearDeadVarnodesF(s) ==
    LET unread == {v \in LiveVn(s) : s.descend[v] = <<>>}
        mkfree == {v \in unread : s.isinput[v] /\ v \notin TypeLocked}
        s1 == [s EXCEPT !.isinput = [v \in Vn |-> IF v \in mkfree THEN FALSE ELSE @[v]]]
        dead == {v \in unread : IsFree(s1, v)}
    IN  FoldSet(LAMBDA v, t : FreeVnF(t, v), s1, dead)

\* cloneVarnode: vbank.create at the storage of vn, with only the flags
\* of the allowed list (which leaves input out): a free copy of vn.
CloneVarnodeF(s, v, src) == NewVarnodeF(s, v, s.isconst[src])

\* cloneOp: newOp with op's slot count, opSetOpcode, then opSetOutput of a
\* clone of the output, and opSetInput of a clone of each input in turn.
CloneOpF(s, o) ==
    LET n  == NextOp(s)
        s1 == NewOpF(s, n, Len(s.ins[o]), s.code[o])
        s2 == IF s.out[o] = NoVn THEN s1
              ELSE LET v == NextVn(s1) IN OpSetOutputF(CloneVarnodeF(s1, v, s.out[o]), n, v)
    IN  FoldLeft(LAMBDA t, i : LET v == NextVn(t)
                               IN  OpSetInputF(CloneVarnodeF(t, v, s.ins[o][i]), n, v, i),
                 s2, [i \in 1..Len(s.ins[o]) |-> i])

-----------------------------------------------------------------------------
(* The operations a rule or action may call.  A guard is the code's early  *)
(* return (a no-op step is left out) or a condition under which the code   *)
(* would dereference a null pointer or throw, which callers never reach.   *)

Used(s) == {o \in Op : s.os[o] \in {"dead", "alive"}}
HasRoom(s, k) == Cardinality(SpareVn(s)) >= k
ConstCount(s, vs) == Cardinality({i \in DOMAIN vs : s.isconst[vs[i]]})

NewConstant == SpareVn(fd) # {} /\ fd' = NewVarnodeF(fd, NextVn(fd), TRUE)

NewVarnode == SpareVn(fd) # {} /\ fd' = NewVarnodeF(fd, NextVn(fd), FALSE)

NewOp(n, c) == SpareOp(fd) # {} /\ fd' = NewOpF(fd, NextOp(fd), n, c)

\* setInputVarnode: vbank.setInput marks a free storage varnode as input.
SetInputVarnode(v) ==
    /\ v \in LiveVn(fd) /\ ~fd.isconst[v] /\ IsFree(fd, v)
    /\ fd' = [fd EXCEPT !.isinput[v] = TRUE]

OpSetOpcode(o, c) == o \in Used(fd) /\ fd' = [fd EXCEPT !.code[o] = c]

\* vbank.setDef throws on a varnode that is an input.
OpSetOutput(o, v) ==
    /\ o \in Used(fd) /\ v \in LiveVn(fd) /\ ~fd.isconst[v] /\ ~fd.isinput[v]
    /\ v # fd.out[o]
    /\ fd' = OpSetOutputF(fd, o, v)

OpUnsetOutput(o) == fd.out[o] # NoVn /\ fd' = OpUnsetOutputF(fd, o)

OpSetInput(o, v, i) ==
    /\ o \in Used(fd) /\ i \in DOMAIN fd.ins[o] /\ v \in LiveVn(fd)
    /\ v # fd.ins[o][i] /\ HasRoom(fd, 1)
    /\ fd' = OpSetInputF(fd, o, v, i)

OpSwapInput(o, i, j) ==
    /\ o \in Used(fd) /\ i \in DOMAIN fd.ins[o] /\ j \in DOMAIN fd.ins[o] /\ i < j
    /\ fd' = OpSwapInputF(fd, o, i, j)

OpInsertInput(o, v, i) ==
    /\ o \in Used(fd) /\ Len(fd.ins[o]) < MaxIn /\ i \in 1..Len(fd.ins[o]) + 1
    /\ v \in LiveVn(fd) /\ HasRoom(fd, 1)
    /\ fd' = OpInsertInputF(fd, o, v, i)

\* opUnsetInput dereferences the slot's varnode.
OpRemoveInput(o, i) ==
    /\ o \in Used(fd) /\ i \in DOMAIN fd.ins[o] /\ fd.ins[o][i] # NoVn
    /\ fd' = OpRemoveInputF(fd, o, i)

OpSetAllInput(o, vec) ==
    /\ o \in Used(fd) /\ HasRoom(fd, ConstCount(fd, vec))
    /\ fd' = OpSetAllInputF(fd, o, vec)

OpInsert(o) == fd.os[o] = "dead" /\ fd' = [fd EXCEPT !.os[o] = "alive"]

OpUninsert(o) == fd.os[o] = "alive" /\ fd' = [fd EXCEPT !.os[o] = "dead"]

\* opUnlink calls opUnsetInput on every slot, empty or not.
OpUnlink(o) ==
    /\ o \in Used(fd) /\ \A i \in DOMAIN fd.ins[o] : fd.ins[o][i] # NoVn
    /\ fd' = OpUnlinkF(fd, o)

\* The documented precondition: every reader of the output is itself out of
\* the blocks (going to be destroyed too).
OpDestroy(o) ==
    /\ o \in Used(fd)
    /\ fd.out[o] # NoVn => \A r \in ToSet(fd.descend[fd.out[o]]) : fd.os[r] # "alive"
    /\ fd' = OpDestroyF(fd, o)

\* Flow generation destroys a dead op whose varnodes nothing else touches.
OpDestroyRaw(o) ==
    /\ fd.os[o] = "dead"
    /\ \A i \in DOMAIN fd.ins[o] :
         fd.ins[o][i] # NoVn /\ ToSet(fd.descend[fd.ins[o][i]]) = {o}
    /\ fd.out[o] # NoVn => fd.descend[fd.out[o]] = <<>>
    /\ fd' = OpDestroyRawF(fd, o)

TotalReplace(v, nv) ==
    /\ v \in LiveVn(fd) /\ nv \in LiveVn(fd) /\ v # nv /\ fd.descend[v] # <<>>
    /\ HasRoom(fd, Len(fd.descend[v]))
    /\ fd' = TotalReplaceF(fd, v, nv)

\* opInsertAfter(copyop, vn->getDef()) needs the def to be in a block.
TotalReplaceConstant(v) ==
    /\ v \in LiveVn(fd) /\ fd.descend[v] # <<>>
    /\ LET markers == \E i \in DOMAIN fd.descend[v] : IsMarker(fd.code[fd.descend[v][i]])
       IN  HasRoom(fd, Len(fd.descend[v]) + IF markers THEN 1 ELSE 0)
           /\ (markers => SpareOp(fd) # {})
    /\ fd.def[v] # NoOp => fd.os[fd.def[v]] = "alive"
    /\ fd' = TotalReplaceConstantF(fd, v)

\* fillinReadOnly once the load image has the bytes: each reader but a
\* marker gets a fresh constant of the value, in the slot that reads vn
\* (INDIRECT readers, which it turns into COPYs first, are not in Opcode).
FillinReadOnlyF(s, v) ==
    FoldLeft(LAMBDA t, o : IF IsMarker(t.code[o]) THEN t
                           ELSE OpSetInputF(NewVarnodeF(t, NextVn(t), TRUE), o, NextVn(t), GetSlot(t, o, v)),
             s, s.descend[v])

\* Funcdata::fillinReadOnly on a read-only varnode.  A written one only
\* gets a warning on its def, and bytes the load image lacks clear the
\* readonly flag: neither changes the linkage, so only the replacement of
\* the reads is an action.
FillinReadOnly(v) ==
    /\ v \in LiveVn(fd) /\ ~fd.isconst[v] /\ fd.def[v] = NoOp
    /\ HasRoom(fd, Cardinality({i \in DOMAIN fd.descend[v] : ~IsMarker(fd.code[fd.descend[v][i]])}))
    /\ fd' = FillinReadOnlyF(fd, v)

\* cloneOp reads every slot and the output through getIn/getOut: an empty
\* slot would be a null dereference in cloneVarnode.
CloneOp(o) ==
    /\ o \in Used(fd) /\ SpareOp(fd) # {} /\ \A i \in DOMAIN fd.ins[o] : fd.ins[o][i] # NoVn
    /\ HasRoom(fd, Len(fd.ins[o]) + IF fd.out[o] = NoVn THEN 0 ELSE 1)
    /\ fd' = CloneOpF(fd, o)

ClearDeadVarnodes ==
    LET nfd == ClearDeadVarnodesF(fd) IN nfd # fd /\ fd' = nfd

Next ==
    \/ NewConstant \/ NewVarnode \/ ClearDeadVarnodes
    \/ \E n \in 0..MaxIn, c \in Opcode : NewOp(n, c)
    \/ \E o \in Op :
         \/ OpInsert(o) \/ OpUninsert(o) \/ OpUnlink(o) \/ OpUnsetOutput(o)
         \/ OpDestroy(o) \/ OpDestroyRaw(o) \/ CloneOp(o)
         \/ \E c \in Opcode : OpSetOpcode(o, c)
         \/ \E i, j \in 1..MaxIn : OpSwapInput(o, i, j) \/ OpRemoveInput(o, i)
         \/ \E v \in Vn :
              \/ OpSetOutput(o, v)
              \/ \E i \in 1..MaxIn : OpSetInput(o, v, i) \/ OpInsertInput(o, v, i)
         \/ \E n \in 1..MaxIn : \E vec \in [1..n -> LiveVn(fd)] : OpSetAllInput(o, vec)
    \/ \E v \in Vn :
         \/ SetInputVarnode(v) \/ TotalReplaceConstant(v) \/ FillinReadOnly(v)
         \/ \E nv \in Vn : TotalReplace(v, nv)

Spec == Init /\ [][Next]_fd

-----------------------------------------------------------------------------
(* Properties.                                                             *)

Count(seq, x) == Cardinality({i \in DOMAIN seq : seq[i] = x})

\* Reader lists (spec section 3): after any sequence of linkage edits, an op
\* appears in the reader list of a varnode exactly as many times as it has
\* input slots holding it, for alive and dead ops alike.  Broken when an
\* edit such as opSetInput, opRemoveInput or destroyVarnode forgets one side.
ReaderListExact ==
    \A v \in LiveVn(fd), o \in Op :
        Count(fd.descend[v], o) = Count(fd.ins[o], v)

\* Output binding: an op's output names the op as its def and a varnode's
\* def names it as output, through opSetOutput stealing a varnode from
\* another op, opUnsetOutput, destroyVarnode and newUniqueOut.
DefOutputAgree ==
    /\ \A o \in Op : fd.out[o] # NoVn => fd.def[fd.out[o]] = o
    /\ \A v \in LiveVn(fd) : fd.def[v] # NoOp => fd.out[fd.def[v]] = v

\* Single-reader rule for constants: opSetInput duplicates a constant that
\* already has a reader, so through totalReplace, opSetAllInput and
\* totalReplaceConstant no constant is ever read twice or defined.
ConstantSingleReader ==
    \A v \in LiveVn(fd) :
        fd.isconst[v] => Len(fd.descend[v]) <= 1 /\ fd.def[v] = NoOp

\* No op of the bank refers to a destroyed varnode and no reader list to a
\* destroyed op: destroyVarnode, opDestroy, opDestroyRaw and
\* clearDeadVarnodes free only what nothing links to any more.
NoDanglingLink ==
    /\ \A o \in Used(fd) :
         /\ \A i \in DOMAIN fd.ins[o] : fd.ins[o][i] \in LiveVn(fd) \cup {NoVn}
         /\ fd.out[o] \in LiveVn(fd) \cup {NoVn}
    /\ \A v \in LiveVn(fd) : ToSet(fd.descend[v]) \subseteq Used(fd)

=============================================================================
