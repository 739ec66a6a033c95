---------------------------- MODULE GhidraProcess ----------------------------
(***************************************************************************)
(* The decompiler process's command loop (ghidra_process.cc).  main calls  *)
(* GhidraCapability::readCommand until a command returns status 1;        *)
(* readCommand looks the command name up in commandmap, whose entries are  *)
(* singleton GhidraCommand objects built once by                          *)
(* GhidraDecompCapability::initialize, and calls doit: loadParameters,     *)
(* the end-of-command check, rawAction, sendResult, with the exceptions   *)
(* of these steps caught in doit.                                         *)
(*                                                                         *)
(* Each command object keeps its member `ghidra` from one command to the   *)
(* next; archlist is the process-wide vector of registered architectures,  *)
(* indexed by the id the client sends.  Stream contents, XML and option    *)
(* values are abstracted away: an architecture is a model value of Arch;  *)
(* the settings the commands change are its conf record: the current root *)
(* action, the print flags of setAction, the options of setOptions and    *)
(* the state of the function decompileAt is sent for.                     *)
(***************************************************************************)
EXTENDS Integers, Sequences, FiniteSets

CONSTANTS
    Arch,         \* architecture objects `new ArchitectureGhidra` may return
    Null,         \* the null ArchitectureGhidra pointer
    GenericCmds,  \* commands whose rawAction only reads (structureGraph)
    InitMayFail,  \* whether ArchitectureGhidra::init may throw
    StrayIds,     \* ids a client may send besides those it was given
    ArchIdInit,   \* values the uninitialised RegisterProgram::archid may hold
    ActionNames,  \* the root actions allacts knows
    ActionStrings,\* action names a setAction request may carry ("" for none)
    PrintStrings, \* print strings a setAction request may carry ("" for none)
    FnAddr,       \* the address of the one function of each program
    Addrs,        \* addresses a decompileAt request may carry
    Throws,       \* which of "xml", "perform", "options" may throw
    ClientCmds,   \* the command names the client sends
    MaxRequests   \* bound on the requests a session sends

ASSUME /\ Null \notin Arch /\ InitMayFail \in BOOLEAN
       /\ GenericCmds \cap {"registerProgram", "deregisterProgram", "flushNative",
                            "decompileAt", "setAction", "setOptions"} = {}
       /\ ArchIdInit \subseteq Int /\ StrayIds \subseteq Int
       /\ FnAddr \in Addrs /\ Throws \subseteq {"xml", "perform", "options"}

Cmds == GenericCmds \cup {"registerProgram", "deregisterProgram", "flushNative",
                          "decompileAt", "setAction", "setOptions"}
\* The commands whose loadParameters starts with GhidraCommand's.
ArchCmds == Cmds \ {"registerProgram"}
\* The two commands that reply with a boolean res member.
ResCmds == {"setAction", "setOptions"}

\* The flags setAction's print strings set and clear.
Flags == {"tree", "ccode", "pm", "jumpload"}
Conf == [action : ActionNames, flags : [Flags -> BOOLEAN],
         options : {"default", "set", "partial"}, fn : {"none", "started", "complete"}]

VARIABLES
    archlist,   \* the vector archlist; entry id+1 is the architecture of id
    ghidra,     \* each command object's member ghidra
    archid,     \* RegisterProgram::archid, sent back by its sendResult
    created,    \* architectures allocated so far
    deleted,    \* architectures deleted by deregisterProgram
    status,     \* "running" until a command returns status 1
    given,      \* ids the client has received from registerProgram replies
    conf,       \* each architecture's settings
    res,        \* the res member of SetAction and SetOptions
    optdoc,     \* whether SetOptions holds a parsed document (its doc member)
    reply,      \* what the last command did and reported
    nreq        \* requests main's loop has read (bounded by MaxRequests)

vars == <<archlist, ghidra, archid, created, deleted, status, given, conf, res, optdoc, reply, nreq>>

\* The id of archlist[id] as a C++ index, and the entry it names.
Valid(id) == 0 <= id /\ id < Len(archlist)
At(id) == archlist[id + 1]

\* A reply: the command, the id the request carried, the architecture that
\* id named when the command started, the architecture the command acted
\* on, the id a registerProgram reply names, and how it ended ("java": a
\* JavaError sent instead of a result; "caught": an error caught in doit
\* and turned into a message; "none"; "badcmd": not a command); for
\* decompileAt whether a <doc> was written, for setAction and setOptions
\* the res sent and whether this request's rawAction ran to its end.
Reply == [cmd : Cmds \cup {"none"}, req : Int, addressed : Arch \cup {Null},
          target : Arch \cup {Null}, id : Int, err : {"none", "java", "caught", "badcmd"},
          doc : BOOLEAN, res : {"t", "f", "none"}, applied : BOOLEAN]

\* Indices of archlist: one entry per architecture ever created.
Index == 0..Cardinality(Arch) - 1

TypeOK ==
    /\ archlist \in Seq(Arch \cup {Null})
    /\ ghidra \in [Cmds -> Arch \cup {Null}]
    /\ archid \in Index \cup ArchIdInit
    /\ created \subseteq Arch /\ deleted \subseteq created
    /\ status \in {"running", "exited"}
    /\ given \subseteq Index
    /\ conf \in [Arch -> Conf] /\ res \in [ResCmds -> BOOLEAN] /\ optdoc \in BOOLEAN
    /\ reply \in Reply
    /\ nreq \in 0..MaxRequests

NoReply == [cmd |-> "none", req |-> -1, addressed |-> Null, target |-> Null,
            id |-> -1, err |-> "none", doc |-> FALSE, res |-> "none", applied |-> FALSE]

\* A new architecture: the Architecture constructor clears flowoptions (no
\* jumpload recording); ArchitectureGhidra sends the syntax tree and C code,
\* no parameter measures, and starts on the "decompile" action.
DefaultConf == [action |-> "decompile",
                flags |-> [f \in Flags |-> f \in {"tree", "ccode"}],
                options |-> "default", fn |-> "none"]

\* initialize builds every command object with a null ghidra; the res
\* members are never initialised.
Init ==
    /\ archlist = <<>>
    /\ ghidra = [c \in Cmds |-> Null]
    /\ archid \in ArchIdInit
    /\ created = {} /\ deleted = {}
    /\ status = "running"
    /\ given = {}
    /\ conf = [a \in Arch |-> DefaultConf]
    /\ res \in [ResCmds -> BOOLEAN]
    /\ optdoc = FALSE
    /\ reply = NoReply
    /\ nreq = 0

\* The ids the client may put in a request.
RequestIds == given \cup StrayIds

\* The entry an id names, or Null when archlist has no such entry.
Addressed(id) == IF Valid(id) THEN At(id) ELSE Null

-----------------------------------------------------------------------------
\* Mutant of LoadParametersF: id 0 is taken for out of range.
LoadParametersF_SkipZero(c, id) ==
    IF 0 < id /\ id < Len(archlist) THEN At(id) ELSE ghidra[c]

\* GhidraCommand::loadParameters (and DeregisterProgram's copy of it): the
\* member is replaced only for an id inside archlist; otherwise the
\* architecture of an earlier command stays.  A null result throws.
LoadParametersF(c, id) ==
    IF Valid(id) THEN At(id) ELSE ghidra[c]

\* sendResult of setAction and setOptions: "t" or "f" from res.
Sent(b) == IF b THEN "t" ELSE "f"

\* The reply of command c to a request carrying id, acting on g.
Rep(c, id, g, e) ==
    [NoReply EXCEPT !.cmd = c, !.req = id, !.addressed = Addressed(id), !.target = g, !.err = e]

\* StructureGraph::loadParameters (after GhidraCommand's) and rawAction, as
\* doit sees them: the graph document may not parse (XmlError), and its
\* restoreXml or the structuring may throw (LowlevelError); both are
\* caught, else the structured graph is written.  The graph is the
\* command's own: no architecture and no kept member changes.
StructureGraphErrs == {"none", "caught"}

\* doit for structureGraph: a null architecture or a missing end-of-command
\* burst is a JavaError, sent instead of a result; an error of the XML
\* graph or of rawAction's structuring is caught and reported as a message
\* inside the normal result.  Its rawAction builds a graph of its own and
\* changes no architecture.
GenericCommand(c, id) ==
    LET g == LoadParametersF(c, id) IN
    /\ status = "running"
    /\ ghidra' = [ghidra EXCEPT ![c] = g]
    /\ \E endOk \in BOOLEAN, e \in StructureGraphErrs :
         reply' = Rep(c, id, g, IF g = Null \/ ~endOk THEN "java" ELSE e)
    /\ UNCHANGED <<archlist, archid, created, deleted, status, given, conf, res, optdoc>>

\* FlushNative::doit: rawAction clears the global scope, and with it the
\* functions already decompiled, and resets types, comments and the
\* constant pool; it cannot throw.
FlushNative(id) ==
    LET c == "flushNative"  g == LoadParametersF(c, id) IN
    /\ status = "running"
    /\ ghidra' = [ghidra EXCEPT ![c] = g]
    /\ \/ reply' = Rep(c, id, g, "java") /\ UNCHANGED conf
       \/ /\ g # Null
          /\ conf' = [conf EXCEPT ![g].fn = "none"]
          /\ reply' = Rep(c, id, g, "none")
    /\ UNCHANGED <<archlist, archid, created, deleted, status, given, res, optdoc>>

\* DecompileAt::doit.  loadParameters parses the address (an XML or
\* address error is caught); rawAction throws for an address with no
\* function, runs the current action on a function whose processing has
\* not started (perform may throw part way, leaving it started), and
\* writes a <doc> only for a function whose processing is complete.
DecompileAt(id, ad) ==
    LET c == "decompileAt"  g == LoadParametersF(c, id) IN
    /\ status = "running"
    /\ ghidra' = [ghidra EXCEPT ![c] = g]
    /\ \/ reply' = Rep(c, id, g, "java") /\ UNCHANGED conf
       \/ /\ g # Null /\ ("xml" \in Throws \/ ad # FnAddr)
          /\ reply' = Rep(c, id, g, "caught") /\ UNCHANGED conf
       \/ /\ g # Null /\ ad = FnAddr /\ conf[g].fn = "none" /\ "perform" \in Throws
          /\ conf' = [conf EXCEPT ![g].fn = "started"]
          /\ reply' = Rep(c, id, g, "caught")
       \/ /\ g # Null /\ ad = FnAddr
          /\ conf' = IF conf[g].fn = "none" THEN [conf EXCEPT ![g].fn = "complete"] ELSE conf
          /\ reply' = [Rep(c, id, g, "none") EXCEPT !.doc = (conf'[g].fn = "complete")]
    /\ UNCHANGED <<archlist, archid, created, deleted, status, given, res, optdoc>>

\* setAction's print strings: the flag each sets or clears.
PrintOn == [tree |-> "tree", c |-> "ccode", parammeasures |-> "pm", jumpload |-> "jumpload"]
PrintOff == [notree |-> "tree", noc |-> "ccode", noparammeasures |-> "pm", nojumpload |-> "jumpload"]

\* SetAction::rawAction on settings cf: allacts.setCurrent (which throws
\* for an unknown name) then the print string (an unknown one throws).
\* The result: the settings and whether it threw.  A throw on the print
\* string comes after the action has been changed.
SetActionRaw(cf, as, ps) ==
    LET cf1 == IF as = "" THEN cf ELSE [cf EXCEPT !.action = as] IN
    CASE as # "" /\ as \notin ActionNames -> [conf |-> cf, thrown |-> TRUE]
      [] ps = ""                -> [conf |-> cf1, thrown |-> FALSE]
      [] ps \in DOMAIN PrintOn  -> [conf |-> [cf1 EXCEPT !.flags[PrintOn[ps]] = TRUE], thrown |-> FALSE]
      [] ps \in DOMAIN PrintOff -> [conf |-> [cf1 EXCEPT !.flags[PrintOff[ps]] = FALSE], thrown |-> FALSE]
      [] OTHER                  -> [conf |-> cf1, thrown |-> TRUE]

\* Mutant of SetAction: rawAction does not clear res before it starts.
SetAction_NoReset(id, as, ps) ==
    LET c == "setAction"  g == LoadParametersF(c, id)  r == SetActionRaw(conf[g], as, ps) IN
    /\ status = "running"
    /\ ghidra' = [ghidra EXCEPT ![c] = g]
    /\ \/ reply' = Rep(c, id, g, "java") /\ UNCHANGED <<conf, res>>
       \/ /\ g # Null
          /\ conf' = [conf EXCEPT ![g] = r.conf]
          /\ res' = IF r.thrown THEN res ELSE [res EXCEPT ![c] = TRUE]
          /\ reply' = [Rep(c, id, g, IF r.thrown THEN "caught" ELSE "none")
                          EXCEPT !.res = Sent(res'[c]), !.applied = ~r.thrown]
    /\ UNCHANGED <<archlist, archid, created, deleted, status, given, optdoc>>

\* SetAction::doit: res is cleared, rawAction runs, and sendResult sends
\* "t" or "f" from res.
SetAction(id, as, ps) ==
    LET c == "setAction"  g == LoadParametersF(c, id)  r == SetActionRaw(conf[g], as, ps) IN
    /\ status = "running"
    /\ ghidra' = [ghidra EXCEPT ![c] = g]
    /\ \/ reply' = Rep(c, id, g, "java") /\ UNCHANGED <<conf, res>>
       \/ /\ g # Null
          /\ conf' = [conf EXCEPT ![g] = r.conf]
          /\ res' = [res EXCEPT ![c] = ~r.thrown]
          /\ reply' = [Rep(c, id, g, IF r.thrown THEN "caught" ELSE "none")
                          EXCEPT !.res = Sent(res'[c]), !.applied = ~r.thrown]
    /\ UNCHANGED <<archlist, archid, created, deleted, status, given, optdoc>>

\* SetOptions::doit.  loadParameters deletes the document of an earlier
\* request and parses the new one: a parse error is caught, rawAction does
\* not run and sendResult sends res as it was.  rawAction clears res, has
\* the option database read the document (which may throw after some
\* options are set, keeping the document), deletes it and sets res.
SetOptions(id) ==
    LET c == "setOptions"  g == LoadParametersF(c, id) IN
    /\ status = "running"
    /\ ghidra' = [ghidra EXCEPT ![c] = g]
    /\ \/ /\ g = Null
          /\ reply' = Rep(c, id, g, "java") /\ UNCHANGED <<conf, res, optdoc>>
       \/ /\ g # Null /\ "xml" \in Throws
          /\ optdoc' = FALSE
          /\ reply' = [Rep(c, id, g, "caught") EXCEPT !.res = Sent(res[c])]
          /\ UNCHANGED <<conf, res>>
       \/ /\ g # Null
          /\ optdoc' = TRUE
          /\ reply' = Rep(c, id, g, "java") /\ UNCHANGED <<conf, res>>
       \/ /\ g # Null
          /\ conf' = [conf EXCEPT ![g].options = "set"]
          /\ res' = [res EXCEPT ![c] = TRUE] /\ optdoc' = FALSE
          /\ reply' = [Rep(c, id, g, "none") EXCEPT !.res = "t", !.applied = TRUE]
       \/ /\ g # Null /\ "options" \in Throws
          /\ conf' \in {conf, [conf EXCEPT ![g].options = "partial"]}
          /\ res' = [res EXCEPT ![c] = FALSE] /\ optdoc' = TRUE
          /\ reply' = [Rep(c, id, g, "caught") EXCEPT !.res = "f"]
    /\ UNCHANGED <<archlist, archid, created, deleted, status, given>>

\* Mutant of OpenSlot: the loop's null test dropped, every entry is "open".
OpenSlot_NoNullCheck == Len(archlist) - 1

\* The last null entry of archlist (RegisterProgram::rawAction's loop), -1
\* if there is none.
OpenSlot == LET nulls == {i \in 0..Len(archlist) - 1 : At(i) = Null}
            IN  IF nulls = {} THEN -1 ELSE CHOOSE i \in nulls : \A j \in nulls : j <= i

\* Mutant of RegisterArchF: the new entry is recorded one past its index.
RegisterArchF_OffByOne(a) ==
    IF OpenSlot = -1 THEN <<Append(archlist, a), Len(archlist) + 1>>
    ELSE <<[archlist EXCEPT ![OpenSlot + 1] = a], OpenSlot>>

\* The end of RegisterProgram::rawAction once init has returned: the entry
\* (a reused null slot or a new one) and the id archid takes.
RegisterArchF(a) ==
    IF OpenSlot = -1 THEN <<Append(archlist, a), Len(archlist)>>
    ELSE <<[archlist EXCEPT ![OpenSlot + 1] = a], OpenSlot>>

\* RegisterProgram::loadParameters reads the pspec, cspec, tspec and
\* corespec strings; a stream out of alignment there, or a missing end of
\* command after them, is a JavaError: only the error is sent, and nothing
\* is built.
RegisterStreamFault ==
    /\ reply' = [NoReply EXCEPT !.cmd = "registerProgram", !.err = "java"]
    /\ UNCHANGED <<archlist, ghidra, archid, created, given>>

\* RegisterProgram::doit.  rawAction scans archlist (leaving its member on
\* the last entry), builds a new architecture and calls init; if init
\* throws, the error is caught in doit and sendResult still writes archid,
\* which still holds the id of an earlier registration.
RegisterProgram ==
    /\ status = "running"
    /\ created # Arch
    /\ LET a == CHOOSE x \in Arch \ created : TRUE IN
       \/ RegisterStreamFault
       \/ /\ InitMayFail
          /\ ghidra' = [ghidra EXCEPT !["registerProgram"] = a]
          /\ created' = created \cup {a}
          /\ reply' = [NoReply EXCEPT !.cmd = "registerProgram", !.target = a, !.id = archid,
                                      !.err = "caught"]
          /\ given' = IF archid >= 0 THEN given \cup {archid} ELSE given
          /\ UNCHANGED <<archlist, archid>>
       \/ LET r == RegisterArchF(a) IN
          /\ ghidra' = [ghidra EXCEPT !["registerProgram"] = a]
          /\ created' = created \cup {a}
          /\ archlist' = r[1]
          /\ archid' = r[2]
          /\ given' = given \cup {r[2]}
          /\ reply' = [NoReply EXCEPT !.cmd = "registerProgram", !.target = a, !.id = r[2]]
    /\ UNCHANGED <<deleted, status, conf, res, optdoc>>

\* DeregisterProgram::doit: loadParameters as GhidraCommand's (inid
\* chooses the entry); rawAction clears archlist[inid], deletes the
\* architecture and sets status 1, so main leaves its loop.
DeregisterProgram(id) ==
    LET g == LoadParametersF("deregisterProgram", id) IN
    /\ status = "running"
    /\ \/ /\ g = Null
          /\ reply' = Rep("deregisterProgram", id, Null, "java")
          /\ UNCHANGED <<archlist, ghidra, deleted, status>>
       \/ /\ g # Null
          /\ ghidra' = [ghidra EXCEPT !["deregisterProgram"] = g]
          /\ reply' = Rep("deregisterProgram", id, g, "java")
          /\ UNCHANGED <<archlist, deleted, status>>
       \/ /\ g # Null
          \* archlist[inid] = 0 with inid out of range writes outside the
          \* vector (undefined); the model keeps archlist as it is.
          /\ archlist' = IF Valid(id) THEN [archlist EXCEPT ![id + 1] = Null] ELSE archlist
          /\ ghidra' = [ghidra EXCEPT !["deregisterProgram"] = Null]
          /\ deleted' = deleted \cup {g}
          /\ status' = "exited"
          /\ reply' = Rep("deregisterProgram", id, g, "none")
    /\ UNCHANGED <<archid, created, given, conf, res, optdoc>>

\* readCommand for a name that is not in commandmap: a "Bad command"
\* record, status 0.
BadCommand ==
    /\ status = "running"
    /\ reply' = [NoReply EXCEPT !.err = "badcmd"]
    /\ UNCHANGED <<archlist, ghidra, archid, created, deleted, status, given, conf, res, optdoc>>

\* main's loop: readCommand reads the next command the client sends.
\* The session is cut after MaxRequests requests.
Handle ==
    \/ "registerProgram" \in ClientCmds /\ RegisterProgram
    \/ BadCommand
    \/ \E id \in RequestIds :
         \/ "deregisterProgram" \in ClientCmds /\ DeregisterProgram(id)
         \/ "flushNative" \in ClientCmds /\ FlushNative(id)
         \/ "setOptions" \in ClientCmds /\ SetOptions(id)
         \/ \E ad \in Addrs : "decompileAt" \in ClientCmds /\ DecompileAt(id, ad)
         \/ \E as \in ActionStrings, ps \in PrintStrings :
              "setAction" \in ClientCmds /\ SetAction(id, as, ps)
         \/ \E c \in GenericCmds \cap ClientCmds : GenericCommand(c, id)

Next == nreq < MaxRequests /\ Handle /\ nreq' = nreq + 1

Spec == Init /\ [][Next]_vars

-----------------------------------------------------------------------------
(* Properties.                                                             *)

\* A command that gets past loadParameters acts on the architecture the id
\* of its request names (the check at ghidra_process.cc:93 is meant to
\* refuse any other id): the ghidra member a command object kept from an
\* earlier command is never what a request reaches.
ActsOnAddressed ==
    reply.cmd \in ArchCmds /\ reply.err \in {"none", "caught"}
        => reply.target # Null /\ reply.target = reply.addressed

\* A registerProgram reply that carries an id (no JavaError) names the
\* architecture this registration built, through RegisterProgram::archid
\* and archlist, so that the client's later requests with that id reach it.
RegisterReplyNamesNew ==
    reply.cmd = "registerProgram" /\ reply.err # "java"
        => Valid(reply.id) /\ At(reply.id) = reply.target

\* An id the client was given keeps naming the same architecture from one
\* command to the next until deregisterProgram clears it: registerProgram
\* reuses only a null slot of archlist (its scan tests each entry), and no
\* other command writes archlist.
RegisteredIdsStable ==
    [][\A id \in given : Valid(id) /\ At(id) # Null =>
          archlist'[id + 1] \in {At(id), Null}]_vars


\* A "t" from setAction or setOptions means that this request's settings
\* were applied: the res member the reply is sent from was set by the
\* rawAction of this same request, never left over from an earlier one
\* (or uninitialised) when this request stopped before its rawAction ran
\* or threw in it.
SuccessMeansApplied ==
    reply.cmd \in ResCmds /\ reply.res = "t" => reply.applied


\* Every result a reply carries was produced by this request: the id of a
\* registerProgram reply names the architecture it built, and a "t" from
\* setAction or setOptions comes from a rawAction of this request that ran
\* to its end.  doit calls sendResult after it catches a non-Java error,
\* and sendResult reads members that only rawAction sets.
ResultFromThisRequest == RegisterReplyNamesNew /\ SuccessMeansApplied

\* No member that a command object kept from an earlier request shows in
\* this one: the command acts on the architecture this request names, and
\* every result of the reply comes from this request.  The command objects
\* are the singletons of commandmap, so their ghidra, archid and res
\* members survive from one request to the next.
RequestIsolated == ActsOnAddressed /\ ResultFromThisRequest

=============================================================================
