-------------------------- MODULE MC_GhidraProcess --------------------------
(* Three architectures, so that registrations fill archlist past the id a  *)
(* request may still carry, and two generic command objects, so that each *)
(* keeps its own ghidra member.                                           *)
EXTENDS GhidraProcess

CONSTANTS a1, a2, a3

MC_Arch == {a1, a2, a3}
MC_Arch1 == {a1}
MC_Arch2 == {a1, a2}
\* A client that registers, decompiles, sets actions and deregisters.
ProtocolCmds == {"registerProgram", "deregisterProgram", "decompileAt", "setAction"}
\* A client that sends every command.
AllCmds == {"registerProgram", "deregisterProgram", "flushNative", "decompileAt",
            "structureGraph", "setAction", "setOptions"}
MC_GenericCmds == {"structureGraph"}
\* Root actions, and the action and print strings of setAction requests:
\* none, known ones, and an unknown one, which throws.
MC_ActionNames == {"decompile", "paramid"}
MC_ActionStrings == {"", "paramid", "nosuchaction"}
MC_PrintStrings == {"", "c", "notree", "nosuchprint"}
\* A client that reconfigures little: setAction with no strings or an
\* unknown action name only.
FewActionStrings == {"", "nosuchaction"}
FewPrintStrings == {""}
\* A client that may also name an unknown print language, which throws.
SomePrintStrings == {"", "nosuchprint"}
\* decompileAt requests for the function, and for an address with none.
MC_Addrs == {"fn", "nofn"}
\* Failures of the handlers' steps: a perform or an option database that
\* throws part way; or, besides, a request document that does not parse.
RawThrows == {"perform", "options"}
XmlThrows == {"xml"}
\* The uninitialised archid: any small value the build may leave there.
MC_ArchIdInit == {-1, 0}
ZeroArchId == {0}
\* A client that sends only ids it was given.
NoStrayIds == {}
\* A client that may also send -1 and an id past archlist.
SomeStrayIds == {-1, 3}
=============================================================================
