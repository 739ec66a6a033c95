---------------------------- MODULE MC_MapGlobals ----------------------------
(* Seven storage locations of one space: globals at the same base of two  *)
(* sizes, a byte inside a larger global, a global that ends where another *)
(* begins, a non-persistent location between two persistent ones, and one *)
(* no scope owns; each may be absent, used or free.  The scopes may hold   *)
(* an entry already, at a global's base or inside one.                    *)
EXTENDS MapGlobals

L(o, s, p) == [off |-> o, sz |-> s, persist |-> p]
E(o, s) == [off |-> o, sz |-> s]

MC_Locs == <<L(0, 1, TRUE), L(0, 4, TRUE), L(1, 1, TRUE), L(2, 2, TRUE),
             L(4, 1, TRUE), L(5, 1, FALSE), L(6, 2, TRUE)>>
MC_PreSyms == {{}, {E(0, 2)}, {E(1, 1)}, {E(6, 1)}}
MC_Owned == 0..5
=============================================================================
