---------------------------- MODULE MCCarWriter ----------------------------
(* A small instance of CarWriter: one advertisement with a two-chunk entry *)
(* list, one with a HAMT root and one with NoEntries.                      *)
EXTENDS CarWriter, TLC

CONSTANTS a1, a2, a3, c1, c2, h1

MCAds == {a1, a2, a3}
MCChunks == {c1, c2}
MCHamts == {h1}
MCChainOf == (a1 :> <<c1, c2>>) @@ (a2 :> <<h1>>) @@ (a3 :> << >>)
=============================================================================
