----------------------------- MODULE MCDeckKeys -----------------------------
(* DeckKeys for TLC: Fn, one modifier, and a switch with a Fn meaning.     *)
(* F13 stands for a key the injector has no code for.                      *)
EXTENDS DeckKeys, TLC

CONSTANTS PFn, PCtrl, PSpace, Ctrl, Space, F13

Mapping(p) == [q \in Physical |-> IF q \in DOMAIN p THEN p[q] ELSE NoName]
MCModName == Mapping(PCtrl :> Ctrl)
MCPlainName == Mapping(PSpace :> Space)
MCFnName == Mapping(PSpace :> F13)
=============================================================================
