---------------------------- MODULE MCAgentStore ----------------------------
(* AgentStore for TLC: sessions are interchangeable, as the run checks no   *)
(* liveness.  Beside a deck that has been told of something, or a turn with *)
(* an id, time stands still and events are about one of the sessions: focus *)
(* and history are the same with and without them, and a deck is told of a  *)
(* change of any session in the same way.                                   *)
EXTENDS AgentStore, TLC

SessionSymmetry == Permutations(Session)

OneAtATime ==
  \/ /\ linked = {} /\ listed = [d \in Deck |-> {}]
     /\ shownFocus = [d \in Deck |-> <<NoFocus, 0>>]
     /\ turns = [s \in Session |-> NoTurn]
  \/ clock = 1 /\ \E s \in Session : \A o \in Session \ {s} : sessions[o] = NewSession
=============================================================================
