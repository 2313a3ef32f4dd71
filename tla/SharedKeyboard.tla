--------------------------- MODULE SharedKeyboard ---------------------------
(***************************************************************************)
(* What several devices sharing one Mac keyboard are promised, with none   *)
(* of the agent's bookkeeping: a key is down exactly while some device     *)
(* holds it.  A device that presses a key another one already holds only   *)
(* becomes one more holder; letting go never lifts a key that somebody     *)
(* else still holds.  KeyOwnership implements this specification.          *)
(***************************************************************************)
CONSTANTS Conn,     \* the connections that can hold keys
          Key       \* the key names

VARIABLES holders,  \* for every key, the connections holding it
          down      \* the keys that are down for macOS

vars == <<holders, down>>

Init == /\ holders = [k \in Key |-> {}]
        /\ down = {}

(* Connection c, which does not hold key k, presses it.                    *)
Press(c, k) ==
  /\ c \notin holders[k]
  /\ holders' = [holders EXCEPT ![k] = @ \cup {c}]
  /\ down' = down \cup {k}

(* The connections in C let go of the keys in K; what nobody holds any     *)
(* more comes up in the same step.                                         *)
LetGo(C, K) ==
  /\ holders' = [k \in Key |-> IF k \in K THEN holders[k] \ C ELSE holders[k]]
  /\ down' = {k \in down : holders'[k] # {}}

Next == \/ \E c \in Conn, k \in Key : Press(c, k)
        \/ \E C \in SUBSET Conn, K \in SUBSET Key : LetGo(C, K)

Spec == Init /\ [][Next]_vars

=============================================================================
