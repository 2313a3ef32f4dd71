-------------------------------- MODULE Lists --------------------------------
(* Selecting from a list, as a recursive function that can be reasoned about.*)
EXTENDS Integers, Sequences

(* The elements of S, in the order of the list.                            *)
Only(list, S) ==
  LET kept[n \in 0 .. Len(list)] ==
        IF n = 0 THEN <<>>
        ELSE IF list[n] \in S THEN Append(kept[n - 1], list[n]) ELSE kept[n - 1]
  IN  kept[Len(list)]
=============================================================================
