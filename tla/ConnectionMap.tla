---------------------------- MODULE ConnectionMap ----------------------------
(***************************************************************************)
(* What the template ConnectionMap promises its users (TonkineseMaps.h): a   *)
(* partial function from keys to connections.  result is the name, the      *)
(* argument and the answer of the last call.                                *)
(***************************************************************************)
EXTENDS Naturals, FiniteSets, Sequences

CONSTANTS Keys, Conns, None

VARIABLES map, result

Init == map = [k \in Keys |-> None] /\ result = <<>>

(* The call that is answered.                                               *)
Call(name, k) == Len(result') = 3 /\ result'[1] = name /\ result'[2] = k

Insert(k, c) ==
    /\ Call("Insert", k)
    /\ result'[3] = (map[k] = None)
    /\ map' = IF map[k] = None THEN [map EXCEPT ![k] = c] ELSE map

Remove(k, c) ==
    /\ Call("Remove", k)
    /\ result'[3] = (map[k] = c)
    /\ map' = IF map[k] = c THEN [map EXCEPT ![k] = None] ELSE map

Find(k) ==
    /\ Call("Find", k)
    /\ result'[3] = map[k]
    /\ UNCHANGED map

GetCount ==
    /\ result' = <<"GetCount", Cardinality({k \in Keys : map[k] # None})>>
    /\ UNCHANGED map

Next ==
    \/ \E k \in Keys, c \in Conns : Insert(k, c) \/ Remove(k, c)
    \/ \E k \in Keys : Find(k)
    \/ GetCount

Spec == Init /\ [][Next]_<<map, result>>

=============================================================================
