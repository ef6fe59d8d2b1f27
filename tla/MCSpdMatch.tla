----------------------------- MODULE MCSpdMatch -----------------------------
(* Up to three sockets and three modules; a name DMI does not give is 0.   *)
EXTENDS SpdMatch

Module(p, z, v) == [partno |-> p, size |-> z, vendor |-> v]
Socket(p, z, v) == [populated |-> TRUE, partno |-> p, size |-> z, vendor |-> v, named |-> v # 0]
Unpopulated     == [populated |-> FALSE, partno |-> 0, size |-> 0, vendor |-> 0, named |-> FALSE]

Kinds == {Socket(p, z, v) : p \in 0..1, z \in 1..2, v \in 0..1} \union {Unpopulated}
MCSocketLists == UNION {[1..n -> Kinds] : n \in 1..3}

Two   == {Module(p, z, v) : p \in 1..2, z \in 1..2, v \in 0..1}
Three == {Module(p, z, 1) : p \in 1..2, z \in 1..2}
MCSpdLists == [1..1 -> Two] \union [1..2 -> Two] \union [1..3 -> Three]
=============================================================================
