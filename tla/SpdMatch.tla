------------------------------ MODULE SpdMatch ------------------------------
(***************************************************************************)
(* Which memory module is in which socket (dmi_mem_new() in                *)
(* modules/devices/dmi_memory.c): DMI describes the sockets, the SPD       *)
(* EEPROMs describe the modules, and nothing says which belongs to which.  *)
(* Each socket in a queue claims the module that fits it best, and sends   *)
(* the socket that had it back to the queue.                               *)
(*                                                                         *)
(* Names and sizes are values that are only compared; 0 is a null pointer. *)
(***************************************************************************)
EXTENDS Integers, Sequences, FiniteSetsExt

CONSTANTS
  SocketLists,   \* what DMI may say: sequences of [populated, partno, size, vendor, named]
  SpdLists       \* what the EEPROMs may say: sequences of [partno, size, vendor]

SocketKinds == [populated : BOOLEAN, partno : Nat, size : Nat, vendor : Nat, named : BOOLEAN]
SpdKinds    == [partno : Nat \ {0}, size : Nat, vendor : Nat]

ASSUME ListsAssumption ==
  SocketLists \subseteq Seq(SocketKinds) /\ SpdLists \subseteq Seq(SpdKinds)

VARIABLES
  socket,   \* m->sockets
  spd,      \* m->spd
  queue,    \* sock_queue
  loops,    \* how many sockets may still be taken from it
  of,       \* of[s]: the module of socket s, or 0
  owner,    \* owner[e]: the socket of module e, or 0
  score,    \* score[e]: how well they fit
  phase     \* "match", then "filled"

vars == <<socket, spd, queue, loops, of, owner, score, phase>>

Sockets == DOMAIN socket
Modules == DOMAIN spd
-----------------------------------------------------------------------------
Init ==
  /\ socket \in SocketLists /\ socket # <<>>
  /\ spd \in SpdLists /\ spd # <<>>
  /\ queue = [i \in DOMAIN socket |-> i]
  /\ loops = 4 * Len(socket)
  /\ of = [s \in DOMAIN socket |-> 0]
  /\ owner = [e \in DOMAIN spd |-> 0]
  /\ score = [e \in DOMAIN spd |-> 0]
  /\ phase = "match"

\* dmi_spd_match_score(): two unknown vendors are equal, but a part number that DMI does
\* not give is a null pointer and never equals an EEPROM's, which is at least empty.
Score(s, e) == (IF socket[s].partno = spd[e].partno THEN 20 ELSE 0)
             + (IF socket[s].size   = spd[e].size   THEN 10 ELSE 0)
             + (IF socket[s].vendor = spd[e].vendor THEN 5  ELSE 0)

\* A module that fits s better than it fits the socket it is in
AcceptableTies(s) == {e \in Modules : Score(s, e) > 0 /\ Score(s, e) >= score[e]}   \* mutant
Acceptable(s)     == {e \in Modules : Score(s, e) > 0 /\ Score(s, e) > score[e]}

\* The first of those that fit best
Best(s) == LET most == Max({Score(s, e) : e \in Acceptable(s)})
           IN Min({e \in Acceptable(s) : Score(s, e) = most})

\* The next socket is taken from the queue.
Pop(s) ==
  /\ phase = "match" /\ queue # <<>> /\ loops > 0
  /\ s = Head(queue)
  /\ loops' = loops - 1
  /\ UNCHANGED <<socket, spd, phase>>

\* An empty socket, or one for which there is no module
Leave(s) ==
  /\ Pop(s) /\ (~socket[s].populated \/ Acceptable(s) = {})
  /\ queue' = Tail(queue)
  /\ UNCHANGED <<of, owner, score>>

Take(s, e) == owner' = [owner EXCEPT ![e] = s] /\ score' = [score EXCEPT ![e] = Score(s, e)]

Claim(s) ==
  /\ Pop(s) /\ socket[s].populated /\ Acceptable(s) # {}
  /\ owner[Best(s)] = 0
  /\ queue' = Tail(queue)
  /\ of' = [of EXCEPT ![s] = Best(s)]
  /\ Take(s, Best(s))

DisplaceForgets(s) ==   \* mutant: the old socket is not tried again
  /\ Pop(s) /\ socket[s].populated /\ Acceptable(s) # {}
  /\ owner[Best(s)] # 0
  /\ queue' = Tail(queue)
  /\ of' = [of EXCEPT ![owner[Best(s)]] = 0, ![s] = Best(s)]
  /\ Take(s, Best(s))
Displace(s) ==
  /\ Pop(s) /\ socket[s].populated /\ Acceptable(s) # {}
  /\ owner[Best(s)] # 0
  /\ queue' = Append(Tail(queue), owner[Best(s)])
  /\ of' = [of EXCEPT ![owner[Best(s)]] = 0, ![s] = Best(s)]
  /\ Take(s, Best(s))

\* dmi_fill_from_spd(), for each socket that has a module: the part number always,
\* the vendor if there is no name of a manufacturer.
Filled(s) ==
  IF of[s] = 0 THEN socket[s]
  ELSE [socket[s] EXCEPT !.partno = spd[of[s]].partno,
                         !.vendor = IF socket[s].named THEN @ ELSE spd[of[s]].vendor]
Fill ==
  /\ phase = "match" /\ (queue = <<>> \/ loops = 0)
  /\ phase' = "filled"
  /\ socket' = [s \in Sockets |-> Filled(s)]
  /\ UNCHANGED <<spd, queue, loops, of, owner, score>>

Next == Fill \/ \E s \in Sockets : Leave(s) \/ Claim(s) \/ Displace(s)
Spec == Init /\ [][Next]_vars
-----------------------------------------------------------------------------
(* Properties                                                              *)

\* How well socket s is served
Served(s) == IF of[s] = 0 THEN 0 ELSE Score(s, of[s])

\* When the queue is empty no socket and module would both be better off with each
\* other than with what they have: the part numbers, sizes and vendors that are
\* shown, and the part number that is written over the socket's, are those of the
\* best fit there is, in whatever order DMI and the EEPROMs list them
\* (dmi_memory.c:500-535).
StableMatch ==
  phase = "match" /\ queue = <<>> =>
    \A s \in Sockets, e \in Modules :
      ~(socket[s].populated /\ Score(s, e) > Served(s) /\ Score(s, e) > score[e])

\* The bound of four rounds for each socket, "something is wrong, give up", is never
\* what ends the search (dmi_memory.c:501).
GivesUpNever == loops = 0 => queue = <<>>
=============================================================================
