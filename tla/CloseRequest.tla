---------------------------- MODULE CloseRequest ----------------------------
(* What a window promises that must not be closed while it works: a request *)
(* to close is honoured at once, or as soon as the work is done.            *)
VARIABLES
  state,   \* "open", "busy" or "gone"
  asked    \* a request to close waits

States == {"open", "busy", "gone"}
TypeOK == state \in States /\ asked \in BOOLEAN

Init   == state = "busy" /\ asked = FALSE
Begin  == state = "open" /\ state' = "busy" /\ UNCHANGED asked
Finish == state = "busy" /\ state' = (IF asked THEN "gone" ELSE "open") /\ UNCHANGED asked
Ask    == state = "busy" /\ asked' = TRUE /\ UNCHANGED state
Close  == state = "open" /\ state' = "gone" /\ UNCHANGED asked

Next == Begin \/ Finish \/ Ask \/ Close
Spec == Init /\ [][Next]_<<state, asked>>
=============================================================================
