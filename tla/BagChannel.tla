------------------------------ MODULE BagChannel ------------------------------
(***************************************************************************)
(* What one direction of the shared page promises: a bounded channel that  *)
(* hands over each accepted message at most once, in no particular order.  *)
(* (Both sides search from entry 0, so a later message can overtake.)      *)
(* Only a stray write into the page can lose a message, one per write.     *)
(***************************************************************************)
EXTENDS Naturals, FiniteSets

CONSTANTS Message, Capacity

VARIABLES
  chan,    \* accepted and not yet handed over
  sent,    \* accepted so far
  got,     \* how often each message was handed over
  faults   \* stray writes so far

vars == <<chan, sent, got, faults>>

Init ==
  /\ chan = {}
  /\ sent = {}
  /\ got = [m \in Message |-> 0]
  /\ faults = 0

Send(m) ==
  /\ m \notin sent
  /\ Cardinality(chan) < Capacity
  /\ sent' = sent \cup {m}
  /\ \/ chan' = chan \cup {m}
     \/ faults > 0 /\ chan' = chan
  /\ UNCHANGED <<got, faults>>

Receive(m) ==
  /\ m \in chan
  /\ chan' = chan \ {m}
  /\ got' = [got EXCEPT ![m] = @ + 1]
  /\ UNCHANGED <<sent, faults>>

Fault ==
  /\ faults' = faults + 1
  /\ \/ \E m \in chan : chan' = chan \ {m}
     \/ UNCHANGED chan
  /\ UNCHANGED <<sent, got>>

Next == (\E m \in Message : Send(m) \/ Receive(m)) \/ Fault

Spec == Init /\ [][Next]_vars
=============================================================================
