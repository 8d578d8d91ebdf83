---------------------------- MODULE BoundedQueue ----------------------------
(***************************************************************************)
(* What lwIP expects of a mailbox (sys.h): a first-in first-out queue with *)
(* a capacity, that refuses a message when it is full and that tells a     *)
(* reader when it is empty.                                                *)
(***************************************************************************)
EXTENDS Naturals, Sequences

CONSTANTS
  Msg,       \* the messages
  NoMsg,     \* what a reader gets from an empty mailbox
  Capacity   \* the capacities a mailbox may have

VARIABLES open, cap, q, out   \* out: what the last fetch returned
vars == <<open, cap, q, out>>

Init == open = FALSE /\ cap = 0 /\ q = <<>> /\ out = NoMsg

Open ==
  /\ ~open
  /\ open' = TRUE
  /\ cap' \in Capacity
  /\ UNCHANGED <<q, out>>

Close ==
  /\ open
  /\ open' = FALSE
  /\ q' = <<>>
  /\ UNCHANGED <<cap, out>>

Put(m) ==
  /\ open /\ Len(q) < cap
  /\ q' = Append(q, m)
  /\ UNCHANGED <<open, cap, out>>

Get ==
  /\ open /\ q # <<>>
  /\ out' = Head(q)
  /\ q' = Tail(q)
  /\ UNCHANGED <<open, cap>>

Miss ==
  /\ open /\ q = <<>>
  /\ out' = NoMsg
  /\ UNCHANGED <<open, cap, q>>

Next == Open \/ Close \/ Get \/ Miss \/ \E m \in Msg : Put(m)

Spec == Init /\ [][Next]_vars
=============================================================================
