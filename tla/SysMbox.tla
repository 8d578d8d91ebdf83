------------------------------- MODULE SysMbox -------------------------------
(***************************************************************************)
(* A mailbox of the lwIP port that runs in the enclave (sys_arch.cpp), with *)
(* the callback that polls the Aurora channel while a reader waits.        *)
(*                                                                         *)
(* The enclave has one thread, so an operation is one step; a fetch that   *)
(* waits is split where it calls the_waiting_fn.  The enclave is built     *)
(* with LWIP_NOASSERT, so a failing LWIP_ASSERT changes nothing.           *)
(***************************************************************************)
EXTENDS Naturals, Sequences

CONSTANTS
  Msg,          \* the messages
  NULL,         \* the value of an empty slot and of *msg after a timeout
  AskedSize,    \* the sizes callers ask for; 0 asks for the default
  DefaultSize   \* 1024 in the code

ASSUME MsgAssumption == NULL \notin Msg
ASSUME SizeAssumption == AskedSize \subseteq Nat /\ DefaultSize \in Nat \ {0}

VARIABLES
  valid,                           \* sem points to the mailbox
  size, head, tail, used, q_mem,   \* struct lwip_mbox
  pc, timeout,                     \* a fetch in progress, and whether it may
                                   \* time out
  msg                              \* *msg of the last fetch

ring == <<head, tail, used, q_mem>>
vars == <<valid, size, ring, pc, timeout, msg>>

\* head and tail stay inside the allocated memory and used counts at most size
\* messages, through every wrap of either index.
TypeOK ==
  /\ valid \in BOOLEAN
  /\ pc \in {"run", "wait", "check"} /\ timeout \in BOOLEAN
  /\ msg \in Msg \cup {NULL}
  /\ valid => /\ size \in Nat \ {0}
              /\ head \in 0 .. size - 1 /\ tail \in 0 .. size - 1
              /\ used \in 0 .. size
              /\ q_mem \in [0 .. size - 1 -> Msg \cup {NULL}]

Init ==
  /\ valid = FALSE
  /\ size = 0 /\ head = 0 /\ tail = 0 /\ used = 0 /\ q_mem = <<>>
  /\ pc = "run" /\ timeout = FALSE
  /\ msg = NULL

MboxSize(n) == IF n = 0 THEN DefaultSize ELSE n

sys_mbox_new(n) ==
  /\ pc = "run" /\ ~valid
  /\ valid' = TRUE
  /\ size' = MboxSize(n)
  /\ head' = 0 /\ tail' = 0 /\ used' = 0
  /\ q_mem' = [s \in 0 .. MboxSize(n) - 1 |-> NULL]
  /\ UNCHANGED <<pc, timeout, msg>>

\* Callers free and then invalidate; the counters keep their last values.
sys_mbox_free ==
  /\ pc = "run" /\ valid
  /\ valid' = FALSE
  /\ q_mem' = <<>>
  /\ UNCHANGED <<size, head, tail, used, pc, timeout, msg>>

\* Mutant: the index is reset one slot too late.
MutantWrapLate(n) == IF n > size THEN 0 ELSE n

Wrap(n) == IF n >= size THEN 0 ELSE n

sys_mbox_post(m) ==
  /\ q_mem' = [q_mem EXCEPT ![head] = m]
  /\ head' = Wrap(head + 1)
  /\ used' = used + 1
  /\ UNCHANGED tail

\* Mutant: the mailbox counts as full one message too late.
MutantFullLate == used = size + 1

Full == used = size

\* ERR_MEM when full; the caller deletes the message.
sys_mbox_trypost(m) ==
  \/ ~Full /\ sys_mbox_post(m)
  \/ Full /\ UNCHANGED ring

\* A message that is not answered by waiting_fn: loopback, errors, closing.
Trypost(m) ==
  /\ pc = "run" /\ valid
  /\ sys_mbox_trypost(m)
  /\ UNCHANGED <<valid, size, pc, timeout, msg>>

\* Takes the oldest message.
Take ==
  /\ used # 0
  /\ msg' = q_mem[tail]
  /\ tail' = Wrap(tail + 1)
  /\ used' = used - 1
  /\ UNCHANGED <<head, q_mem>>

\* SYS_ARCH_TIMEOUT leaves *msg alone.
sys_arch_mbox_tryfetch ==
  /\ pc = "run" /\ valid
  /\ Take \/ (used = 0 /\ UNCHANGED <<ring, msg>>)
  /\ UNCHANGED <<valid, size, pc, timeout>>

sys_arch_mbox_fetch(limited) ==
  /\ pc = "run" /\ valid
  /\ \/ Take /\ UNCHANGED <<pc, timeout>>
     \/ /\ used = 0
        /\ pc' = "wait" /\ timeout' = limited
        /\ UNCHANGED <<ring, msg>>
  /\ UNCHANGED <<valid, size>>

\* sgx_arch_waiting_fn: the poll yields a packet of this mailbox, or none.
sgx_arch_waiting_fn ==
  /\ pc = "wait" /\ pc' = "check"
  /\ (\E m \in Msg : sys_mbox_trypost(m)) \/ UNCHANGED ring
  /\ UNCHANGED <<valid, size, timeout, msg>>

fetch_check ==
  /\ pc = "check"
  /\ \/ Take /\ pc' = "run"
     \/ /\ used = 0 /\ ~timeout
        /\ pc' = "wait"
        /\ UNCHANGED <<ring, msg>>
     \/ /\ used = 0 /\ timeout
        /\ msg' = NULL
        /\ pc' = "run"
        /\ UNCHANGED ring
  /\ UNCHANGED <<valid, size, timeout>>

Next ==
  \/ \E n \in AskedSize : sys_mbox_new(n)
  \/ sys_mbox_free
  \/ \E m \in Msg : Trypost(m)
  \/ sys_arch_mbox_tryfetch
  \/ \E limited \in BOOLEAN : sys_arch_mbox_fetch(limited)
  \/ sgx_arch_waiting_fn
  \/ fetch_check

Spec == Init /\ [][Next]_vars

-----------------------------------------------------------------------------
(* Properties. *)

\* The slot of the n-th oldest message.
Slot(n) == IF tail + n - 1 < size THEN tail + n - 1 ELSE tail + n - 1 - size
Contents == IF valid THEN [n \in 1 .. used |-> q_mem[Slot(n)]] ELSE <<>>

Queue == INSTANCE BoundedQueue
  WITH NoMsg <- NULL, Capacity <- {MboxSize(n) : n \in AskedSize},
       open <- valid, cap <- size, q <- Contents, out <- msg

\* The array with its two indices and its counter is a bounded FIFO queue:
\* messages come out in the order they went in, none is overwritten, dropped or
\* returned twice at a wrap, and a message is refused only when size are inside.
RefinesQueue == Queue!Spec
=============================================================================
