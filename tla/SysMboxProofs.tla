--------------------------- MODULE SysMboxProofs ---------------------------
(***************************************************************************)
(* The mailbox of sys_arch.cpp is a bounded FIFO queue, for every set of   *)
(* messages and all sizes.  The inductive invariant adds to TypeOK that    *)
(* the head is always used slots after the tail, and that only a valid     *)
(* mailbox has a waiting fetch.                                            *)
(***************************************************************************)
EXTENDS SysMbox, TLAPS

IInv ==
  /\ TypeOK
  /\ valid => head = Slot(used + 1)
  /\ pc # "run" => valid

\* The size a caller gets is never 0.
LEMMA SizePositive == \A n \in AskedSize : MboxSize(n) \in Nat \ {0}
BY SizeAssumption DEF MboxSize

\* A valid mailbox holds a sequence of used messages, the oldest at the tail.
LEMMA ContentsSeq ==
  ASSUME TypeOK, valid
  PROVE  /\ Contents \in Seq(Msg \cup {NULL})
         /\ Len(Contents) = used
         /\ \A n \in 1 .. used : Contents[n] = q_mem[Slot(n)]
         /\ Slot(1) = tail
<1>1. \A n \in 1 .. used : Slot(n) \in 0 .. size - 1
  BY DEF TypeOK, Slot
<1>2. Contents = [n \in 1 .. used |-> q_mem[Slot(n)]]
  BY DEF Contents
<1>3. \A n \in 1 .. used : q_mem[Slot(n)] \in Msg \cup {NULL}
  BY <1>1 DEF TypeOK
<1>4. used \in Nat
  BY DEF TypeOK
<1>5. Slot(1) = tail
  BY DEF TypeOK, Slot
<1> QED
  BY <1>2, <1>3, <1>4, <1>5

\* Storing at the head appends to the queue, if there is room: no slot of an
\* older message is hit, and the head wraps to the slot after the new message.
LEMMA PostAppends ==
  ASSUME IInv, valid, UNCHANGED <<valid, size>>,
         NEW m \in Msg, ~Full, sys_mbox_post(m)
  PROVE  /\ Contents' = Append(Contents, m)
         /\ Len(Contents) < size
         /\ head' = Slot(used + 1)'
         /\ head' \in 0 .. size - 1 /\ used' \in 0 .. size
         /\ q_mem' \in [0 .. size - 1 -> Msg \cup {NULL}]
<1>1. /\ size \in Nat \ {0} /\ head \in 0 .. size - 1 /\ tail \in 0 .. size - 1
      /\ used \in 0 .. size /\ q_mem \in [0 .. size - 1 -> Msg \cup {NULL}]
      /\ used < size
  BY DEF IInv, TypeOK, Full
<1>2. head = IF tail + used < size THEN tail + used ELSE tail + used - size
  BY <1>1 DEF IInv, Slot
<1>3. /\ head' = (IF head + 1 >= size THEN 0 ELSE head + 1)
      /\ used' = used + 1 /\ tail' = tail /\ size' = size
      /\ q_mem' = [q_mem EXCEPT ![head] = m]
  BY DEF sys_mbox_post, Wrap
<1>4. head' = Slot(used + 1)'
  BY <1>1, <1>2, <1>3 DEF Slot
<1>5. /\ head' \in 0 .. size - 1 /\ used' \in 0 .. size
      /\ q_mem' \in [0 .. size - 1 -> Msg \cup {NULL}]
  BY <1>1, <1>3
<1>6. \A n \in 1 .. used : Slot(n)' = Slot(n) /\ Slot(n) # head /\ Slot(n) \in 0 .. size - 1
  BY <1>1, <1>2, <1>3 DEF Slot
<1>7. \A n \in 1 .. used + 1 : n = used + 1 => Slot(n)' = head
  BY <1>1, <1>2, <1>3 DEF Slot
<1>8. Contents' = [n \in 1 .. used + 1 |-> q_mem'[Slot(n)']]
  BY <1>3 DEF Contents
<1>9. /\ Contents \in Seq(Msg \cup {NULL}) /\ Len(Contents) = used
      /\ \A n \in 1 .. used : Contents[n] = q_mem[Slot(n)]
  BY ContentsSeq DEF IInv
<1>10. \A n \in 1 .. used : q_mem'[Slot(n)'] = Contents[n]
  BY <1>1, <1>3, <1>6, <1>9
<1>11. \A n \in 1 .. used + 1 : n = used + 1 => q_mem'[Slot(n)'] = m
  BY <1>1, <1>3, <1>7
<1>12. Append(Contents, m) = [n \in 1 .. used + 1 |-> IF n = used + 1 THEN m ELSE Contents[n]]
  BY <1>1, <1>9
<1>13. \A n \in 1 .. used + 1 :
          q_mem'[Slot(n)'] = IF n = used + 1 THEN m ELSE Contents[n]
  BY <1>1, <1>10, <1>11
<1> QED
  BY <1>1, <1>4, <1>5, <1>8, <1>9, <1>12, <1>13

\* Taking at the tail removes the oldest message.
LEMMA TakeRemoves ==
  ASSUME IInv, valid, UNCHANGED <<valid, size>>, Take
  PROVE  /\ Contents # <<>>
         /\ Contents' = Tail(Contents) /\ msg' = Head(Contents)
         /\ head' = Slot(used + 1)'
         /\ msg' \in Msg \cup {NULL}
         /\ tail' \in 0 .. size - 1 /\ used' \in 0 .. size
<1>1. /\ size \in Nat \ {0} /\ head \in 0 .. size - 1 /\ tail \in 0 .. size - 1
      /\ used \in 1 .. size /\ q_mem \in [0 .. size - 1 -> Msg \cup {NULL}]
  BY DEF IInv, TypeOK, Take
<1>2. head = IF tail + used < size THEN tail + used ELSE tail + used - size
  BY <1>1 DEF IInv, Slot
<1>3. /\ tail' = (IF tail + 1 >= size THEN 0 ELSE tail + 1)
      /\ used' = used - 1 /\ head' = head /\ size' = size /\ q_mem' = q_mem
      /\ msg' = q_mem[tail]
  BY DEF Take, Wrap
<1>4. head' = Slot(used + 1)'
  BY <1>1, <1>2, <1>3 DEF Slot
<1>5. msg' \in Msg \cup {NULL} /\ tail' \in 0 .. size - 1 /\ used' \in 0 .. size
  BY <1>1, <1>3
<1>6. \A n \in 1 .. used - 1 : Slot(n)' = Slot(n + 1)
  BY <1>1, <1>3 DEF Slot
<1>7. Contents' = [n \in 1 .. used - 1 |-> q_mem'[Slot(n)']]
  BY <1>3 DEF Contents
<1>8. /\ Contents \in Seq(Msg \cup {NULL}) /\ Len(Contents) = used
      /\ \A n \in 1 .. used : Contents[n] = q_mem[Slot(n)]
      /\ Slot(1) = tail
  BY ContentsSeq DEF IInv
<1>9. Contents # <<>> /\ Head(Contents) = Contents[1]
  BY <1>1, <1>8
<1>10. msg' = Head(Contents)
  BY <1>1, <1>3, <1>8, <1>9
<1>11. Tail(Contents) = [n \in 1 .. used - 1 |-> Contents[n + 1]]
  BY <1>1, <1>8, <1>9
<1>12. \A n \in 1 .. used - 1 : q_mem'[Slot(n)'] = Contents[n + 1]
  BY <1>1, <1>3, <1>6, <1>8
<1> QED
  BY <1>4, <1>5, <1>7, <1>9, <1>10, <1>11, <1>12

-----------------------------------------------------------------------------

\* The invariant holds initially and through every operation.
LEMMA Inductive == Spec => []IInv
<1>1. Init => IInv
  BY DEF Init, IInv, TypeOK
<1>2. IInv /\ [Next]_vars => IInv'
  <2> SUFFICES ASSUME IInv, [Next]_vars PROVE IInv'
    OBVIOUS
  <2> USE DEF IInv, TypeOK
  <2>1. ASSUME NEW n \in AskedSize, sys_mbox_new(n) PROVE IInv'
    <3>1. MboxSize(n) \in Nat \ {0}
      BY SizePositive
    <3> QED
      BY <2>1, <3>1 DEF sys_mbox_new, Slot
  <2>2. CASE sys_mbox_free
    BY <2>2 DEF sys_mbox_free
  <2>3. ASSUME NEW m \in Msg, sys_mbox_trypost(m), valid, UNCHANGED <<valid, size>>
        PROVE  /\ (head = Slot(used + 1))'
               /\ head' \in 0 .. size - 1 /\ used' \in 0 .. size /\ tail' = tail
               /\ q_mem' \in [0 .. size - 1 -> Msg \cup {NULL}]
    <3>1. CASE ~Full /\ sys_mbox_post(m)
      BY <2>3, <3>1, PostAppends DEF sys_mbox_post
    <3>2. CASE Full /\ UNCHANGED ring
      BY <2>3, <3>2 DEF ring, Slot
    <3> QED
      BY <2>3, <3>1, <3>2 DEF sys_mbox_trypost
  <2>4. ASSUME Take, valid, UNCHANGED <<valid, size>>
        PROVE  /\ (head = Slot(used + 1))'
               /\ head' = head /\ q_mem' = q_mem
               /\ msg' \in Msg \cup {NULL}
               /\ tail' \in 0 .. size - 1 /\ used' \in 0 .. size
    BY <2>4, TakeRemoves DEF Take
  <2>5. ASSUME NEW m \in Msg, Trypost(m) PROVE IInv'
    BY <2>5, <2>3 DEF Trypost
  <2>6. CASE sys_arch_mbox_tryfetch
    <3>1. CASE Take
      BY <2>6, <3>1, <2>4 DEF sys_arch_mbox_tryfetch
    <3>2. CASE UNCHANGED <<ring, msg>>
      BY <2>6, <3>2 DEF sys_arch_mbox_tryfetch, ring, Slot
    <3> QED
      BY <2>6, <3>1, <3>2 DEF sys_arch_mbox_tryfetch
  <2>7. ASSUME NEW limited \in BOOLEAN, sys_arch_mbox_fetch(limited) PROVE IInv'
    <3>1. CASE Take /\ UNCHANGED <<pc, timeout>>
      BY <2>7, <3>1, <2>4 DEF sys_arch_mbox_fetch
    <3>2. CASE used = 0 /\ pc' = "wait" /\ timeout' = limited /\ UNCHANGED <<ring, msg>>
      BY <2>7, <3>2 DEF sys_arch_mbox_fetch, ring, Slot
    <3> QED
      BY <2>7, <3>1, <3>2 DEF sys_arch_mbox_fetch
  <2>8. CASE sgx_arch_waiting_fn
    <3>1. ASSUME NEW m \in Msg, sys_mbox_trypost(m) PROVE IInv'
      BY <2>8, <3>1, <2>3 DEF sgx_arch_waiting_fn
    <3>2. CASE UNCHANGED ring
      BY <2>8, <3>2 DEF sgx_arch_waiting_fn, ring, Slot
    <3> QED
      BY <2>8, <3>1, <3>2 DEF sgx_arch_waiting_fn
  <2>9. CASE fetch_check
    <3>1. CASE Take /\ pc' = "run"
      BY <2>9, <3>1, <2>4 DEF fetch_check
    <3>2. CASE UNCHANGED ring
      BY <2>9, <3>2 DEF fetch_check, Take, ring, Slot
    <3> QED
      BY <2>9, <3>1, <3>2 DEF fetch_check
  <2>10. CASE UNCHANGED vars
    BY <2>10 DEF vars, ring, Slot
  <2> QED
    BY <2>1, <2>2, <2>5, <2>6, <2>7, <2>8, <2>9, <2>10 DEF Next
<1> QED
  BY <1>1, <1>2, PTL DEF Spec

\* The indices of every mailbox stay inside its memory (sys_mbox_post and
\* sys_arch_mbox_tryfetch never write or read past q_mem).
THEOREM IndicesInRange == Spec => []TypeOK
BY Inductive, PTL DEF IInv

-----------------------------------------------------------------------------

\* A message that goes into the array is a Put of the queue, or is refused.
LEMMA TrypostRefines ==
  ASSUME IInv, valid, UNCHANGED <<valid, size, msg>>,
         NEW m \in Msg, sys_mbox_trypost(m)
  PROVE  Queue!Put(m) \/ UNCHANGED Queue!vars
<1>1. CASE ~Full /\ sys_mbox_post(m)
  BY <1>1, PostAppends DEF Queue!Put
<1>2. CASE Full /\ UNCHANGED ring
  BY <1>2 DEF ring, Queue!vars, Contents, Slot
<1> QED
  BY <1>1, <1>2 DEF sys_mbox_trypost

\* Taking at the tail is a Get of the queue.
LEMMA TakeRefines ==
  ASSUME IInv, valid, UNCHANGED <<valid, size>>, Take
  PROVE  Queue!Get
BY TakeRemoves DEF Queue!Get

\* Every operation of the mailbox is a step of the queue or leaves it alone.
LEMMA StepRefines ==
  ASSUME IInv, [Next]_vars
  PROVE  [Queue!Next]_(Queue!vars)
<1>1. ASSUME NEW n \in AskedSize, sys_mbox_new(n) PROVE Queue!Open
  <2>1. Contents = <<>>
    BY <1>1 DEF sys_mbox_new, Contents
  <2>2. Contents' = [k \in 1 .. 0 |-> q_mem'[Slot(k)']]
    BY <1>1 DEF sys_mbox_new, Contents
  <2>3. Contents' = <<>>
    BY <2>2
  <2> QED
    BY <1>1, <2>1, <2>3 DEF sys_mbox_new, Queue!Open
<1>2. ASSUME sys_mbox_free PROVE Queue!Close
  BY <1>2 DEF sys_mbox_free, Queue!Close, Contents
<1>3. ASSUME NEW m \in Msg, Trypost(m) PROVE Queue!Put(m) \/ UNCHANGED Queue!vars
  BY <1>3, TrypostRefines DEF Trypost
<1>4. ASSUME sys_arch_mbox_tryfetch PROVE Queue!Get \/ UNCHANGED Queue!vars
  <2>1. CASE Take
    BY <1>4, <2>1, TakeRefines DEF sys_arch_mbox_tryfetch
  <2>2. CASE UNCHANGED <<ring, msg>>
    BY <1>4, <2>2 DEF sys_arch_mbox_tryfetch, ring, Queue!vars, Contents, Slot
  <2> QED
    BY <1>4, <2>1, <2>2 DEF sys_arch_mbox_tryfetch
<1>5. ASSUME NEW limited \in BOOLEAN, sys_arch_mbox_fetch(limited)
      PROVE  Queue!Get \/ UNCHANGED Queue!vars
  <2>1. CASE Take
    BY <1>5, <2>1, TakeRefines DEF sys_arch_mbox_fetch
  <2>2. CASE UNCHANGED <<ring, msg>>
    BY <1>5, <2>2 DEF sys_arch_mbox_fetch, ring, Queue!vars, Contents, Slot
  <2> QED
    BY <1>5, <2>1, <2>2 DEF sys_arch_mbox_fetch
<1>6. ASSUME sgx_arch_waiting_fn
      PROVE  (\E m \in Msg : Queue!Put(m)) \/ UNCHANGED Queue!vars
  <2>1. ASSUME NEW m \in Msg, sys_mbox_trypost(m)
        PROVE  Queue!Put(m) \/ UNCHANGED Queue!vars
    BY <1>6, <2>1, TrypostRefines DEF sgx_arch_waiting_fn, IInv
  <2>2. CASE UNCHANGED ring
    BY <1>6, <2>2 DEF sgx_arch_waiting_fn, ring, Queue!vars, Contents, Slot
  <2> QED
    BY <1>6, <2>1, <2>2 DEF sgx_arch_waiting_fn
<1>7. ASSUME fetch_check PROVE Queue!Get \/ Queue!Miss \/ UNCHANGED Queue!vars
  <2>1. CASE Take
    BY <1>7, <2>1, TakeRefines DEF fetch_check, IInv
  <2>2. CASE UNCHANGED <<ring, msg>>
    BY <1>7, <2>2 DEF fetch_check, ring, Queue!vars, Contents, Slot
  <2>3. CASE used = 0 /\ msg' = NULL /\ UNCHANGED ring
    <3>1. Contents = <<>> /\ Contents' = Contents /\ valid
      BY <1>7, <2>3 DEF fetch_check, ring, Contents, Slot, IInv
    <3> QED
      BY <1>7, <2>3, <3>1 DEF fetch_check, Queue!Miss
  <2> QED
    BY <1>7, <2>1, <2>2, <2>3 DEF fetch_check
<1>8. ASSUME UNCHANGED vars PROVE UNCHANGED Queue!vars
  BY <1>8 DEF vars, ring, Queue!vars, Contents, Slot
<1> QED
  BY <1>1, <1>2, <1>3, <1>4, <1>5, <1>6, <1>7, <1>8 DEF Next, Queue!Next

\* The mailbox of sys_arch.cpp implements the bounded FIFO queue lwIP expects,
\* for every message set, every requested size and every default size.
THEOREM MboxIsQueue == Spec => RefinesQueue
<1>1. Init => Queue!Init
  BY DEF Init, Queue!Init, Contents
<1>2. IInv /\ [Next]_vars => [Queue!Next]_(Queue!vars)
  BY StepRefines
<1> QED
  BY <1>1, <1>2, Inductive, PTL DEF Spec, RefinesQueue, Queue!Spec
=============================================================================
