--------------------------- MODULE RingBufferProofs ---------------------------
(***************************************************************************)
(* Proofs about RingBuffer for every number of entries, every set of       *)
(* messages and every number of stray writes.                              *)
(*                                                                         *)
(* DeliveredOnce and OwnershipRespected are not inductive.  The            *)
(* strengthening follows the protocol: who owns the entry the enclave      *)
(* works on (OwnerInv), what the halves of a packet waiting for the        *)
(* enclave can be (InInv) and what those of a packet waiting for the       *)
(* supervisor can be (OutInv).                                             *)
(*                                                                         *)
(* The theorems about losses and the refinement of BagChannel rest on one  *)
(* description of all steps (Effect: at most one message enters, leaves or *)
(* is lost) and on four more parts of the invariant: what the enclave has  *)
(* copied (CopyInv), the losses that the stray writes pay for (LossInv),   *)
(* that a packet which cannot be read is one of them (BrokenInv) and that  *)
(* without stray writes no tag check fails (AuthInv).                      *)
(***************************************************************************)
EXTENDS RingBuffer, FiniteSetTheorems, TLAPS

\* The entry the enclave works on stays its own until it turns the byte, and
\* before init_ring_buffer there is no entry it could work on.
OwnerInv ==
  /\ \A e \in Entry : HoldsIn(e) => in_bitmap[e] = IN_SGX
  /\ \A e \in Entry : HoldsOut(e) => out_bitmap[e] = OUT_SGX
  /\ ~inited => \A e \in Entry : in_bitmap[e] = IN_SMM /\ out_bitmap[e] = IN_SMM

\* The ciphertext halves of packet c.
Halves(c) == {c.lo, c.hi} \ {Junk}

\* The halves of the packet that the enclave has copied so far.
Copied ==
  CASE pc = "get_rest" -> {ciphertext.lo} \ {Junk}
    [] pc \in {"get_decrypt", "get_flip"} -> Halves(ciphertext)
    [] OTHER -> {}

\* h was accepted and not returned yet, and is not in a ready entry other than e.
PendingIn(h, e) ==
  /\ h \in in_sent
  /\ in_got[h] = 0
  /\ \A f \in Entry : f # e /\ in_bitmap[f] = IN_SGX => h \notin Halves(in_slot[f])

InInv ==
  /\ \A e \in Entry : in_bitmap[e] = IN_SGX =>
       \A h \in Halves(in_slot[e]) : PendingIn(h, e)
  /\ \A h \in Copied : PendingIn(h, i)
  /\ pc = "get_flip" => Verifies(ciphertext)
  /\ \A m \in Message : in_got[m] <= 1 /\ (in_got[m] = 1 => m \in in_sent)

PendingOut(h, e) ==
  /\ h \in out_sent
  /\ out_got[h] = 0
  /\ \A f \in Entry : f # e /\ out_bitmap[f] = OUT_SMM => h \notin Halves(out_slot[f])

OutInv ==
  /\ \A e \in Entry : out_bitmap[e] = OUT_SMM =>
       \A h \in Halves(out_slot[e]) : PendingOut(h, e)
  /\ pc \in PutPc => /\ ciphertext.lo \in Message /\ ciphertext.hi = ciphertext.lo
                     /\ ciphertext.lo \notin out_sent
  /\ pc = "put_rest" => out_slot[i].lo \in {ciphertext.lo, Junk}
  /\ pc = "put_flip" => Halves(out_slot[i]) \subseteq {ciphertext.lo}
  /\ \A m \in Message : out_got[m] <= 1 /\ (out_got[m] = 1 => m \in out_sent)

IInv == TypeOK /\ OwnerInv /\ InInv /\ OutInv

-----------------------------------------------------------------------------
\* A packet as crypto_aead_aes256gcm_encrypt makes it is a packet.
LEMMA EncryptType == \A m \in Half : Encrypt(m) \in Packet
  BY DEF Encrypt, Packet

\* Copying one half of a packet (one part of a memcpy) leaves a packet.
LEMMA PacketUpdate ==
  ASSUME NEW c \in Packet, NEW h \in Half
  PROVE  /\ [c EXCEPT !.lo = h] \in Packet
         /\ [c EXCEPT !.hi = h] \in Packet
  BY DEF Packet

\* What a stray write does to a table of packets.
LEMMA StrayUpdate ==
  ASSUME NEW t \in [Entry -> Packet], NEW s \in Entry, NEW u,
         \/ u = [t EXCEPT ![s].lo = Junk]
         \/ u = [t EXCEPT ![s].hi = Junk]
         \/ u = t
  PROVE  /\ u \in [Entry -> Packet]
         /\ \A e \in Entry : u[e].lo \in {t[e].lo, Junk} /\ u[e].hi \in {t[e].hi, Junk}
<1>1. CASE u = [t EXCEPT ![s].lo = Junk]
  BY <1>1 DEF Packet, Half
<1>2. CASE u = [t EXCEPT ![s].hi = Junk]
  BY <1>2 DEF Packet, Half
<1>3. CASE u = t
  BY <1>3
<1> QED BY <1>1, <1>2, <1>3

\* Counting one more return of x leaves the counters of returned messages typed.
LEMMA CountUpdate ==
  ASSUME NEW g \in [Message -> Nat], NEW x
  PROVE  [g EXCEPT ![x] = @ + 1] \in [Message -> Nat]
<1>1. CASE x \in Message
  BY <1>1
<1>2. CASE x \notin Message
  <2>1. [g EXCEPT ![x] = @ + 1] = g
    BY <1>2, Zenon
  <2> QED BY <2>1
<1> QED BY <1>1, <1>2

\* The page as aurora_init leaves it, before any operation, satisfies the
\* inductive invariant.
LEMMA InitInv == Init => IInv
<1> SUFFICES ASSUME Init PROVE IInv
  OBVIOUS
<1> USE MaxEntryAssumption, JunkAssumption, MaxFaultsAssumption
    DEF Init, Entry, IN_SMM, IN_SGX, OUT_SMM, OUT_SGX
<1>1. TypeOK
  <2>1. Blank \in Packet
    BY EncryptType DEF Blank, Half
  <2>2. 0 \in 0 .. MaxEntry /\ 0 \in 0 .. MaxFaults
    OBVIOUS
  <2> QED BY <2>1, <2>2 DEF TypeOK
<1>2. OwnerInv
  BY DEF OwnerInv, HoldsIn, HoldsOut
<1>3. InInv
  BY DEF InInv, Copied
<1>4. OutInv
  BY DEF OutInv, PutPc
<1> QED BY <1>1, <1>2, <1>3, <1>4 DEF IInv

\* Every step of the supervisor, of the enclave and of a stray write preserves the
\* inductive invariant: one step of the proof per operation of ring_buffer.c and
\* ring_buffer.cpp.
LEMMA StepInv == IInv /\ [Next]_vars => IInv'
<1> SUFFICES ASSUME IInv, [Next]_vars PROVE IInv'
  OBVIOUS
<1> USE MaxEntryAssumption, JunkAssumption, MaxFaultsAssumption
<1> USE DEF IInv, IN_SMM, IN_SGX, OUT_SMM, OUT_SGX, in_shm, out_shm, enclave, in_hist, out_hist,
            Goto, UnchangedByEnclave, Entry
<1>1. ASSUME init_ring_buffer PROVE IInv'
  <2>1. TypeOK'
    BY <1>1 DEF init_ring_buffer, TypeOK, OutInv, PutPc, GetPc, Packet, Half, Encrypt, Blank, Verifies, IsLowest
  <2>2. OwnerInv'
    BY <1>1 DEF init_ring_buffer, TypeOK, OwnerInv, HoldsIn, HoldsOut, PutPc, GetPc, IsLowest
  <2>3. InInv'
    BY <1>1 DEF init_ring_buffer, TypeOK, OwnerInv, HoldsIn, InInv, PendingIn, Copied, Halves, PutPc, GetPc, Packet, Half, Encrypt, Blank, Verifies, IsLowest
  <2>4. OutInv'
    BY <1>1 DEF init_ring_buffer, TypeOK, OwnerInv, HoldsOut, OutInv, PendingOut, Halves, PutPc, GetPc, Packet, Half, Encrypt, Blank, Verifies, IsLowest
  <2> QED BY <2>1, <2>2, <2>3, <2>4
<1>2. ASSUME NEW m \in Message, NEW ok \in BOOLEAN, put_in_buffer(m, ok) PROVE IInv'
  <2>1. TypeOK'
    <3>1. Encrypt(m) \in Packet
      BY EncryptType DEF Half
    <3>2. in_slot' \in [Entry -> Packet] /\ in_bitmap' \in [Entry -> {IN_SMM, IN_SGX}]
      BY <1>2, <3>1 DEF put_in_buffer, TypeOK
    <3> QED BY <1>2, <3>2 DEF put_in_buffer, TypeOK
  <2>2. OwnerInv'
    BY <1>2 DEF put_in_buffer, TypeOK, OwnerInv, HoldsIn, HoldsOut, PutPc, GetPc, IsLowest
  <2>3. InInv'
    <3>1. CASE UNCHANGED <<in_bitmap, in_slot, in_sent>>
      BY <1>2, <3>1 DEF put_in_buffer, InInv, PendingIn, Copied, Halves, Verifies
    <3>2. ASSUME NEW e \in Entry, IsLowest(in_bitmap, e, IN_SMM),
                 in_slot' = [in_slot EXCEPT ![e] = Encrypt(m)],
                 in_bitmap' = [in_bitmap EXCEPT ![e] = IN_SGX],
                 in_sent' = in_sent \cup {m}
          PROVE  InInv'
      <4>1. /\ in_bitmap[e] = IN_SMM /\ in_bitmap'[e] = IN_SGX
            /\ Halves(in_slot'[e]) = {m}
            /\ \A f \in Entry : f # e => in_bitmap'[f] = in_bitmap[f] /\ in_slot'[f] = in_slot[f]
        BY <3>2 DEF IsLowest, TypeOK, Halves, Encrypt
      <4>2. /\ m \notin in_sent /\ in_got[m] = 0
            /\ UNCHANGED <<pc, i, ciphertext, in_got>>
        BY <1>2 DEF put_in_buffer, InInv, TypeOK
      <4>3. ASSUME NEW f \in Entry, in_bitmap'[f] = IN_SGX, NEW h \in Halves(in_slot'[f])
            PROVE  PendingIn(h, f)'
        BY <3>2, <4>1, <4>2, <4>3 DEF InInv, PendingIn
      <4>4. Copied' = Copied /\ (Copied # {} => HoldsIn(i) /\ i \in Entry)
        BY <4>2 DEF Copied, HoldsIn, TypeOK
      <4>5. ASSUME NEW h \in Copied PROVE PendingIn(h, i)'
        BY <3>2, <4>1, <4>2, <4>4, <4>5 DEF InInv, PendingIn, OwnerInv
      <4> QED BY <3>2, <4>2, <4>3, <4>4, <4>5 DEF InInv, Verifies
    <3> QED BY <1>2, <3>1, <3>2 DEF put_in_buffer, in_shm
  <2>4. OutInv'
    BY <1>2 DEF put_in_buffer, TypeOK, OwnerInv, HoldsOut, OutInv, PendingOut, Halves, PutPc, GetPc, Packet, Half, Encrypt, Blank, Verifies, IsLowest
  <2> QED BY <2>1, <2>2, <2>3, <2>4
<1>3. ASSUME get_out_buffer PROVE IInv'
  <2>1. TypeOK'
    <3>1. out_bitmap' \in [Entry -> {IN_SMM, OUT_SMM, OUT_SGX}]
      BY <1>3 DEF get_out_buffer, TypeOK
    <3>2. out_got' \in [Message -> Nat]
      <4>1. UNCHANGED out_got
            \/ \E e \in Entry : out_got' = [out_got EXCEPT ![out_slot[e].lo] = @ + 1]
        BY <1>3 DEF get_out_buffer
      <4> QED BY <4>1, CountUpdate DEF TypeOK
    <3>3. auth_failed' \in BOOLEAN
      BY <1>3 DEF get_out_buffer, TypeOK
    <3> QED BY <1>3, <3>1, <3>2, <3>3 DEF get_out_buffer, TypeOK
  <2>2. OwnerInv'
    BY <1>3 DEF get_out_buffer, TypeOK, OwnerInv, HoldsIn, HoldsOut, PutPc, GetPc, IsLowest
  <2>3. InInv'
    BY <1>3 DEF get_out_buffer, TypeOK, OwnerInv, HoldsIn, InInv, PendingIn, Copied, Halves, PutPc, GetPc, Packet, Half, Encrypt, Blank, Verifies, IsLowest
  <2>4. OutInv'
    <3>1. CASE UNCHANGED <<out_bitmap, out_got>>
      BY <1>3, <3>1 DEF get_out_buffer, OutInv, PendingOut, Halves
    <3>2. ASSUME NEW e \in Entry, IsLowest(out_bitmap, e, OUT_SMM), Verifies(out_slot[e]),
                 out_bitmap' = [out_bitmap EXCEPT ![e] = OUT_SGX],
                 out_got' = [out_got EXCEPT ![out_slot[e].lo] = @ + 1]
          PROVE  OutInv'
      <4>1. /\ out_bitmap[e] = OUT_SMM /\ out_bitmap'[e] = OUT_SGX
            /\ \A f \in Entry : f # e => out_bitmap'[f] = out_bitmap[f]
            /\ UNCHANGED <<out_slot, out_sent, pc, i, ciphertext>>
        BY <1>3, <3>2 DEF IsLowest, TypeOK, get_out_buffer
      <4> DEFINE got == out_slot[e].lo
      <4>2. got \in Message /\ PendingOut(got, e)
        BY <3>2, <4>1 DEF OutInv, Halves, Verifies, TypeOK, Packet, Half
      <4>3. /\ out_got'[got] = 1
            /\ \A h \in Message : h # got => out_got'[h] = out_got[h]
        BY <3>2, <4>2 DEF PendingOut, TypeOK
      <4>4. ASSUME NEW f \in Entry, out_bitmap'[f] = OUT_SMM, NEW h \in Halves(out_slot'[f])
            PROVE  PendingOut(h, f)'
        <5>1. f # e /\ h \in Halves(out_slot[f]) /\ h \in Message
          BY <4>1, <4>4 DEF TypeOK, Halves, Packet, Half
        <5>2. h # got
          BY <4>1, <4>2, <4>4, <5>1 DEF PendingOut
        <5> QED BY <4>1, <4>3, <4>4, <5>1, <5>2 DEF OutInv, PendingOut
      <4>5. \A x \in Message : out_got'[x] <= 1 /\ (out_got'[x] = 1 => x \in out_sent')
        BY <4>1, <4>2, <4>3 DEF OutInv, PendingOut
      <4> QED BY <4>1, <4>4, <4>5 DEF OutInv, Halves
    <3> QED BY <1>3, <3>1, <3>2 DEF get_out_buffer
  <2> QED BY <2>1, <2>2, <2>3, <2>4
<1>4. ASSUME NEW m \in Message, NEW ok \in BOOLEAN, put_out_buffer(m, ok) PROVE IInv'
  <2>1. TypeOK'
    BY <1>4 DEF put_out_buffer, TypeOK, OutInv, PutPc, GetPc, Packet, Half, Encrypt, Blank, Verifies, IsLowest
  <2>2. OwnerInv'
    BY <1>4 DEF put_out_buffer, TypeOK, OwnerInv, HoldsIn, HoldsOut, PutPc, GetPc, IsLowest
  <2>3. InInv'
    BY <1>4 DEF put_out_buffer, TypeOK, OwnerInv, HoldsIn, InInv, PendingIn, Copied, Halves, PutPc, GetPc, Packet, Half, Encrypt, Blank, Verifies, IsLowest
  <2>4. OutInv'
    BY <1>4 DEF put_out_buffer, TypeOK, OwnerInv, HoldsOut, OutInv, PendingOut, Halves, PutPc, GetPc, Packet, Half, Encrypt, Blank, Verifies, IsLowest
  <2> QED BY <2>1, <2>2, <2>3, <2>4
<1>5. ASSUME put_out_scan PROVE IInv'
  <2>1. TypeOK'
    BY <1>5 DEF put_out_scan, TypeOK, OutInv, PutPc, GetPc, Packet, Half, Encrypt, Blank, Verifies, IsLowest
  <2>2. OwnerInv'
    BY <1>5 DEF put_out_scan, TypeOK, OwnerInv, HoldsIn, HoldsOut, PutPc, GetPc, IsLowest
  <2>3. InInv'
    BY <1>5 DEF put_out_scan, TypeOK, OwnerInv, HoldsIn, InInv, PendingIn, Copied, Halves, PutPc, GetPc, Packet, Half, Encrypt, Blank, Verifies, IsLowest
  <2>4. OutInv'
    BY <1>5 DEF put_out_scan, TypeOK, OwnerInv, HoldsOut, OutInv, PendingOut, Halves, PutPc, GetPc, Packet, Half, Encrypt, Blank, Verifies, IsLowest
  <2> QED BY <2>1, <2>2, <2>3, <2>4
<1>6. ASSUME put_out_copy PROVE IInv'
  <2>1. TypeOK'
    <3>1. out_slot' \in [Entry -> Packet]
      BY <1>6, PacketUpdate DEF put_out_copy, TypeOK, Packet
    <3> QED BY <1>6, <3>1 DEF put_out_copy, TypeOK, PutPc
  <2>2. OwnerInv'
    BY <1>6 DEF put_out_copy, TypeOK, OwnerInv, HoldsIn, HoldsOut, PutPc, GetPc, IsLowest
  <2>3. InInv'
    BY <1>6 DEF put_out_copy, TypeOK, OwnerInv, HoldsIn, InInv, PendingIn, Copied, Halves, PutPc, GetPc, Packet, Half, Encrypt, Blank, Verifies, IsLowest
  <2>4. OutInv'
    <3>1. /\ \A e \in Entry : out_bitmap[e] = OUT_SMM => out_slot'[e] = out_slot[e]
          /\ UNCHANGED <<out_bitmap, out_sent, out_got, i, ciphertext>>
          /\ pc \in {"put_copy", "put_rest"} /\ i \in Entry
      BY <1>6 DEF put_out_copy, OwnerInv, HoldsOut, TypeOK
    <3>2. \A h, e : PendingOut(h, e) => PendingOut(h, e)'
      BY <3>1 DEF PendingOut, Halves
    <3>3. \/ pc' = "put_rest" /\ out_slot'[i].lo = ciphertext.lo
          \/ /\ pc = "put_rest" /\ pc' = "put_flip"
             /\ out_slot'[i].lo = out_slot[i].lo /\ out_slot'[i].hi = ciphertext.hi
      BY <1>6, <3>1 DEF put_out_copy, TypeOK, Packet
    <3>4. pc' = "put_flip" => Halves(out_slot'[i]) \subseteq {ciphertext.lo}
      BY <3>1, <3>3 DEF OutInv, Halves, PutPc
    <3>5. \A e \in Entry : out_bitmap'[e] = OUT_SMM =>
            \A h \in Halves(out_slot'[e]) : PendingOut(h, e)'
      BY <3>1, <3>2 DEF OutInv, Halves
    <3> QED BY <3>1, <3>3, <3>4, <3>5 DEF OutInv, PutPc
  <2> QED BY <2>1, <2>2, <2>3, <2>4
<1>7. ASSUME put_out_flip PROVE IInv'
  <2>1. TypeOK'
    BY <1>7 DEF put_out_flip, TypeOK, OutInv, PutPc, GetPc, Packet, Half, Encrypt, Blank, Verifies, IsLowest
  <2>2. OwnerInv'
    BY <1>7 DEF put_out_flip, TypeOK, OwnerInv, HoldsIn, HoldsOut, PutPc, GetPc, IsLowest
  <2>3. InInv'
    BY <1>7 DEF put_out_flip, TypeOK, OwnerInv, HoldsIn, InInv, PendingIn, Copied, Halves, PutPc, GetPc, Packet, Half, Encrypt, Blank, Verifies, IsLowest
  <2>4. OutInv'
    <3>1. /\ i \in Entry /\ out_bitmap'[i] = OUT_SMM /\ out_bitmap[i] = OUT_SGX
          /\ \A f \in Entry : f # i => out_bitmap'[f] = out_bitmap[f]
          /\ out_sent' = out_sent \cup {ciphertext.lo} /\ pc' = "idle"
          /\ UNCHANGED <<out_slot, out_got, i, ciphertext>>
      BY <1>7 DEF put_out_flip, OwnerInv, HoldsOut, TypeOK
    <3>2. /\ Halves(out_slot[i]) \subseteq {ciphertext.lo}
          /\ ciphertext.lo \in Message /\ ciphertext.lo \notin out_sent
      BY <1>7 DEF put_out_flip, OutInv, PutPc
    <3>4. out_got[ciphertext.lo] = 0
      BY <3>2 DEF OutInv, TypeOK
    <3>3. ASSUME NEW e \in Entry, out_bitmap'[e] = OUT_SMM, NEW h \in Halves(out_slot'[e])
          PROVE  PendingOut(h, e)'
      <4>1. Halves(out_slot'[e]) = Halves(out_slot[e])
        BY <3>1 DEF Halves
      <4>2. CASE e = i
        BY <3>1, <3>2, <3>3, <3>4, <4>1, <4>2 DEF OutInv, PendingOut, Halves
      <4>3. CASE e # i
        <5>1. out_bitmap[e] = OUT_SMM /\ h \in Halves(out_slot[e])
          BY <3>1, <3>3, <4>1, <4>3
        <5>2. PendingOut(h, e) /\ h \notin Halves(out_slot[i])
          BY <3>2, <5>1 DEF OutInv, PendingOut
        <5> QED BY <3>1, <5>2 DEF PendingOut
      <4> QED BY <4>2, <4>3
    <3> QED BY <3>1, <3>2, <3>3 DEF OutInv, PutPc
  <2> QED BY <2>1, <2>2, <2>3, <2>4
<1>8. ASSUME get_in_buffer PROVE IInv'
  <2>1. TypeOK'
    BY <1>8 DEF get_in_buffer, TypeOK, OutInv, PutPc, GetPc, Packet, Half, Encrypt, Blank, Verifies, IsLowest
  <2>2. OwnerInv'
    BY <1>8 DEF get_in_buffer, TypeOK, OwnerInv, HoldsIn, HoldsOut, PutPc, GetPc, IsLowest
  <2>3. InInv'
    BY <1>8 DEF get_in_buffer, TypeOK, OwnerInv, HoldsIn, InInv, PendingIn, Copied, Halves, PutPc, GetPc, Packet, Half, Encrypt, Blank, Verifies, IsLowest
  <2>4. OutInv'
    BY <1>8 DEF get_in_buffer, TypeOK, OwnerInv, HoldsOut, OutInv, PendingOut, Halves, PutPc, GetPc, Packet, Half, Encrypt, Blank, Verifies, IsLowest
  <2> QED BY <2>1, <2>2, <2>3, <2>4
<1>9. ASSUME get_in_scan PROVE IInv'
  <2>1. TypeOK'
    BY <1>9 DEF get_in_scan, TypeOK, OutInv, PutPc, GetPc, Packet, Half, Encrypt, Blank, Verifies, IsLowest
  <2>2. OwnerInv'
    BY <1>9 DEF get_in_scan, TypeOK, OwnerInv, HoldsIn, HoldsOut, PutPc, GetPc, IsLowest
  <2>3. InInv'
    BY <1>9 DEF get_in_scan, TypeOK, OwnerInv, HoldsIn, InInv, PendingIn, Copied, Halves, PutPc, GetPc, Packet, Half, Encrypt, Blank, Verifies, IsLowest
  <2>4. OutInv'
    BY <1>9 DEF get_in_scan, TypeOK, OwnerInv, HoldsOut, OutInv, PendingOut, Halves, PutPc, GetPc, Packet, Half, Encrypt, Blank, Verifies, IsLowest
  <2> QED BY <2>1, <2>2, <2>3, <2>4
<1>10. ASSUME get_in_copy PROVE IInv'
  <2>1. TypeOK'
    BY <1>10 DEF get_in_copy, TypeOK, OutInv, PutPc, GetPc, Packet, Half, Encrypt, Blank, Verifies, IsLowest
  <2>2. OwnerInv'
    BY <1>10 DEF get_in_copy, TypeOK, OwnerInv, HoldsIn, HoldsOut, PutPc, GetPc, IsLowest
  <2>3. InInv'
    BY <1>10 DEF get_in_copy, TypeOK, OwnerInv, HoldsIn, InInv, PendingIn, Copied, Halves, PutPc, GetPc, Packet, Half, Encrypt, Blank, Verifies, IsLowest
  <2>4. OutInv'
    BY <1>10 DEF get_in_copy, TypeOK, OwnerInv, HoldsOut, OutInv, PendingOut, Halves, PutPc, GetPc, Packet, Half, Encrypt, Blank, Verifies, IsLowest
  <2> QED BY <2>1, <2>2, <2>3, <2>4
<1>11. ASSUME get_in_decrypt PROVE IInv'
  <2>1. TypeOK'
    BY <1>11 DEF get_in_decrypt, TypeOK, OutInv, PutPc, GetPc, Packet, Half, Encrypt, Blank, Verifies, IsLowest
  <2>2. OwnerInv'
    BY <1>11 DEF get_in_decrypt, TypeOK, OwnerInv, HoldsIn, HoldsOut, PutPc, GetPc, IsLowest
  <2>3. InInv'
    BY <1>11 DEF get_in_decrypt, TypeOK, OwnerInv, HoldsIn, InInv, PendingIn, Copied, Halves, PutPc, GetPc, Packet, Half, Encrypt, Blank, Verifies, IsLowest
  <2>4. OutInv'
    BY <1>11 DEF get_in_decrypt, TypeOK, OwnerInv, HoldsOut, OutInv, PendingOut, Halves, PutPc, GetPc, Packet, Half, Encrypt, Blank, Verifies, IsLowest
  <2> QED BY <2>1, <2>2, <2>3, <2>4
<1>12. ASSUME get_in_flip PROVE IInv'
  <2>1. TypeOK'
    <3>1. in_bitmap' \in [Entry -> {IN_SMM, IN_SGX}]
      BY <1>12 DEF get_in_flip, GiveBackIn, TypeOK
    <3>2. in_got' \in [Message -> Nat]
      BY <1>12, CountUpdate DEF get_in_flip, GiveBackIn, TypeOK
    <3> QED BY <1>12, <3>1, <3>2 DEF get_in_flip, GiveBackIn, TypeOK
  <2>2. OwnerInv'
    BY <1>12 DEF get_in_flip, GiveBackIn, TypeOK, OwnerInv, HoldsIn, HoldsOut, PutPc, GetPc, IsLowest
  <2>3. InInv'
    BY <1>12 DEF get_in_flip, GiveBackIn, TypeOK, OwnerInv, HoldsIn, InInv, PendingIn, Copied, Halves, PutPc, GetPc, Packet, Half, Encrypt, Blank, Verifies, IsLowest
  <2>4. OutInv'
    BY <1>12 DEF get_in_flip, GiveBackIn, TypeOK, OwnerInv, HoldsOut, OutInv, PendingOut, Halves, PutPc, GetPc, Packet, Half, Encrypt, Blank, Verifies, IsLowest
  <2> QED BY <2>1, <2>2, <2>3, <2>4
<1>13. ASSUME NEW s \in Entry, StrayWrite(s) PROVE IInv'
  <2>1. TypeOK'
    <3>1. in_slot' \in [Entry -> Packet] /\ out_slot' \in [Entry -> Packet]
      BY <1>13, StrayUpdate DEF StrayWrite, TypeOK
    <3> QED BY <1>13, <3>1 DEF StrayWrite, TypeOK
  <2>2. OwnerInv'
    BY <1>13 DEF StrayWrite, TypeOK, OwnerInv, HoldsIn, HoldsOut, PutPc, GetPc, IsLowest
  <2>3. InInv'
    <3>0. /\ \A e \in Entry : /\ in_slot'[e].lo \in {in_slot[e].lo, Junk}
                            /\ in_slot'[e].hi \in {in_slot[e].hi, Junk}
          /\ UNCHANGED <<in_bitmap, in_sent, in_got, pc, i, ciphertext>>
      BY <1>13, StrayUpdate DEF StrayWrite, TypeOK
    <3>1. /\ \A e \in Entry : Halves(in_slot'[e]) \subseteq Halves(in_slot[e])
          /\ UNCHANGED <<in_bitmap, in_sent, in_got, pc, i, ciphertext>>
      BY <3>0 DEF Halves
    <3>2. \A h, e : PendingIn(h, e) => PendingIn(h, e)'
      BY <3>1 DEF PendingIn
    <3>3. Copied' = Copied
      BY <3>1 DEF Copied, Halves
    <3> QED BY <3>1, <3>2, <3>3 DEF InInv, Verifies
  <2>4. OutInv'
    <3>1. /\ \A e \in Entry : /\ out_slot'[e].lo \in {out_slot[e].lo, Junk}
                            /\ out_slot'[e].hi \in {out_slot[e].hi, Junk}
          /\ UNCHANGED <<out_bitmap, out_sent, out_got, pc, i, ciphertext>>
      BY <1>13, StrayUpdate DEF StrayWrite, TypeOK
    <3>2. \A e \in Entry : Halves(out_slot'[e]) \subseteq Halves(out_slot[e])
      BY <3>1 DEF Halves
    <3>3. \A h, e : PendingOut(h, e) => PendingOut(h, e)'
      BY <3>1, <3>2 DEF PendingOut
    <3> QED BY <3>1, <3>2, <3>3 DEF OutInv, TypeOK, PutPc
  <2> QED BY <2>1, <2>2, <2>3, <2>4
<1>14. CASE UNCHANGED vars
  <2>1. TypeOK'
    BY <1>14 DEF vars, TypeOK
  <2>2. OwnerInv'
    BY <1>14 DEF vars, OwnerInv, HoldsIn, HoldsOut
  <2>3. InInv'
    BY <1>14 DEF vars, InInv, PendingIn, Copied, Halves, Verifies
  <2>4. OutInv'
    BY <1>14 DEF vars, OutInv, PendingOut, Halves
  <2> QED BY <2>1, <2>2, <2>3, <2>4
<1> QED
  BY <1>1, <1>2, <1>3, <1>4, <1>5, <1>6, <1>7, <1>8, <1>9, <1>10, <1>11, <1>12, <1>13, <1>14 DEF Next, SmmStep, EnclaveStep

-----------------------------------------------------------------------------
\* The inductive invariant holds in every state of the channel.
THEOREM Invariance == Spec => []IInv
  BY InitInv, StepInv, PTL DEF Spec

\* Every bitmap byte, packet and local of the two sides keeps its type.
THEOREM TypeCorrect == Spec => []TypeOK
<1>1. IInv => TypeOK
  BY DEF IInv
<1> QED BY <1>1, Invariance, PTL

\* get_in_buffer and get_out_buffer return only accepted messages and none of
\* them twice, for any number of entries, messages and stray writes.
THEOREM ExactlyOnce == Spec => []DeliveredOnce
<1>1. IInv => DeliveredOnce
  BY DEF IInv, InInv, OutInv, DeliveredOnce
<1> QED BY <1>1, Invariance, PTL

\* The SMI handler never touches the entry that the interrupted enclave is
\* copying: its byte still names the enclave, and SMM writes only to its own.
THEOREM OwnershipKept == Spec => OwnershipRespected
<1> DEFINE Kept ==
      \A e \in Entry :
        /\ HoldsIn(e) => in_bitmap'[e] = in_bitmap[e] /\ in_slot'[e] = in_slot[e]
        /\ HoldsOut(e) => out_bitmap'[e] = out_bitmap[e] /\ out_slot'[e] = out_slot[e]
<1>1. IInv /\ SmmStep => Kept
  <2> SUFFICES ASSUME IInv, SmmStep, NEW e \in Entry
               PROVE  /\ HoldsIn(e) => in_bitmap'[e] = in_bitmap[e] /\ in_slot'[e] = in_slot[e]
                      /\ HoldsOut(e) => out_bitmap'[e] = out_bitmap[e] /\ out_slot'[e] = out_slot[e]
    OBVIOUS
  <2> USE DEF IInv, OwnerInv, TypeOK, IN_SMM, IN_SGX, OUT_SMM, OUT_SGX
  <2>1. CASE init_ring_buffer
    BY <2>1 DEF init_ring_buffer
  <2>2. ASSUME NEW m \in Message, NEW ok \in BOOLEAN, put_in_buffer(m, ok)
        PROVE  /\ HoldsIn(e) => in_bitmap'[e] = in_bitmap[e] /\ in_slot'[e] = in_slot[e]
               /\ UNCHANGED out_shm
    BY <2>2 DEF put_in_buffer, IsLowest, in_shm
  <2>3. CASE get_out_buffer
    BY <2>3 DEF get_out_buffer, IsLowest, in_shm
  <2> QED BY <2>1, <2>2, <2>3 DEF SmmStep, out_shm
<1>2. IInv /\ [Next]_vars => [SmmStep => Kept]_vars
  BY <1>1
<1> QED BY <1>2, Invariance, PTL DEF Spec, OwnershipRespected

-----------------------------------------------------------------------------
(* The losses: what the inductive invariant adds. *)

\* What the enclave has copied so far is what is in the entry, unless a stray write
\* hit the entry after the copy.
CopyInv ==
  /\ pc \in {"get_rest", "get_decrypt", "get_flip"} => in_slot[i].lo \in {ciphertext.lo, Junk}
  /\ pc \in {"get_decrypt", "get_flip"} => in_slot[i].hi \in {ciphertext.hi, Junk}

\* A stray write hit the packet that put_out_buffer is writing: the message that it is
\* about to hand over is lost already.
Damaged ==
  \/ pc = "put_rest" /\ out_slot[i].lo # ciphertext.lo
  \/ pc = "put_flip" /\ out_slot[i] # ciphertext
Doomed == IF Damaged THEN 1 ELSE 0

\* Each stray write destroys at most one message, the one that is about to be handed over
\* in a damaged packet included.
LossInv ==
  /\ IsFiniteSet(in_sent) /\ IsFiniteSet(out_sent)
  /\ Cardinality(DestroyedIn) + Cardinality(DestroyedOut) + Doomed <= faults

\* A packet that cannot be read held a message that was accepted and destroyed.
BrokenInv ==
  /\ BrokenIn # {} => DestroyedIn # {}
  /\ BrokenOut # {} => DestroyedOut # {}

\* Without stray writes no tag check fails.
AuthInv == faults = 0 => ~auth_failed

-----------------------------------------------------------------------------
(* Both directions are a table of packets behind a bitmap. *)

\* The messages that wait for owner o in table t behind bitmap b.
Content(b, t, o) == {m \in Message : \E e \in Entry : b[e] = o /\ t[e] = Encrypt(m)}

\* No message waits in two entries.
Single(b, t, o) ==
  \A e, f \in Entry : b[e] = o /\ b[f] = o /\ Verifies(t[e]) /\ t[e] = t[f] => e = f

\* A packet authenticates exactly if it is the encryption of a message.
LEMMA VerifiesEncrypt ==
  ASSUME NEW c \in Packet
  PROVE  /\ Verifies(c) => c.lo \in Message /\ c = Encrypt(c.lo)
         /\ \A m \in Message : c = Encrypt(m) <=> c.lo = m /\ c.hi = m
         /\ \A m \in Message : c = Encrypt(m) => Verifies(c)
BY JunkAssumption DEF Packet, Half, Encrypt, Verifies

\* Entries whose packets cannot be read do not count.
LEMMA ContentSame ==
  ASSUME NEW b, NEW c, NEW o, NEW t \in [Entry -> Packet], NEW u \in [Entry -> Packet],
         \A e \in Entry : (b[e] = o /\ Verifies(t[e])) \/ (c[e] = o /\ Verifies(u[e]))
                            => b[e] = o /\ c[e] = o /\ t[e] = u[e]
  PROVE  Content(c, u, o) = Content(b, t, o)
<1>1. ASSUME NEW m \in Message, NEW e \in Entry
      PROVE  (b[e] = o /\ t[e] = Encrypt(m)) <=> (c[e] = o /\ u[e] = Encrypt(m))
  <2>1. (t[e] = Encrypt(m) => Verifies(t[e])) /\ (u[e] = Encrypt(m) => Verifies(u[e]))
    BY VerifiesEncrypt
  <2> QED
    BY <2>1, Zenon
<1> QED
  BY <1>1, Zenon DEF Content

\* An entry that is filled and handed over adds its message.
LEMMA ContentAdd ==
  ASSUME NEW b, NEW c, NEW o, NEW t, NEW u, NEW e \in Entry, NEW m \in Message,
         b[e] # o, c[e] = o, u[e] = Encrypt(m),
         \A f \in Entry : f # e => c[f] = b[f] /\ u[f] = t[f]
  PROVE  Content(c, u, o) = Content(b, t, o) \cup {m}
<1>1. \A x \in Message : Encrypt(x) = Encrypt(m) => x = m
  BY DEF Encrypt
<1> QED
  BY <1>1 DEF Content

\* An entry that is handed back, or hit by a stray write, takes its message along.
LEMMA ContentRemove ==
  ASSUME NEW b, NEW c, NEW o, NEW t \in [Entry -> Packet], NEW u \in [Entry -> Packet],
         NEW e \in Entry, NEW m \in Message, Single(b, t, o),
         b[e] = o, t[e] = Encrypt(m), c[e] # o \/ ~Verifies(u[e]),
         \A f \in Entry : f # e => c[f] = b[f] /\ u[f] = t[f]
  PROVE  m \in Content(b, t, o) /\ Content(c, u, o) = Content(b, t, o) \ {m}
<1>1. \A x \in Message : (Encrypt(x) = Encrypt(m) => x = m) /\ (c[e] = o => u[e] # Encrypt(x))
  BY VerifiesEncrypt DEF Encrypt
<1>2. Verifies(t[e])
  BY VerifiesEncrypt
<1>3. \A f \in Entry : f # e /\ b[f] = o => t[f] # Encrypt(m)
  BY <1>2 DEF Single
<1> QED
  BY <1>1, <1>3 DEF Content

\* While an entry does not belong to o, or cannot be read, fewer than MaxEntry messages wait
\* for o.
LEMMA ContentRoom ==
  ASSUME NEW b, NEW t, NEW o, NEW e \in Entry, b[e] # o \/ ~Verifies(t[e])
  PROVE  IsFiniteSet(Content(b, t, o)) /\ Cardinality(Content(b, t, o)) < MaxEntry
<1> DEFINE S == Content(b, t, o)
           T == Entry \ {e}
           place == [m \in S |-> CHOOSE f \in Entry : b[f] = o /\ t[f] = Encrypt(m)]
<1>1. IsFiniteSet(T) /\ Cardinality(T) = MaxEntry - 1
  <2>1. IsFiniteSet(Entry) /\ Cardinality(Entry) = MaxEntry
    <3>1. 0 \in Int /\ MaxEntry - 1 \in Int /\ ~(0 > MaxEntry - 1) /\ MaxEntry - 1 - 0 + 1 = MaxEntry
      BY MaxEntryAssumption
    <3> QED
      BY <3>1, FS_Interval DEF Entry
  <2> QED
    BY <2>1, FS_RemoveElement
<1>2. \A m \in S : place[m] \in Entry /\ b[place[m]] = o /\ t[place[m]] = Encrypt(m)
  BY DEF Content
<1>3. place \in Injection(S, T)
  <2>0. \A m \in Message : Verifies(Encrypt(m))
    BY JunkAssumption DEF Verifies, Encrypt
  <2>1. place \in [S -> T]
    <3>1. \A m \in S : m \in Message /\ place[m] # e
      BY <1>2, <2>0 DEF Content
    <3> QED
      BY <1>2, <3>1
  <2>2. \A m, n \in S : Encrypt(m) = Encrypt(n) => m = n
    BY DEF Encrypt
  <2>3. \A m, n \in S : place[m] = place[n] => m = n
    <3> HIDE DEF place, S
    <3> QED
      BY <1>2, <2>2
  <2> HIDE DEF place
  <2> QED
    BY <2>1, <2>3 DEF Injection, IsInjective
<1> HIDE DEF S, T, place
<1>4. IsFiniteSet(S) /\ Cardinality(S) <= Cardinality(T)
  BY <1>1, <1>3, FS_Injection
<1>5. Cardinality(S) \in Nat
  BY <1>4, FS_CardinalityType
<1> QED
  BY <1>1, <1>4, <1>5, MaxEntryAssumption DEF S
-----------------------------------------------------------------------------
(* What a step does to the two channels. *)

\* The IN table as the enclave sees it.
InView == [e \in Entry |-> View(e)]

\* The messages in flight are the contents of the two tables.
LEMMA InFlightContent ==
  /\ InFlightIn = Content(in_bitmap, InView, IN_SGX)
  /\ InFlightIn' = Content(in_bitmap', InView', IN_SGX)
  /\ InFlightOut = Content(out_bitmap, out_slot, OUT_SMM)
  /\ InFlightOut' = Content(out_bitmap', out_slot', OUT_SMM)
BY DEF InFlightIn, InFlightOut, Content, InView

\* The enclave sees packets.
LEMMA ViewType ==
  /\ TypeOK => InView \in [Entry -> Packet]
  /\ TypeOK' => InView' \in [Entry -> Packet]
BY DEF TypeOK, InView, View, Packet

\* The halves of the packet that the enclave ends up with are those of the entry or
\* those it has copied from it.
LEMMA ViewHalves ==
  ASSUME IInv, NEW e \in Entry, in_bitmap[e] = IN_SGX, NEW h \in Halves(View(e))
  PROVE  PendingIn(h, e)
<1>1. h \in Halves(in_slot[e]) \/ (i = e /\ h \in Copied)
  BY DEF View, Halves, Copied
<1> QED
  BY <1>1 DEF IInv, InInv

\* A message that waits was accepted, was not returned and waits in one entry.
LEMMA InWaiting ==
  ASSUME IInv
  PROVE  /\ Single(in_bitmap, InView, IN_SGX)
         /\ \A m \in InFlightIn : m \in Message /\ m \in in_sent /\ in_got[m] = 0
<1>1. ASSUME NEW e \in Entry, NEW f \in Entry, in_bitmap[e] = IN_SGX, in_bitmap[f] = IN_SGX,
             Verifies(View(e)), View(e) = View(f), e # f
      PROVE  FALSE
  <2> DEFINE h == View(e).lo
  <2>1. h \in Halves(View(e)) /\ h \in Halves(View(f))
    BY <1>1 DEF Halves, Verifies
  <2>2. PendingIn(h, e) /\ PendingIn(h, f)
    BY <1>1, <2>1, ViewHalves
  <2>3. View(e) = in_slot[e] \/ View(f) = in_slot[f]
    BY <1>1 DEF View, IInv, TypeOK, Packet
  <2> QED
    BY <1>1, <2>1, <2>2, <2>3 DEF PendingIn
<1>2. \A e \in Entry : InView[e] = View(e)
  BY DEF InView
<1>3. Single(in_bitmap, InView, IN_SGX)
  BY <1>1, <1>2 DEF Single
<1>4. ASSUME NEW m \in InFlightIn PROVE m \in Message /\ m \in in_sent /\ in_got[m] = 0
  <2>1. PICK e \in Entry : in_bitmap[e] = IN_SGX /\ View(e) = Encrypt(m) /\ m \in Message
    BY <1>4 DEF InFlightIn
  <2>2. m \in Halves(View(e))
    BY <2>1, JunkAssumption DEF Halves, Encrypt
  <2>3. PendingIn(m, e)
    BY <2>1, <2>2, ViewHalves
  <2> QED
    BY <2>1, <2>3 DEF PendingIn
<1> QED
  BY <1>3, <1>4

\* The same for the packets that wait for the supervisor.
LEMMA OutWaiting ==
  ASSUME IInv
  PROVE  /\ Single(out_bitmap, out_slot, OUT_SMM)
         /\ \A m \in InFlightOut : m \in Message /\ m \in out_sent /\ out_got[m] = 0
<1>1. Single(out_bitmap, out_slot, OUT_SMM)
  BY DEF Single, IInv, OutInv, PendingOut, Halves, Verifies
<1>2. ASSUME NEW m \in InFlightOut PROVE m \in Message /\ m \in out_sent /\ out_got[m] = 0
  <2>1. PICK e \in Entry : out_bitmap[e] = OUT_SMM /\ out_slot[e] = Encrypt(m) /\ m \in Message
    BY <1>2 DEF InFlightOut
  <2>2. m \in Halves(out_slot[e])
    BY <2>1, JunkAssumption DEF Halves, Encrypt
  <2> QED
    BY <2>1, <2>2 DEF IInv, OutInv, PendingOut
<1> QED
  BY <1>1, <1>2

\* What a step can do to the IN direction...
InKept == UNCHANGED <<InFlightIn, in_sent, in_got>>

InSend(m) ==
  /\ m \in Message /\ m \notin in_sent /\ Cardinality(InFlightIn) < MaxEntry
  /\ InFlightIn' = InFlightIn \cup {m} /\ in_sent' = in_sent \cup {m} /\ in_got' = in_got

InReceive(m) ==
  /\ m \in InFlightIn /\ InFlightIn' = InFlightIn \ {m}
  /\ in_got' = [in_got EXCEPT ![m] = @ + 1] /\ in_sent' = in_sent

InLose(m) ==
  m \in InFlightIn /\ InFlightIn' = InFlightIn \ {m} /\ UNCHANGED <<in_sent, in_got>>

\* ... and to the OUT direction.
OutKept == UNCHANGED <<InFlightOut, out_sent, out_got>>

OutSend(m) ==
  /\ m \in Message /\ m \notin out_sent /\ Cardinality(InFlightOut) < MaxEntry
  /\ InFlightOut' = InFlightOut \cup {m} /\ out_sent' = out_sent \cup {m} /\ out_got' = out_got

OutReceive(m) ==
  /\ m \in InFlightOut /\ InFlightOut' = InFlightOut \ {m}
  /\ out_got' = [out_got EXCEPT ![m] = @ + 1] /\ out_sent' = out_sent

OutLose(m) ==
  m \in InFlightOut /\ InFlightOut' = InFlightOut \ {m} /\ UNCHANGED <<out_sent, out_got>>

\* A packet that was hit between the two copies and the byte is handed over.
OutSpoilt(m) ==
  /\ m \in Message /\ m \notin out_sent /\ Cardinality(InFlightOut) < MaxEntry
  /\ Damaged /\ ~Damaged'
  /\ InFlightOut' = InFlightOut /\ out_sent' = out_sent \cup {m} /\ out_got' = out_got

\* No stray write, and the packet being written stays whole.
Quiet == UNCHANGED faults /\ (Damaged' => Damaged)

\* What any step of the program does: at most one message moves, in one direction.
Effect ==
  \/ InKept /\ OutKept /\ (Quiet \/ faults' = faults + 1)
  \/ \E m \in Message : (InSend(m) \/ InReceive(m)) /\ OutKept /\ Quiet
  \/ \E m \in Message : (OutSend(m) \/ OutReceive(m)) /\ InKept /\ Quiet
  \/ \E m \in Message : OutSpoilt(m) /\ InKept /\ UNCHANGED faults
  \/ \E m \in Message : /\ (InLose(m) /\ OutKept) \/ (OutLose(m) /\ InKept)
                        /\ faults' = faults + 1 /\ (Damaged' => Damaged)

\* Changes to packets that cannot be read, before and after, leave the IN channel alone.
LEMMA InFrame ==
  ASSUME TypeOK, TypeOK', UNCHANGED <<in_bitmap, in_sent, in_got>>,
         \A e \in Entry : in_bitmap[e] = IN_SGX =>
           View(e)' = View(e) \/ (~Verifies(View(e)) /\ ~Verifies(View(e)'))
  PROVE  InKept
<1>1. \A e \in Entry : InView[e] = View(e) /\ InView'[e] = View(e)'
  BY DEF InView
<1>2. InView \in [Entry -> Packet] /\ InView' \in [Entry -> Packet]
  BY ViewType
<1>3. \A e \in Entry : (in_bitmap[e] = IN_SGX /\ Verifies(InView[e]))
                       \/ (in_bitmap'[e] = IN_SGX /\ Verifies(InView'[e]))
                       => in_bitmap[e] = IN_SGX /\ in_bitmap'[e] = IN_SGX /\ InView[e] = InView'[e]
  BY <1>1
<1>4. InFlightIn' = InFlightIn
  BY <1>2, <1>3, ContentSame, InFlightContent
<1> QED
  BY <1>4 DEF InKept

\* Changes to packets that do not wait for the supervisor leave the OUT channel alone.
LEMMA OutFrame ==
  ASSUME TypeOK, TypeOK', UNCHANGED <<out_bitmap, out_sent, out_got>>,
         \A e \in Entry : out_bitmap[e] = OUT_SMM => out_slot'[e] = out_slot[e]
  PROVE  OutKept
<1>1. out_slot \in [Entry -> Packet] /\ out_slot' \in [Entry -> Packet]
  BY DEF TypeOK
<1>2. \A e \in Entry : (out_bitmap[e] = OUT_SMM /\ Verifies(out_slot[e]))
                       \/ (out_bitmap'[e] = OUT_SMM /\ Verifies(out_slot'[e]))
                       => out_bitmap[e] = OUT_SMM /\ out_bitmap'[e] = OUT_SMM /\ out_slot[e] = out_slot'[e]
  OBVIOUS
<1>3. InFlightOut' = InFlightOut
  BY <1>1, <1>2, ContentSame, InFlightContent
<1> QED
  BY <1>3 DEF OutKept

\* init_ring_buffer finds and leaves empty rings.
LEMMA InitEffect ==
  ASSUME IInv, TypeOK', init_ring_buffer
  PROVE  Effect
<1> USE DEF init_ring_buffer, in_hist, out_hist, enclave, IN_SMM, IN_SGX, OUT_SMM, OUT_SGX
<1>1. \A e \in Entry : in_bitmap[e] # IN_SGX /\ in_bitmap'[e] # IN_SGX
                       /\ out_bitmap[e] # OUT_SMM /\ out_bitmap'[e] # OUT_SMM
  BY DEF IInv, OwnerInv
<1>2. InFlightIn = {} /\ InFlightIn' = {} /\ InFlightOut = {} /\ InFlightOut' = {}
  BY <1>1 DEF InFlightIn, InFlightOut
<1>3. ~Damaged'
  <2>1. pc' \notin {"put_copy", "put_rest", "put_flip"}
    BY <1>1 DEF IInv, OwnerInv, HoldsOut, TypeOK
  <2> QED
    BY <2>1 DEF Damaged
<1> QED
  BY <1>2, <1>3 DEF Effect, InKept, OutKept, Quiet

\* put_in_buffer fills an entry that the enclave is not working on.
LEMMA PutInEffect ==
  ASSUME IInv, TypeOK', NEW m \in Message, NEW ok, put_in_buffer(m, ok)
  PROVE  Effect
<1> USE DEF IN_SMM, IN_SGX
<1>0. UNCHANGED <<in_got, out_bitmap, out_slot, pc, i, ciphertext, out_sent, out_got, faults>>
  BY DEF put_in_buffer, out_shm, enclave, out_hist
<1>1. OutKept /\ Quiet
  BY <1>0, OutFrame DEF IInv, Quiet, Damaged
<1>2. CASE UNCHANGED <<in_bitmap, in_slot, in_sent>>
  <2>1. InKept
    BY <1>0, <1>2, InFrame DEF IInv, View
  <2> QED
    BY <1>1, <2>1 DEF Effect
<1>3. ASSUME NEW e \in Entry, IsLowest(in_bitmap, e, IN_SMM),
             in_slot' = [in_slot EXCEPT ![e] = Encrypt(m)],
             in_bitmap' = [in_bitmap EXCEPT ![e] = IN_SGX], in_sent' = in_sent \cup {m}
      PROVE  Effect
  <2>1. /\ in_bitmap[e] # IN_SGX /\ in_bitmap'[e] = IN_SGX /\ in_slot'[e] = Encrypt(m)
        /\ \A f \in Entry : f # e => in_bitmap'[f] = in_bitmap[f] /\ in_slot'[f] = in_slot[f]
    BY <1>3 DEF IsLowest, IInv, TypeOK
  <2>2. ~HoldsIn(e)
    BY <2>1 DEF IInv, OwnerInv
  <2>3. /\ InView'[e] = Encrypt(m)
        /\ \A f \in Entry : f # e => InView'[f] = InView[f]
    BY <1>0, <2>1, <2>2 DEF InView, View, HoldsIn, Encrypt
  <2>4. InFlightIn' = InFlightIn \cup {m}
    BY <2>1, <2>3, ContentAdd, InFlightContent
  <2>5. Cardinality(InFlightIn) < MaxEntry
    BY <2>1, ContentRoom, InFlightContent
  <2>6. m \notin in_sent
    BY DEF put_in_buffer
  <2> QED
    BY <1>0, <1>1, <1>3, <2>4, <2>5, <2>6 DEF Effect, InSend
<1> QED
  BY <1>2, <1>3 DEF put_in_buffer, in_shm

\* get_out_buffer takes out the message it returns, or refuses a damaged packet.
LEMMA GetOutEffect ==
  ASSUME IInv, TypeOK', get_out_buffer
  PROVE  Effect
<1> USE DEF OUT_SMM, OUT_SGX
<1>0. UNCHANGED <<in_bitmap, in_slot, out_slot, pc, i, ciphertext, in_sent, in_got, out_sent, faults>>
  BY DEF get_out_buffer, in_shm, enclave, in_hist
<1>1. InKept /\ Quiet
  BY <1>0, InFrame DEF IInv, Quiet, Damaged, View
<1>2. CASE UNCHANGED <<out_bitmap, out_got>>
  <2>1. OutKept
    BY <1>0, <1>2, OutFrame DEF IInv
  <2> QED
    BY <1>1, <2>1 DEF Effect
<1>3. ASSUME NEW e \in Entry, IsLowest(out_bitmap, e, OUT_SMM), Verifies(out_slot[e]),
             out_bitmap' = [out_bitmap EXCEPT ![e] = OUT_SGX],
             out_got' = [out_got EXCEPT ![out_slot[e].lo] = @ + 1]
      PROVE  Effect
  <2> DEFINE m == out_slot[e].lo
  <2>1. out_slot \in [Entry -> Packet] /\ out_slot' \in [Entry -> Packet]
    BY DEF IInv, TypeOK
  <2>2. m \in Message /\ out_slot[e] = Encrypt(m)
    BY <1>3, <2>1, VerifiesEncrypt
  <2>3. /\ out_bitmap[e] = OUT_SMM /\ out_bitmap'[e] # OUT_SMM
        /\ \A f \in Entry : f # e => out_bitmap'[f] = out_bitmap[f] /\ out_slot'[f] = out_slot[f]
    BY <1>0, <1>3 DEF IsLowest, IInv, TypeOK
  <2> HIDE DEF m
  <2>4. m \in InFlightOut /\ InFlightOut' = InFlightOut \ {m}
    BY <2>1, <2>2, <2>3, ContentRemove, InFlightContent, OutWaiting
  <2> QED
    BY <1>0, <1>1, <1>3, <2>2, <2>4 DEF Effect, OutReceive, m
<1> QED
  BY <1>2, <1>3 DEF get_out_buffer

\* The steps of the enclave that hand over no entry.
LEMMA EnclaveEffect ==
  ASSUME IInv, CopyInv, TypeOK',
         \/ \E m \in Message, ok \in BOOLEAN : put_out_buffer(m, ok)
         \/ put_out_scan \/ put_out_copy
         \/ get_in_buffer \/ get_in_scan \/ get_in_copy \/ get_in_decrypt
  PROVE  Effect
<1> USE DEF in_shm, out_shm, enclave, in_hist, out_hist, Goto, UnchangedByEnclave,
            IN_SGX, OUT_SMM, OUT_SGX
<1>1. /\ UNCHANGED <<in_bitmap, in_slot, in_sent, in_got, out_bitmap, out_sent, out_got, faults>>
      /\ ~put_out_copy => UNCHANGED out_slot
  BY DEF put_out_buffer, put_out_scan, put_out_copy, get_in_buffer, get_in_scan, get_in_copy,
         get_in_decrypt
<1>2. \A e \in Entry : out_bitmap[e] = OUT_SMM => out_slot'[e] = out_slot[e]
  <2>1. CASE put_out_copy
    BY <2>1 DEF put_out_copy, IInv, OwnerInv, HoldsOut, TypeOK
  <2> QED
    BY <1>1, <2>1
<1>3. OutKept
  BY <1>1, <1>2, OutFrame DEF IInv
<1>4. Damaged' => Damaged
  <2>1. CASE put_out_copy
    BY <2>1 DEF put_out_copy, Damaged, IInv, OutInv, PutPc, TypeOK, Packet
  <2>2. CASE ~put_out_copy
    BY <1>1, <2>2 DEF Damaged, put_out_buffer, put_out_scan, get_in_buffer, get_in_scan, get_in_copy,
         get_in_decrypt
  <2> QED
    BY <2>1, <2>2
<1>5. ASSUME NEW e \in Entry, in_bitmap[e] = IN_SGX
      PROVE  View(e)' = View(e) \/ (~Verifies(View(e)) /\ ~Verifies(View(e)'))
  <2>1. CASE get_in_copy
    BY <1>1, <2>1 DEF get_in_copy, View, IInv, TypeOK, Packet
  <2>2. CASE get_in_decrypt
    <3>1. /\ pc = "get_decrypt" /\ pc' \in {"idle", "get_flip"} /\ UNCHANGED <<i, ciphertext>>
          /\ pc' = "idle" => ~Verifies(ciphertext)
          /\ in_slot[i].lo \in {ciphertext.lo, Junk} /\ in_slot[i].hi \in {ciphertext.hi, Junk}
      BY <2>2 DEF get_in_decrypt, CopyInv
    <3>2. pc' = "idle" => ~Verifies(in_slot[i])
      BY <3>1 DEF Verifies
    <3>3. CASE pc' = "get_flip" \/ e # i
      BY <1>1, <3>1, <3>3 DEF View
    <3>4. CASE pc' = "idle" /\ e = i
      BY <1>1, <3>1, <3>2, <3>4 DEF View, Verifies
    <3> QED
      BY <3>1, <3>3, <3>4
  <2>3. CASE ~get_in_copy /\ ~get_in_decrypt
    <3>1. {pc, pc'} \cap {"get_rest", "get_decrypt", "get_flip"} = {}
      BY <2>3 DEF put_out_buffer, put_out_scan, put_out_copy, get_in_buffer, get_in_scan
    <3> QED
      BY <1>1, <3>1 DEF View
  <2> QED
    BY <2>1, <2>2, <2>3
<1>6. InKept
  BY <1>1, <1>5, InFrame DEF IInv
<1> QED
  BY <1>1, <1>3, <1>4, <1>6 DEF Effect, Quiet

\* put_out_flip hands over what was copied, unless that was hit meanwhile.
LEMMA PutFlipEffect ==
  ASSUME IInv, TypeOK', put_out_flip
  PROVE  Effect
<1> USE DEF put_out_flip, in_shm, in_hist, Goto, UnchangedByEnclave, OUT_SMM, OUT_SGX
<1> DEFINE m == ciphertext.lo
<1>1. /\ i \in Entry /\ out_bitmap[i] # OUT_SMM /\ out_bitmap'[i] = OUT_SMM
      /\ \A f \in Entry : f # i => out_bitmap'[f] = out_bitmap[f] /\ out_slot'[f] = out_slot[f]
      /\ out_slot \in [Entry -> Packet] /\ out_slot' = out_slot
  BY DEF IInv, OwnerInv, HoldsOut, TypeOK
<1>2. m \in Message /\ m \notin out_sent /\ ciphertext = Encrypt(m)
  BY DEF IInv, OutInv, PutPc, TypeOK, Packet, Encrypt
<1>3. InKept
  <2>1. \A e \in Entry : View(e)' = View(e)
    BY DEF View
  <2> QED
    BY <2>1, InFrame DEF IInv
<1>4. Cardinality(InFlightOut) < MaxEntry
  BY <1>1, ContentRoom, InFlightContent
<1>5. ~Damaged' /\ (Damaged <=> out_slot[i] # ciphertext)
  BY DEF Damaged
<1>8. out_sent' = out_sent \cup {m} /\ UNCHANGED <<out_got, faults>>
  OBVIOUS
<1> HIDE DEF m, put_out_flip, OUT_SMM, OUT_SGX, in_shm, in_hist, Goto, UnchangedByEnclave
<1>6. CASE out_slot[i] = ciphertext
  <2>1. InFlightOut' = InFlightOut \cup {m}
    <3>1. out_slot'[i] = Encrypt(m)
      BY <1>1, <1>2, <1>6
    <3>2. Content(out_bitmap', out_slot', OUT_SMM) = Content(out_bitmap, out_slot, OUT_SMM) \cup {m}
      <4>1. /\ i \in Entry /\ out_bitmap[i] # OUT_SMM /\ out_bitmap'[i] = OUT_SMM
            /\ \A f \in Entry : f # i => out_bitmap'[f] = out_bitmap[f] /\ out_slot'[f] = out_slot[f]
        BY <1>1
      <4> QED
        BY <1>2, <3>1, <4>1, ContentAdd
    <3> QED
      BY <3>2, InFlightContent
  <2> QED
    BY <1>2, <1>3, <1>4, <1>5, <1>8, <2>1 DEF Effect, OutSend, Quiet
<1>7. CASE out_slot[i] # ciphertext
  <2>1. ~Verifies(out_slot[i])
    <3>1. Halves(out_slot[i]) \subseteq {m}
      BY DEF IInv, OutInv, m, put_out_flip
    <3>2. out_slot[i].lo = m /\ out_slot[i].hi = m => out_slot[i] = ciphertext
      BY <1>1, <1>2, VerifiesEncrypt
    <3> QED
      BY <1>7, <3>1, <3>2 DEF Verifies, Halves
  <2>2. \A e \in Entry : (out_bitmap[e] = OUT_SMM /\ Verifies(out_slot[e]))
                         \/ (out_bitmap'[e] = OUT_SMM /\ Verifies(out_slot'[e]))
                         => out_bitmap[e] = OUT_SMM /\ out_bitmap'[e] = OUT_SMM /\ out_slot[e] = out_slot'[e]
    BY <1>1, <2>1
  <2>3. InFlightOut' = InFlightOut
    BY <1>1, <2>2, ContentSame, InFlightContent
  <2> QED
    BY <1>2, <1>3, <1>4, <1>5, <1>7, <1>8, <2>3 DEF Effect, OutSpoilt
<1> QED
  BY <1>6, <1>7

\* get_in_flip hands back the entry of the message it returns.
LEMMA GetFlipEffect ==
  ASSUME IInv, TypeOK', get_in_flip
  PROVE  Effect
<1> USE DEF get_in_flip, GiveBackIn, out_shm, out_hist, Goto, UnchangedByEnclave, IN_SMM, IN_SGX
<1> DEFINE m == ciphertext.lo
<1>1. /\ i \in Entry /\ in_bitmap[i] = IN_SGX /\ in_bitmap'[i] # IN_SGX
      /\ \A f \in Entry : f # i => in_bitmap'[f] = in_bitmap[f]
  BY DEF IInv, OwnerInv, HoldsIn, TypeOK
<1>2. m \in Message /\ ciphertext = Encrypt(m)
  BY VerifiesEncrypt DEF IInv, InInv, TypeOK
<1>3. InView[i] = Encrypt(m) /\ \A f \in Entry : f # i => InView'[f] = InView[f]
  BY <1>1, <1>2 DEF InView, View, IInv, TypeOK, Packet
<1>4. InView \in [Entry -> Packet] /\ InView' \in [Entry -> Packet]
  BY ViewType DEF IInv
<1>5. OutKept /\ Quiet
  BY OutFrame DEF IInv, Quiet, Damaged
<1>7. in_got' = [in_got EXCEPT ![m] = @ + 1] /\ in_sent' = in_sent
  OBVIOUS
<1> HIDE DEF m, get_in_flip, GiveBackIn, out_shm, out_hist, Goto, UnchangedByEnclave, IN_SMM, IN_SGX
<1>6. m \in InFlightIn /\ InFlightIn' = InFlightIn \ {m}
  BY <1>1, <1>2, <1>3, <1>4, ContentRemove, InFlightContent, InWaiting
<1> QED
  BY <1>2, <1>5, <1>6, <1>7 DEF Effect, InReceive

\* A stray write takes at most one message out of one of the channels.
LEMMA StrayEffect ==
  ASSUME IInv, TypeOK', NEW s \in Entry, StrayWrite(s)
  PROVE  Effect
<1> USE DEF StrayWrite, enclave, in_hist, out_hist
<1>1. /\ UNCHANGED <<in_bitmap, out_bitmap, pc, i, ciphertext, in_sent, in_got, out_sent, out_got>>
      /\ faults' = faults + 1
  OBVIOUS
<1>2. CASE out_slot' = out_slot
  <2>1. OutKept /\ (Damaged' => Damaged)
    BY <1>1, <1>2, OutFrame DEF IInv, Damaged
  <2>2. \A e \in Entry : e # s => in_slot'[e] = in_slot[e]
    BY DEF IInv, TypeOK
  <2>3. /\ in_slot'[s].lo \in {in_slot[s].lo, Junk}
        /\ in_slot'[s].hi \in {in_slot[s].hi, Junk}
    BY StrayUpdate DEF IInv, TypeOK
  <2>4. \A e \in Entry : e # s => InView'[e] = InView[e]
    BY <1>1, <2>2 DEF InView, View
  <2>5. InView'[s] = InView[s] \/ ~Verifies(InView'[s])
    BY <1>1, <2>3 DEF InView, View, Verifies
  <2>6. InView \in [Entry -> Packet] /\ InView' \in [Entry -> Packet]
    BY ViewType DEF IInv
  <2>7. CASE in_bitmap[s] = IN_SGX /\ Verifies(InView[s]) /\ InView'[s] # InView[s]
    <3> DEFINE m == InView[s].lo
    <3>1. m \in Message /\ InView[s] = Encrypt(m)
      BY <2>6, <2>7, VerifiesEncrypt
    <3> HIDE DEF m, StrayWrite, enclave, in_hist, out_hist
    <3>3. Single(in_bitmap, InView, IN_SGX)
      BY InWaiting
    <3>4. in_bitmap'[s] # IN_SGX \/ ~Verifies(InView'[s])
      BY <2>5, <2>7
    <3>5. \A f \in Entry : f # s => in_bitmap'[f] = in_bitmap[f] /\ InView'[f] = InView[f]
      BY <1>1, <2>4
    <3>2. m \in InFlightIn /\ InFlightIn' = InFlightIn \ {m}
      <4>1. /\ m \in Content(in_bitmap, InView, IN_SGX)
            /\ Content(in_bitmap', InView', IN_SGX) = Content(in_bitmap, InView, IN_SGX) \ {m}
        BY <2>6, <2>7, <3>1, <3>3, <3>4, <3>5, ContentRemove
      <4> QED
        BY <4>1, InFlightContent
    <3> QED
      BY <1>1, <2>1, <3>1, <3>2 DEF Effect, InLose
  <2>8. CASE ~(in_bitmap[s] = IN_SGX /\ Verifies(InView[s]) /\ InView'[s] # InView[s])
    <3>1. \A e \in Entry : (in_bitmap[e] = IN_SGX /\ Verifies(InView[e]))
                           \/ (in_bitmap'[e] = IN_SGX /\ Verifies(InView'[e]))
                           => in_bitmap[e] = IN_SGX /\ in_bitmap'[e] = IN_SGX /\ InView[e] = InView'[e]
      BY <1>1, <2>4, <2>5, <2>8
    <3>2. InFlightIn' = InFlightIn
      BY <2>6, <3>1, ContentSame, InFlightContent
    <3> QED
      BY <1>1, <2>1, <3>2 DEF Effect, InKept
  <2> QED
    BY <2>7, <2>8
<1>3. CASE in_slot' = in_slot
  <2>1. InKept
    BY <1>1, <1>3, InFrame DEF IInv, View
  <2>2. \A e \in Entry : e # s => out_slot'[e] = out_slot[e]
    BY DEF IInv, TypeOK
  <2>3. /\ out_slot'[s].lo \in {out_slot[s].lo, Junk}
        /\ out_slot'[s].hi \in {out_slot[s].hi, Junk}
    BY StrayUpdate DEF IInv, TypeOK
  <2>4. out_slot \in [Entry -> Packet] /\ out_slot' \in [Entry -> Packet]
    BY DEF IInv, TypeOK
  <2>5. out_slot'[s] = out_slot[s] \/ ~Verifies(out_slot'[s])
    BY <2>3, <2>4 DEF Verifies, Packet
  <2>6. CASE out_bitmap[s] = OUT_SMM /\ Verifies(out_slot[s]) /\ out_slot'[s] # out_slot[s]
    <3> DEFINE m == out_slot[s].lo
    <3>1. m \in Message /\ out_slot[s] = Encrypt(m)
      BY <2>4, <2>6, VerifiesEncrypt
    <3> HIDE DEF m
    <3>2. m \in InFlightOut /\ InFlightOut' = InFlightOut \ {m}
      BY <1>1, <2>2, <2>4, <2>5, <2>6, <3>1, ContentRemove, InFlightContent, OutWaiting
    <3>3. Damaged' => Damaged
      BY <1>1, <2>2, <2>6 DEF Damaged, IInv, OwnerInv, HoldsOut, TypeOK, OUT_SMM, OUT_SGX
    <3> QED
      BY <1>1, <2>1, <3>1, <3>2, <3>3 DEF Effect, OutLose
  <2>7. CASE ~(out_bitmap[s] = OUT_SMM /\ Verifies(out_slot[s]) /\ out_slot'[s] # out_slot[s])
    <3>1. \A e \in Entry : (out_bitmap[e] = OUT_SMM /\ Verifies(out_slot[e]))
                           \/ (out_bitmap'[e] = OUT_SMM /\ Verifies(out_slot'[e]))
                           => out_bitmap[e] = OUT_SMM /\ out_bitmap'[e] = OUT_SMM /\ out_slot[e] = out_slot'[e]
      BY <1>1, <2>2, <2>5, <2>7
    <3>2. InFlightOut' = InFlightOut
      BY <2>4, <3>1, ContentSame, InFlightContent
    <3> QED
      BY <1>1, <2>1, <3>2 DEF Effect, OutKept
  <2> QED
    BY <2>6, <2>7
<1> QED
  BY <1>2, <1>3

\* One case per operation of ring_buffer.c and ring_buffer.cpp, and the stray write.
LEMMA StepEffect ==
  ASSUME IInv, CopyInv, [Next]_vars
  PROVE  Effect
<1>1. IInv'
  BY StepInv
<1>2. TypeOK'
  BY <1>1 DEF IInv
<1>3. CASE UNCHANGED vars
  BY <1>3 DEF vars, in_shm, out_shm, enclave, in_hist, out_hist, Effect, InKept, OutKept, Quiet,
       Damaged, InFlightIn, InFlightOut, View
<1> QED
  BY <1>2, <1>3, InitEffect, PutInEffect, GetOutEffect, EnclaveEffect, PutFlipEffect, GetFlipEffect,
     StrayEffect DEF Next, SmmStep, EnclaveStep
-----------------------------------------------------------------------------
(* The losses. *)

\* Which of these steps lose a message of the IN direction...
LEMMA DestroyedInStep ==
  ASSUME IInv
  PROVE  /\ InKept => DestroyedIn' = DestroyedIn /\ in_sent' = in_sent
         /\ \A m \in Message : InSend(m) => DestroyedIn' = DestroyedIn /\ in_sent' = in_sent \cup {m}
         /\ \A m \in Message : InReceive(m) => DestroyedIn' = DestroyedIn /\ in_sent' = in_sent
         /\ \A m \in Message : InLose(m) => DestroyedIn' = DestroyedIn \cup {m} /\ in_sent' = in_sent
<1>1. in_got \in [Message -> Nat] /\ in_sent \subseteq Message
  BY DEF IInv, TypeOK
<1>2. \A m \in InFlightIn : m \in Message /\ m \in in_sent /\ in_got[m] = 0
  BY InWaiting
<1>3. InKept => DestroyedIn' = DestroyedIn /\ in_sent' = in_sent
  BY DEF InKept, DestroyedIn
<1>4. ASSUME NEW m \in Message, InSend(m) PROVE DestroyedIn' = DestroyedIn /\ in_sent' = in_sent \cup {m}
  BY <1>1, <1>4 DEF InSend, DestroyedIn
<1>5. ASSUME NEW m \in Message, InReceive(m) PROVE DestroyedIn' = DestroyedIn /\ in_sent' = in_sent
  BY <1>1, <1>2, <1>5 DEF InReceive, DestroyedIn
<1>6. ASSUME NEW m \in Message, InLose(m) PROVE DestroyedIn' = DestroyedIn \cup {m} /\ in_sent' = in_sent
  BY <1>1, <1>2, <1>6 DEF InLose, DestroyedIn
<1> QED
  BY <1>3, <1>4, <1>5, <1>6

\* ... and which one of the OUT direction.
LEMMA DestroyedOutStep ==
  ASSUME IInv
  PROVE  /\ OutKept => DestroyedOut' = DestroyedOut /\ out_sent' = out_sent
         /\ \A m \in Message : OutSend(m) => DestroyedOut' = DestroyedOut /\ out_sent' = out_sent \cup {m}
         /\ \A m \in Message : OutReceive(m) => DestroyedOut' = DestroyedOut /\ out_sent' = out_sent
         /\ \A m \in Message : OutLose(m) => DestroyedOut' = DestroyedOut \cup {m} /\ out_sent' = out_sent
         /\ \A m \in Message : OutSpoilt(m) => DestroyedOut' = DestroyedOut \cup {m} /\ out_sent' = out_sent \cup {m}
<1>1. out_got \in [Message -> Nat] /\ out_sent \subseteq Message
  BY DEF IInv, TypeOK
<1>2. \A m \in InFlightOut : m \in Message /\ m \in out_sent /\ out_got[m] = 0
  BY OutWaiting
<1>3. OutKept => DestroyedOut' = DestroyedOut /\ out_sent' = out_sent
  BY DEF OutKept, DestroyedOut
<1>4. ASSUME NEW m \in Message, OutSend(m) PROVE DestroyedOut' = DestroyedOut /\ out_sent' = out_sent \cup {m}
  BY <1>1, <1>4 DEF OutSend, DestroyedOut
<1>5. ASSUME NEW m \in Message, OutReceive(m) PROVE DestroyedOut' = DestroyedOut /\ out_sent' = out_sent
  BY <1>1, <1>2, <1>5 DEF OutReceive, DestroyedOut
<1>6. ASSUME NEW m \in Message, OutLose(m) PROVE DestroyedOut' = DestroyedOut \cup {m} /\ out_sent' = out_sent
  BY <1>1, <1>2, <1>6 DEF OutLose, DestroyedOut
<1>7. ASSUME NEW m \in Message, OutSpoilt(m)
      PROVE  DestroyedOut' = DestroyedOut \cup {m} /\ out_sent' = out_sent \cup {m}
  <2>1. out_got[m] = 0 /\ m \notin InFlightOut
    BY <1>1, <1>2, <1>7 DEF OutSpoilt, IInv, OutInv
  <2> QED
    BY <1>1, <1>7, <2>1 DEF OutSpoilt, DestroyedOut
<1> QED
  BY <1>3, <1>4, <1>5, <1>6, <1>7

\* One more member costs at most one.
LEMMA OneMore ==
  ASSUME NEW S, NEW x, IsFiniteSet(S)
  PROVE  /\ Cardinality(S) \in Nat /\ Cardinality(S \cup {x}) \in Nat
         /\ Cardinality(S \cup {x}) <= Cardinality(S) + 1
         /\ IsFiniteSet(S \cup {x})
<1>1. Cardinality(S) \in Nat
  BY FS_CardinalityType
<1> QED
  BY <1>1, FS_AddElement

\* A lost message was paid for by a stray write, now or when the packet was damaged.
LEMMA LossStep ==
  ASSUME IInv, LossInv, Effect
  PROVE  LossInv'
<1>1. IsFiniteSet(in_sent) /\ IsFiniteSet(out_sent) /\ DestroyedIn \subseteq in_sent /\ DestroyedOut \subseteq out_sent
  BY DEF LossInv, DestroyedIn, DestroyedOut
<1>2. IsFiniteSet(DestroyedIn) /\ IsFiniteSet(DestroyedOut)
  BY <1>1, FS_Subset
<1>3. Cardinality(DestroyedIn) \in Nat /\ Cardinality(DestroyedOut) \in Nat /\ Doomed \in {0, 1} /\ Doomed' \in {0, 1}
  BY <1>2, FS_CardinalityType DEF Doomed
<1>4. faults \in Nat /\ Cardinality(DestroyedIn) + Cardinality(DestroyedOut) + Doomed <= faults
  BY MaxFaultsAssumption DEF LossInv, IInv, TypeOK
<1>5. (Damaged' => Damaged) => Doomed' <= Doomed
  BY DEF Doomed
<1>6. ASSUME InKept, OutKept, Quiet \/ faults' = faults + 1 PROVE LossInv'
  BY <1>1, <1>3, <1>4, <1>5, <1>6, DestroyedInStep, DestroyedOutStep DEF LossInv, Quiet
<1>7. ASSUME NEW m \in Message, InSend(m) \/ InReceive(m), OutKept, Quiet PROVE LossInv'
  <2>1. DestroyedIn' = DestroyedIn /\ DestroyedOut' = DestroyedOut /\ out_sent' = out_sent
    BY <1>7, DestroyedInStep, DestroyedOutStep
  <2>2. IsFiniteSet(in_sent')
    <3>1. in_sent' = in_sent \/ in_sent' = in_sent \cup {m}
      BY <1>7, DestroyedInStep
    <3>2. IsFiniteSet(in_sent \cup {m})
      BY <1>1, OneMore
    <3> QED
      BY <1>1, <3>1, <3>2
  <2> QED
    BY <1>1, <1>3, <1>4, <1>5, <1>7, <2>1, <2>2 DEF LossInv, Quiet
<1>8. ASSUME NEW m \in Message, OutSend(m) \/ OutReceive(m), InKept, Quiet PROVE LossInv'
  <2>1. DestroyedIn' = DestroyedIn /\ DestroyedOut' = DestroyedOut /\ in_sent' = in_sent
    BY <1>8, DestroyedInStep, DestroyedOutStep
  <2>2. IsFiniteSet(out_sent')
    <3>1. out_sent' = out_sent \/ out_sent' = out_sent \cup {m}
      BY <1>8, DestroyedOutStep
    <3>2. IsFiniteSet(out_sent \cup {m})
      BY <1>1, OneMore
    <3> QED
      BY <1>1, <3>1, <3>2
  <2> QED
    BY <1>1, <1>3, <1>4, <1>5, <1>8, <2>1, <2>2 DEF LossInv, Quiet
<1>9. ASSUME NEW m \in Message, OutSpoilt(m), InKept, faults' = faults PROVE LossInv'
  <2>1. DestroyedIn' = DestroyedIn /\ in_sent' = in_sent /\ DestroyedOut' = DestroyedOut \cup {m} /\ out_sent' = out_sent \cup {m}
    BY <1>9, DestroyedInStep, DestroyedOutStep
  <2>2. IsFiniteSet(out_sent') /\ Cardinality(DestroyedOut') \in Nat /\ Cardinality(DestroyedOut') <= Cardinality(DestroyedOut) + 1
    BY <1>1, <1>2, <2>1, OneMore
  <2>3. Doomed = 1 /\ Doomed' = 0
    BY <1>9 DEF OutSpoilt, Doomed
  <2> QED
    BY <1>1, <1>3, <1>4, <1>9, <2>1, <2>2, <2>3 DEF LossInv
<1>10. ASSUME NEW m \in Message, InLose(m), OutKept, faults' = faults + 1, Damaged' => Damaged
       PROVE  LossInv'
  <2>1. DestroyedIn' = DestroyedIn \cup {m} /\ in_sent' = in_sent /\ DestroyedOut' = DestroyedOut /\ out_sent' = out_sent
    BY <1>10, DestroyedInStep, DestroyedOutStep
  <2>2. Cardinality(DestroyedIn') \in Nat /\ Cardinality(DestroyedIn') <= Cardinality(DestroyedIn) + 1
    BY <1>2, <2>1, OneMore
  <2> QED
    BY <1>1, <1>3, <1>4, <1>5, <1>10, <2>1, <2>2 DEF LossInv
<1>11. ASSUME NEW m \in Message, OutLose(m), InKept, faults' = faults + 1, Damaged' => Damaged
       PROVE  LossInv'
  <2>1. DestroyedIn' = DestroyedIn /\ in_sent' = in_sent /\ DestroyedOut' = DestroyedOut \cup {m} /\ out_sent' = out_sent
    BY <1>11, DestroyedInStep, DestroyedOutStep
  <2>2. Cardinality(DestroyedOut') \in Nat /\ Cardinality(DestroyedOut') <= Cardinality(DestroyedOut) + 1
    BY <1>2, <2>1, OneMore
  <2> QED
    BY <1>1, <1>3, <1>4, <1>5, <1>11, <2>1, <2>2 DEF LossInv
<1> QED
  BY <1>6, <1>7, <1>8, <1>9, <1>10, <1>11 DEF Effect

\* A copy is damaged only together with the entry it is made from.
LEMMA CopyStep ==
  ASSUME IInv, CopyInv, [Next]_vars
  PROVE  CopyInv'
<1> USE DEF CopyInv, in_shm, out_shm, enclave, Goto, UnchangedByEnclave
<1>1. CASE init_ring_buffer
  <2>1. pc \notin {"get_rest", "get_decrypt", "get_flip"}
    BY <1>1 DEF init_ring_buffer, IInv, OwnerInv, HoldsIn, TypeOK, IN_SMM, IN_SGX
  <2> QED
    BY <1>1, <2>1 DEF init_ring_buffer
<1>2. ASSUME NEW m \in Message, NEW ok \in BOOLEAN, put_in_buffer(m, ok) PROVE CopyInv'
  <2>1. UNCHANGED <<pc, i, ciphertext>>
    BY <1>2 DEF put_in_buffer
  <2>2. pc \in {"get_rest", "get_decrypt", "get_flip"} => in_slot'[i] = in_slot[i]
    BY <1>2 DEF put_in_buffer, IsLowest, IInv, OwnerInv, HoldsIn, TypeOK, IN_SMM, IN_SGX
  <2> QED
    BY <2>1, <2>2
<1>3. ASSUME NEW s \in Entry, StrayWrite(s) PROVE CopyInv'
  <2>1. /\ \A e \in Entry : /\ in_slot'[e].lo \in {in_slot[e].lo, Junk}
                            /\ in_slot'[e].hi \in {in_slot[e].hi, Junk}
        /\ UNCHANGED <<pc, i, ciphertext>>
    BY <1>3, StrayUpdate DEF StrayWrite, IInv, TypeOK
  <2>2. pc \in {"get_rest", "get_decrypt", "get_flip"} => i \in Entry
    BY DEF IInv, TypeOK
  <2> QED
    BY <2>1, <2>2
<1>4. CASE get_out_buffer \/ put_out_scan \/ put_out_copy \/ put_out_flip \/ get_in_buffer
           \/ get_in_scan \/ get_in_decrypt \/ get_in_flip
           \/ \E m \in Message, ok \in BOOLEAN : put_out_buffer(m, ok)
  BY <1>4 DEF get_out_buffer, put_out_scan, put_out_copy, put_out_flip, get_in_buffer, get_in_scan,
       get_in_decrypt, get_in_flip, put_out_buffer
<1>5. CASE get_in_copy
  BY <1>5 DEF get_in_copy, IInv, TypeOK, Packet
<1>6. CASE UNCHANGED vars
  BY <1>6 DEF vars
<1> QED
  BY <1>1, <1>2, <1>3, <1>4, <1>5, <1>6 DEF Next, SmmStep, EnclaveStep

\* The destroyed messages are counted by natural numbers.
LEMMA LossNumbers ==
  ASSUME LossInv
  PROVE  /\ IsFiniteSet(DestroyedIn) /\ IsFiniteSet(DestroyedOut)
         /\ Cardinality(DestroyedIn) \in Nat /\ Cardinality(DestroyedOut) \in Nat /\ Doomed \in {0, 1}
<1>1. IsFiniteSet(DestroyedIn) /\ IsFiniteSet(DestroyedOut)
  BY FS_Subset DEF LossInv, DestroyedIn, DestroyedOut
<1> QED
  BY <1>1, FS_CardinalityType DEF Doomed

\* Without stray writes every packet that waits authenticates.
LEMMA WholeWithoutFaults ==
  ASSUME LossInv, BrokenInv, faults = 0
  PROVE  BrokenIn = {} /\ BrokenOut = {} /\ ~Damaged
<1>1. Cardinality(DestroyedIn) = 0 /\ Cardinality(DestroyedOut) = 0 /\ Doomed = 0
  BY LossNumbers DEF LossInv
<1>2. DestroyedIn = {} /\ DestroyedOut = {}
  BY <1>1, LossNumbers, FS_EmptySet
<1> QED
  BY <1>1, <1>2 DEF BrokenInv, Doomed

\* A destroyed message stays destroyed.
LEMMA DestroyedGrows ==
  ASSUME IInv, Effect
  PROVE  DestroyedIn \subseteq DestroyedIn' /\ DestroyedOut \subseteq DestroyedOut'
BY DestroyedInStep, DestroyedOutStep DEF Effect

\* Only a stray write breaks a waiting packet, and only put_out_flip hands over one that
\* is broken already.
LEMMA BrokenSame ==
  ASSUME IInv, CopyInv, TypeOK', [Next]_vars, ~(\E s \in Entry : StrayWrite(s))
  PROVE  /\ BrokenIn' \subseteq BrokenIn
         /\ ~put_out_flip => BrokenOut' \subseteq BrokenOut
<1> USE DEF IN_SMM, IN_SGX, OUT_SMM, OUT_SGX
<1> DEFINE Goal == /\ \A e \in Entry : in_bitmap'[e] = IN_SGX /\ ~Verifies(View(e)')
                                         => in_bitmap[e] = IN_SGX /\ ~Verifies(View(e))
                   /\ put_out_flip \/ \A e \in Entry : out_bitmap'[e] = OUT_SMM /\ ~Verifies(out_slot'[e])
                                         => out_bitmap[e] = OUT_SMM /\ ~Verifies(out_slot[e])
<1>0. SUFFICES Goal
  BY DEF BrokenIn, BrokenOut
<1>4. CASE init_ring_buffer
  BY <1>4 DEF init_ring_buffer
<1>5. ASSUME NEW m \in Message, NEW ok \in BOOLEAN, put_in_buffer(m, ok) PROVE Goal
  <2>1. UNCHANGED <<out_bitmap, out_slot, pc, i, ciphertext>>
    BY <1>5 DEF put_in_buffer, out_shm, enclave
  <2>2. CASE UNCHANGED <<in_bitmap, in_slot>>
    BY <2>1, <2>2 DEF View
  <2>3. ASSUME NEW e \in Entry, IsLowest(in_bitmap, e, IN_SMM),
               in_slot' = [in_slot EXCEPT ![e] = Encrypt(m)],
               in_bitmap' = [in_bitmap EXCEPT ![e] = IN_SGX]
        PROVE  Goal
    <3>1. ~HoldsIn(e)
      BY <2>3 DEF IsLowest, IInv, OwnerInv
    <3>2. /\ in_slot'[e] = Encrypt(m)
          /\ \A f \in Entry : f # e => in_bitmap'[f] = in_bitmap[f] /\ in_slot'[f] = in_slot[f]
      BY <2>3 DEF IInv, TypeOK
    <3>3. View(e)' = Encrypt(m) /\ \A f \in Entry : f # e => View(f)' = View(f)
      BY <2>1, <3>1, <3>2 DEF View, HoldsIn, Encrypt
    <3>4. Verifies(Encrypt(m))
      BY JunkAssumption DEF Verifies, Encrypt
    <3> QED
      BY <2>1, <3>2, <3>3, <3>4
  <2> QED
    BY <1>5, <2>2, <2>3 DEF put_in_buffer, in_shm
<1>6. CASE get_out_buffer
  <2>1. UNCHANGED <<in_bitmap, in_slot, out_slot, pc, i, ciphertext>>
    BY <1>6 DEF get_out_buffer, in_shm, enclave
  <2>2. \A f \in Entry : out_bitmap'[f] = OUT_SMM => out_bitmap[f] = OUT_SMM
    BY <1>6 DEF get_out_buffer, IsLowest, IInv, TypeOK
  <2>3. \A e \in Entry : View(e)' = View(e)
    BY <2>1 DEF View
  <2> QED
    BY <2>1, <2>2, <2>3
<1>7. CASE put_out_flip
  <2>1. UNCHANGED <<in_bitmap, in_slot, i, ciphertext>> /\ pc = "put_flip" /\ pc' = "idle"
    BY <1>7 DEF put_out_flip, in_shm, Goto
  <2>2. \A e \in Entry : View(e)' = View(e)
    BY <2>1 DEF View
  <2> QED
    BY <1>7, <2>1, <2>2
<1>8. CASE get_in_flip
  <2>1. /\ UNCHANGED <<in_slot, out_bitmap, out_slot, i, ciphertext>>
        /\ pc' = "idle" /\ i \in Entry /\ in_bitmap'[i] # IN_SGX
        /\ \A f \in Entry : f # i => in_bitmap'[f] = in_bitmap[f]
    BY <1>8 DEF get_in_flip, GiveBackIn, out_shm, Goto, IInv, TypeOK
  <2>2. \A e \in Entry : e # i => View(e)' = View(e)
    BY <2>1 DEF View
  <2> QED
    BY <2>1, <2>2
<1>9. CASE get_in_decrypt
  <2>1. /\ UNCHANGED <<in_bitmap, in_slot, out_bitmap, out_slot, i, ciphertext>> /\ pc = "get_decrypt"
        /\ pc' = "get_flip" \/ (pc' = "idle" /\ ~Verifies(ciphertext))
    BY <1>9 DEF get_in_decrypt, in_shm, out_shm, Goto
  <2>2. \A e \in Entry : e # i => View(e)' = View(e)
    BY <2>1 DEF View
  <2>3. View(i)' = View(i) \/ ~Verifies(View(i))
    BY <2>1 DEF View, Verifies
  <2> QED
    BY <2>1, <2>2, <2>3
<1>10. CASE get_in_copy
  <2>1. UNCHANGED <<in_bitmap, in_slot, out_bitmap, out_slot, i>>
    BY <1>10 DEF get_in_copy, in_shm, out_shm
  <2>2. \A e \in Entry : View(e)' = View(e)
    BY <1>10, <2>1 DEF get_in_copy, Goto, View, IInv, TypeOK, Packet
  <2> QED
    BY <2>1, <2>2
<1>11. CASE put_out_copy
  <2>1. UNCHANGED <<in_bitmap, in_slot, out_bitmap, i, ciphertext>>
    BY <1>11 DEF put_out_copy, in_shm
  <2>2. \A e \in Entry : out_bitmap[e] = OUT_SMM => out_slot'[e] = out_slot[e]
    BY <1>11 DEF put_out_copy, IInv, OwnerInv, HoldsOut, TypeOK
  <2>3. \A e \in Entry : View(e)' = View(e)
    BY <1>11, <2>1 DEF put_out_copy, Goto, View
  <2> QED
    BY <2>1, <2>2, <2>3
<1>12. CASE put_out_scan \/ get_in_buffer \/ get_in_scan
            \/ \E m \in Message, ok \in BOOLEAN : put_out_buffer(m, ok)
  <2>1. UNCHANGED <<in_bitmap, in_slot, out_bitmap, out_slot>>
    BY <1>12 DEF put_out_scan, get_in_buffer, get_in_scan, put_out_buffer, in_shm, out_shm
  <2>2. {pc, pc'} \cap {"get_rest", "get_decrypt", "get_flip"} = {}
    BY <1>12 DEF put_out_scan, get_in_buffer, get_in_scan, put_out_buffer, Goto, enclave
  <2>3. \A e \in Entry : View(e)' = View(e)
    BY <2>1, <2>2 DEF View
  <2> QED
    BY <2>1, <2>3
<1>13. CASE UNCHANGED vars
  BY <1>13 DEF vars, in_shm, out_shm, enclave, View
<1> QED
  BY <1>4, <1>5, <1>6, <1>7, <1>8, <1>9, <1>10, <1>11, <1>12, <1>13 DEF Next, SmmStep, EnclaveStep

\* Where a broken packet waits, a message was destroyed.
LEMMA BrokenStep ==
  ASSUME IInv, IInv', CopyInv, BrokenInv, Effect, [Next]_vars
  PROVE  BrokenInv'
<1>0. TypeOK /\ TypeOK'
  BY DEF IInv
<1>1. ASSUME ~(\E s \in Entry : StrayWrite(s)), ~put_out_flip PROVE BrokenInv'
  BY <1>0, <1>1, BrokenSame, DestroyedGrows DEF BrokenInv
<1>2. CASE put_out_flip
  <2> USE DEF OUT_SMM, OUT_SGX
  <2>1. ~(\E s \in Entry : StrayWrite(s))
    BY <1>2 DEF put_out_flip, StrayWrite, enclave, Goto
  <2>2. BrokenIn' \subseteq BrokenIn
    BY <1>0, <2>1, BrokenSame
  <2>3. /\ UNCHANGED <<out_slot, out_got>> /\ i \in Entry /\ out_sent' = out_sent \cup {ciphertext.lo}
        /\ \A f \in Entry : f # i => out_bitmap'[f] = out_bitmap[f]
    BY <1>2 DEF put_out_flip, IInv, TypeOK
  <2>4. /\ ciphertext.lo \in Message /\ ciphertext.lo \notin out_sent /\ out_got[ciphertext.lo] = 0
    BY <1>2 DEF put_out_flip, IInv, OutInv, PutPc, TypeOK
  <2>5. ASSUME i \in BrokenOut' PROVE ciphertext.lo \in DestroyedOut'
    <3>1. ASSUME ciphertext.lo \in InFlightOut' PROVE FALSE
      <4>1. PICK e \in Entry : out_bitmap'[e] = OUT_SMM /\ out_slot'[e] = Encrypt(ciphertext.lo)
        BY <3>1 DEF InFlightOut
      <4>2. Verifies(out_slot'[e])
        BY <2>4, <4>1, JunkAssumption DEF Verifies, Encrypt
      <4>3. e # i
        BY <2>5, <4>2 DEF BrokenOut
      <4>4. ciphertext.lo \in InFlightOut
        BY <2>3, <2>4, <4>1, <4>3 DEF InFlightOut
      <4> QED
        BY <2>4, <4>4, OutWaiting
    <3> QED
      BY <2>3, <2>4, <3>1 DEF DestroyedOut
  <2>6. \A e \in BrokenOut' : e = i \/ e \in BrokenOut
    BY <2>3 DEF BrokenOut
  <2> QED
    BY <2>2, <2>5, <2>6, DestroyedGrows DEF BrokenInv
<1>3. ASSUME NEW s \in Entry, StrayWrite(s) PROVE BrokenInv'
  <2>1. /\ UNCHANGED <<in_bitmap, out_bitmap, pc, i, ciphertext, in_sent, in_got, out_sent, out_got>>
        /\ \A e \in Entry : e # s => in_slot'[e] = in_slot[e] /\ out_slot'[e] = out_slot[e]
    BY <1>3 DEF StrayWrite, enclave, in_hist, out_hist, IInv, TypeOK
  <2>2. \A e \in Entry : e # s => View(e)' = View(e)
    BY <2>1 DEF View
  <2>3. ASSUME s \in BrokenIn', s \notin BrokenIn PROVE View(s).lo \in DestroyedIn'
    <3> DEFINE m == View(s).lo
    <3>1. in_bitmap[s] = IN_SGX /\ Verifies(View(s)) /\ ~Verifies(View(s)')
      BY <2>1, <2>3 DEF BrokenIn
    <3>2. View(s) \in Packet
      BY <1>0 DEF TypeOK, View, Packet
    <3>3. m \in Message /\ View(s) = Encrypt(m)
      BY <3>1, <3>2, VerifiesEncrypt
    <3>4. m \in InFlightIn
      BY <3>1, <3>3 DEF InFlightIn
    <3>5. ASSUME m \in InFlightIn' PROVE FALSE
      <4>1. PICK e \in Entry : in_bitmap'[e] = IN_SGX /\ View(e)' = Encrypt(m)
        BY <3>5 DEF InFlightIn
      <4>2. Verifies(Encrypt(m))
        BY <3>1, <3>3
      <4>3. e # s
        BY <3>1, <4>1, <4>2
      <4>4. in_bitmap[e] = IN_SGX /\ View(e) = View(s)
        BY <2>1, <2>2, <3>3, <4>1, <4>3
      <4>5. InView[e] = InView[s] /\ Verifies(InView[e])
        BY <3>1, <4>4 DEF InView
      <4> QED
        BY <3>1, <4>3, <4>4, <4>5, InWaiting DEF Single
    <3>6. m \in in_sent /\ in_got[m] = 0
      BY <3>4, InWaiting
    <3> QED
      BY <2>1, <3>5, <3>6 DEF DestroyedIn
  <2>4. ASSUME s \in BrokenOut', s \notin BrokenOut PROVE out_slot[s].lo \in DestroyedOut'
    <3> DEFINE m == out_slot[s].lo
    <3>1. out_bitmap[s] = OUT_SMM /\ Verifies(out_slot[s]) /\ ~Verifies(out_slot'[s])
      BY <2>1, <2>4 DEF BrokenOut
    <3>2. out_slot[s] \in Packet
      BY <1>0 DEF TypeOK
    <3>3. m \in Message /\ out_slot[s] = Encrypt(m)
      BY <3>1, <3>2, VerifiesEncrypt
    <3>4. m \in InFlightOut
      BY <3>1, <3>3 DEF InFlightOut
    <3>5. ASSUME m \in InFlightOut' PROVE FALSE
      <4>1. PICK e \in Entry : out_bitmap'[e] = OUT_SMM /\ out_slot'[e] = Encrypt(m)
        BY <3>5 DEF InFlightOut
      <4>2. e # s
        BY <3>1, <3>3, <4>1
      <4>3. out_bitmap[e] = OUT_SMM /\ out_slot[e] = out_slot[s]
        BY <2>1, <3>3, <4>1, <4>2
      <4> QED
        BY <3>1, <4>2, <4>3, OutWaiting DEF Single
    <3>6. m \in out_sent /\ out_got[m] = 0
      BY <3>4, OutWaiting
    <3> QED
      BY <2>1, <3>5, <3>6 DEF DestroyedOut
  <2>5. (\A e \in BrokenIn' : e = s \/ e \in BrokenIn) /\ (\A e \in BrokenOut' : e = s \/ e \in BrokenOut)
    BY <2>1, <2>2 DEF BrokenIn, BrokenOut
  <2> QED
    BY <2>3, <2>4, <2>5, DestroyedGrows DEF BrokenInv
<1> QED
  BY <1>1, <1>2, <1>3

\* Without stray writes no tag check fails.
LEMMA AuthStep ==
  ASSUME IInv, LossInv, BrokenInv, AuthInv, [Next]_vars
  PROVE  AuthInv'
<1> SUFFICES ASSUME faults' = 0 PROVE ~auth_failed'
  BY DEF AuthInv
<1>1. faults = 0
  <2>1. faults \in Nat
    BY DEF IInv, TypeOK
  <2>2. (\E s \in Entry : StrayWrite(s)) \/ faults' = faults
    BY DEF Next, SmmStep, EnclaveStep, vars, init_ring_buffer, put_in_buffer, get_out_buffer,
         put_out_buffer, put_out_scan, put_out_copy, put_out_flip, get_in_buffer, get_in_scan,
         get_in_copy, get_in_decrypt, get_in_flip, UnchangedByEnclave
  <2> QED
    BY <2>1, <2>2 DEF StrayWrite
<1>2. ~auth_failed /\ BrokenIn = {} /\ BrokenOut = {}
  BY <1>1, WholeWithoutFaults DEF AuthInv
<1>3. CASE get_out_buffer
  BY <1>2, <1>3 DEF get_out_buffer, IsLowest, BrokenOut
<1>4. CASE get_in_decrypt
  <2>1. i \in Entry /\ in_bitmap[i] = IN_SGX /\ pc = "get_decrypt"
    BY <1>4 DEF get_in_decrypt, IInv, OwnerInv, HoldsIn, TypeOK
  <2>2. Verifies(View(i))
    BY <1>2, <2>1 DEF BrokenIn
  <2>3. Verifies(ciphertext)
    BY <2>1, <2>2 DEF View, Verifies
  <2> QED
    BY <1>2, <1>4, <2>3 DEF get_in_decrypt
<1>5. CASE ~get_out_buffer /\ ~get_in_decrypt
  <2>1. auth_failed' = auth_failed
    BY <1>5 DEF Next, SmmStep, EnclaveStep, vars, init_ring_buffer, put_in_buffer, StrayWrite,
         put_out_buffer, put_out_scan, put_out_copy, put_out_flip, get_in_buffer, get_in_scan,
         get_in_copy, get_in_flip
  <2> QED
    BY <1>2, <2>1
<1> QED
  BY <1>3, <1>4, <1>5

-----------------------------------------------------------------------------
(* The theorems about losses. *)

\* The inductive invariant of the theorems below.
FInv == IInv /\ CopyInv /\ LossInv /\ BrokenInv /\ AuthInv

\* The page as aurora_init leaves it has lost nothing.
LEMMA InitFull == Init => FInv
<1> SUFFICES ASSUME Init PROVE FInv
  OBVIOUS
<1>1. IInv
  BY InitInv
<1>2. CopyInv /\ ~Damaged
  BY DEF Init, CopyInv, Damaged
<1>3. LossInv
  <2>1. DestroyedIn = {} /\ DestroyedOut = {}
    BY DEF Init, DestroyedIn, DestroyedOut
  <2>2. IsFiniteSet({}) /\ Cardinality({}) = 0
    BY FS_EmptySet
  <2>3. in_sent = {} /\ out_sent = {} /\ faults = 0
    BY DEF Init
  <2> QED
    BY <1>2, <2>1, <2>2, <2>3 DEF LossInv, Doomed
<1>4. AuthInv
  BY DEF Init, AuthInv
<1>5. BrokenInv
  BY DEF Init, BrokenInv, BrokenIn, BrokenOut, IN_SMM, IN_SGX, OUT_SMM
<1> QED
  BY <1>1, <1>2, <1>3, <1>4, <1>5 DEF FInv

\* Every operation preserves the invariant and is one of the steps that Effect allows.
LEMMA StepFull == FInv /\ [Next]_vars => FInv' /\ Effect
<1> SUFFICES ASSUME FInv, [Next]_vars PROVE FInv' /\ Effect
  OBVIOUS
<1>1. IInv /\ CopyInv /\ LossInv /\ BrokenInv /\ AuthInv
  BY DEF FInv
<1>2. IInv'
  BY <1>1, StepInv
<1>3. Effect
  BY <1>1, StepEffect
<1>4. CopyInv' /\ LossInv' /\ BrokenInv' /\ AuthInv'
  BY <1>1, <1>2, <1>3, CopyStep, LossStep, BrokenStep, AuthStep
<1> QED
  BY <1>2, <1>3, <1>4 DEF FInv

\* The losses are bounded in every state of the channel.
THEOREM FullInvariance == Spec => []FInv
<1>1. FInv /\ [Next]_vars => FInv'
  BY StepFull
<1> QED
  BY <1>1, InitFull, PTL DEF Spec

\* Without stray writes put_in_buffer and put_out_buffer lose nothing: an accepted message
\* is in the page or was returned, never both, and no tag check of a reader fails.
THEOREM NothingLostTheorem == Spec => []NothingLost
<1>1. FInv => NothingLost
  <2> SUFFICES ASSUME FInv, faults = 0 PROVE NothingLost
    BY DEF NothingLost
  <2>0. IInv /\ LossInv /\ AuthInv
    BY DEF FInv
  <2>1. ~auth_failed
    BY <2>0 DEF AuthInv
  <2>2. DestroyedIn = {} /\ DestroyedOut = {}
    <3>1. Cardinality(DestroyedIn) = 0 /\ Cardinality(DestroyedOut) = 0
      BY <2>0, LossNumbers DEF LossInv
    <3> QED
      BY <2>0, <3>1, LossNumbers, FS_EmptySet
  <2>3. ASSUME NEW m \in Message
        PROVE  /\ m \in in_sent <=> m \in InFlightIn \/ in_got[m] = 1
               /\ m \in InFlightIn => in_got[m] = 0
    <3>1. in_got[m] \in {0, 1} /\ (in_got[m] = 1 => m \in in_sent)
      BY <2>0 DEF IInv, InInv, TypeOK
    <3>2. m \in InFlightIn => m \in in_sent /\ in_got[m] = 0
      BY <2>0, InWaiting
    <3> QED
      BY <2>2, <3>1, <3>2 DEF DestroyedIn
  <2>4. ASSUME NEW m \in Message
        PROVE  /\ m \in out_sent <=> m \in InFlightOut \/ out_got[m] = 1
               /\ m \in InFlightOut => out_got[m] = 0
    <3>1. out_got[m] \in {0, 1} /\ (out_got[m] = 1 => m \in out_sent)
      BY <2>0 DEF IInv, OutInv, TypeOK
    <3>2. m \in InFlightOut => m \in out_sent /\ out_got[m] = 0
      BY <2>0, OutWaiting
    <3> QED
      BY <2>2, <3>1, <3>2 DEF DestroyedOut
  <2> QED
    BY <2>1, <2>3, <2>4 DEF NothingLost
<1> QED
  BY <1>1, FullInvariance, PTL

\* A direction in which d messages were destroyed has lost at most d * MaxEntry: only a
\* broken packet blocks others, and it takes an entry itself.
LEMMA BlockedBound ==
  ASSUME NEW B, NEW b, NEW t, NEW o, B \subseteq Content(b, t, o),
         NEW d \in Nat,
         B # {} => d > 0 /\ \E e \in Entry : ~Verifies(t[e])
  PROVE  Cardinality(B) \in Nat /\ d + Cardinality(B) <= d * MaxEntry
<1>0. MaxEntry \in Nat /\ MaxEntry > 0
  BY MaxEntryAssumption
<1>1. CASE B = {}
  <2>1. Cardinality(B) = 0
    BY <1>1, FS_EmptySet
  <2>2. d <= d * MaxEntry
    BY <1>0, SMTT(30)
  <2> QED
    BY <2>1, <2>2
<1>2. CASE B # {}
  <2>1. PICK e \in Entry : ~Verifies(t[e])
    BY <1>2
  <2> DEFINE C == Content(b, t, o)
  <2>2. IsFiniteSet(C) /\ Cardinality(C) < MaxEntry
    BY <2>1, ContentRoom
  <2> HIDE DEF C
  <2>3. IsFiniteSet(B) /\ Cardinality(B) <= Cardinality(C)
    BY <2>2, FS_Subset DEF C
  <2>4. Cardinality(B) \in Nat /\ Cardinality(C) \in Nat
    BY <2>2, <2>3, FS_CardinalityType
  <2> DEFINE k == Cardinality(B)
  <2>5. k \in Nat /\ k <= MaxEntry - 1
    BY <1>0, <2>2, <2>3, <2>4
  <2> HIDE DEF k
  <2>6. d * MaxEntry = d + d * (MaxEntry - 1)
    BY <1>0, SMTT(30)
  <2>7. MaxEntry - 1 <= d * (MaxEntry - 1)
    <3>1. MaxEntry - 1 \in Nat /\ d - 1 \in Nat
      BY <1>0, <1>2
    <3>2. d * (MaxEntry - 1) = (MaxEntry - 1) + (d - 1) * (MaxEntry - 1)
      BY <3>1, SMTT(30)
    <3>3. (d - 1) * (MaxEntry - 1) \in Nat
      BY <3>1, SMTT(30)
    <3> QED
      BY <3>1, <3>2, <3>3
  <2>8. d * (MaxEntry - 1) \in Nat
    BY <1>0, SMTT(30)
  <2>9. d + k <= d * MaxEntry
    BY <1>0, <2>5, <2>6, <2>7, <2>8
  <2> QED
    BY <2>4, <2>9 DEF k
<1> QED
  BY <1>1, <1>2

\* A stray write destroys at most one message, wherever between the copies and the owner
\* bytes it hits, and the packet it breaks, which every later get finds first, blocks at
\* most the other entries of its direction (ring_buffer.c 175-180): for any ring size.
THEOREM LossTheorem == Spec => []LossBounded
<1>1. FInv => Destroyed <= faults /\ Lost <= faults * MaxEntry
  <2> SUFFICES ASSUME FInv PROVE Destroyed <= faults /\ Lost <= faults * MaxEntry
    OBVIOUS
  <2> DEFINE di == Cardinality(DestroyedIn)
             do == Cardinality(DestroyedOut)
             bi == Cardinality(BlockedIn)
             bo == Cardinality(BlockedOut)
  <2>1. LossInv /\ BrokenInv /\ faults \in Nat
    BY DEF FInv, IInv, TypeOK
  <2>2. di \in Nat /\ do \in Nat /\ di + do <= faults
    BY <2>1, LossNumbers DEF LossInv
  <2>3. (DestroyedIn # {} => di > 0) /\ (DestroyedOut # {} => do > 0)
    <3>1. (di = 0 => DestroyedIn = {}) /\ (do = 0 => DestroyedOut = {})
      BY <2>1, LossNumbers, FS_EmptySet
    <3> QED
      BY <2>2, <3>1
  <2>4. bi \in Nat /\ di + bi <= di * MaxEntry
    <3>1. BlockedIn \subseteq Content(in_bitmap, InView, IN_SGX)
      BY InFlightContent DEF BlockedIn
    <3>2. BlockedIn # {} => BrokenIn # {} /\ \E e \in Entry : ~Verifies(InView[e])
      BY DEF BlockedIn, BrokenIn, InView
    <3>3. BlockedIn # {} => di > 0 /\ \E e \in Entry : ~Verifies(InView[e])
      BY <2>1, <2>3, <3>2 DEF BrokenInv
    <3> HIDE DEF di
    <3> QED
      BY <2>2, <3>1, <3>3, BlockedBound
  <2>5. bo \in Nat /\ do + bo <= do * MaxEntry
    <3>1. BlockedOut \subseteq Content(out_bitmap, out_slot, OUT_SMM)
      BY InFlightContent DEF BlockedOut
    <3>2. BlockedOut # {} => BrokenOut # {} /\ \E e \in Entry : ~Verifies(out_slot[e])
      BY DEF BlockedOut, BrokenOut
    <3>3. BlockedOut # {} => do > 0 /\ \E e \in Entry : ~Verifies(out_slot[e])
      BY <2>1, <2>3, <3>2 DEF BrokenInv
    <3> HIDE DEF do
    <3> QED
      BY <2>2, <3>1, <3>3, BlockedBound
  <2>6. Destroyed = di + do /\ Lost = di + do + bi + bo
    BY DEF Destroyed, Lost
  <2> HIDE DEF di, do, bi, bo
  <2>7. di * MaxEntry + do * MaxEntry <= faults * MaxEntry
    <3>1. MaxEntry \in Nat /\ faults - (di + do) \in Nat
      BY <2>1, <2>2, MaxEntryAssumption
    <3>2. (faults - (di + do)) * MaxEntry \in Nat
      BY <3>1, SMTT(30)
    <3>3. faults * MaxEntry = di * MaxEntry + do * MaxEntry + (faults - (di + do)) * MaxEntry
      BY <2>1, <2>2, <3>1, SMTT(30)
    <3>4. di * MaxEntry \in Nat /\ do * MaxEntry \in Nat
      BY <2>2, <3>1, SMTT(30)
    <3> QED
      BY <3>2, <3>3, <3>4
  <2>8. di * MaxEntry \in Nat /\ do * MaxEntry \in Nat /\ faults * MaxEntry \in Nat
    BY <2>1, <2>2, MaxEntryAssumption, SMTT(30)
  <2> QED
    BY <2>1, <2>2, <2>4, <2>5, <2>6, <2>7, <2>8
<1> QED
  BY <1>1, FullInvariance, NothingLostTheorem, PTL DEF LossBounded

-----------------------------------------------------------------------------
(* The refinement of the abstract channel. *)

\* A step of the program is a step of the abstract IN channel, or leaves it alone.
LEMMA InRefines ==
  ASSUME FInv, [Next]_vars
  PROVE  [InChannel!Next]_(InChannel!vars)
<1>1. Effect /\ faults \in Nat
  BY StepFull DEF FInv, IInv, TypeOK
<1>2. ASSUME InKept, faults' = faults PROVE UNCHANGED InChannel!vars
  BY <1>2 DEF InKept, InChannel!vars
<1>3. ASSUME InKept, faults' = faults + 1 PROVE InChannel!Fault
  BY <1>3 DEF InKept, InChannel!Fault
<1>4. ASSUME NEW m \in Message, InSend(m), faults' = faults PROVE InChannel!Send(m)
  BY <1>4 DEF InSend, InChannel!Send, InChannel!Cardinality, Cardinality
<1>5. ASSUME NEW m \in Message, InReceive(m), faults' = faults PROVE InChannel!Receive(m)
  BY <1>5 DEF InReceive, InChannel!Receive
<1>6. ASSUME NEW m \in Message, InLose(m), faults' = faults + 1 PROVE InChannel!Fault
  BY <1>6 DEF InLose, InChannel!Fault
<1> QED
  BY <1>1, <1>2, <1>3, <1>4, <1>5, <1>6 DEF Effect, Quiet, InChannel!Next

\* A step of the program is a step of the abstract OUT channel, or leaves it alone; a
\* damaged packet that is handed over is a Send whose message is lost.
LEMMA OutRefines ==
  ASSUME FInv, [Next]_vars
  PROVE  [OutChannel!Next]_(OutChannel!vars)
<1>1. Effect /\ faults \in Nat /\ LossInv
  BY StepFull DEF FInv, IInv, TypeOK
<1>2. ASSUME OutKept, faults' = faults PROVE UNCHANGED OutChannel!vars
  BY <1>2 DEF OutKept, OutChannel!vars
<1>3. ASSUME OutKept, faults' = faults + 1 PROVE OutChannel!Fault
  BY <1>3 DEF OutKept, OutChannel!Fault
<1>4. ASSUME NEW m \in Message, OutSend(m), faults' = faults PROVE OutChannel!Send(m)
  BY <1>4 DEF OutSend, OutChannel!Send, OutChannel!Cardinality, Cardinality
<1>5. ASSUME NEW m \in Message, OutReceive(m), faults' = faults PROVE OutChannel!Receive(m)
  BY <1>5 DEF OutReceive, OutChannel!Receive
<1>6. ASSUME NEW m \in Message, OutLose(m), faults' = faults + 1 PROVE OutChannel!Fault
  BY <1>6 DEF OutLose, OutChannel!Fault
<1>7. ASSUME NEW m \in Message, OutSpoilt(m), faults' = faults PROVE OutChannel!Send(m)
  <2>1. Doomed = 1
    BY <1>7 DEF OutSpoilt, Doomed
  <2>2. faults > 0
    BY <1>1, <2>1, LossNumbers DEF LossInv
  <2> QED
    BY <1>7, <2>2 DEF OutSpoilt, OutChannel!Send, OutChannel!Cardinality, Cardinality
<1> QED
  BY <1>1, <1>2, <1>3, <1>4, <1>5, <1>6, <1>7 DEF Effect, Quiet, OutChannel!Next

\* Before init_ring_buffer both channels are empty.
LEMMA InitChannels == Init => InChannel!Init /\ OutChannel!Init
BY DEF Init, InChannel!Init, OutChannel!Init, InFlightIn, InFlightOut, IN_SMM, IN_SGX, OUT_SMM

\* put_in_buffer and get_in_buffer implement the bounded channel that only stray writes
\* make lose messages, for every number of entries and messages.
THEOREM InChannelTheorem == Spec => InRefinesChannel
<1>1. FInv /\ [Next]_vars => [InChannel!Next]_(InChannel!vars)
  BY InRefines
<1>2. Init => InChannel!Init
  BY InitChannels
<1> QED
  BY <1>1, <1>2, FullInvariance, PTL DEF Spec, InRefinesChannel, InChannel!Spec

\* So do put_out_buffer and get_out_buffer.
THEOREM OutChannelTheorem == Spec => OutRefinesChannel
<1>1. FInv /\ [Next]_vars => [OutChannel!Next]_(OutChannel!vars)
  BY OutRefines
<1>2. Init => OutChannel!Init
  BY InitChannels
<1> QED
  BY <1>1, <1>2, FullInvariance, PTL DEF Spec, OutRefinesChannel, OutChannel!Spec
=============================================================================
