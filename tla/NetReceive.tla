------------------------------ MODULE NetReceive ------------------------------
(***************************************************************************)
(* The network path: the SMM supervisor of the network build (supervisor.c *)
(* and pcnet32.c), which takes the frames of an enclave out of the receive *)
(* ring that the OS driver also uses, the UIO relay, and the lwIP enclave  *)
(* (low_level_output, sgx_arch_waiting_fn, udp_server).  The NIC is QEMU's *)
(* pcnet.c.                                                                *)
(*                                                                         *)
(* One SMI is one step; a frame that the NIC stores during it could as     *)
(* well have come before or after.  The SMI pending bit is one latch for   *)
(* the NIC and the software SMI; a pending SMI goes before an interrupt    *)
(* and both go before the client.                                          *)
(***************************************************************************)
EXTENDS Naturals, FiniteSets

CONSTANTS
  EnclaveFrame,  \* frames marked for the enclave by their IP options and
                 \* received with status 0x340: whole, for the NIC's own address
  OsFrame,       \* all other frames
  None,          \* an IN entry that belongs to the supervisor
  Nic, Cleared,  \* a descriptor that the NIC owns, and one zeroed by the SMI
  RxRingSize,    \* RX_RING_SIZE
  MaxEntry,      \* MAX_ENTRY
  MaxTx          \* bound on frames the OS transmits

Frame == EnclaveFrame \cup OsFrame

ASSUME FrameAssumption ==
  EnclaveFrame \cap OsFrame = {} /\ Frame \cap {None, Nic, Cleared} = {} /\ Nic # Cleared
ASSUME RingAssumption == RxRingSize \in Nat \ {0} /\ MaxEntry \in Nat \ {0}
ASSUME MaxTxAssumption == MaxTx \in Nat

Rx == 0 .. RxRingSize - 1
Entry == 0 .. MaxEntry - 1

VARIABLES
  rx_ring, nic_next,   \* the receive descriptors, the next one the NIC fills
  rxint, txint, tx,    \* RINT and TINT of CSR0, frames transmitted so far
  smi,                 \* an SMI is pending
  nic_irq,             \* vector 0x3b is pending: the OS handler of the NIC
  route,               \* I/O APIC entry of the NIC: "OS" or "SMI"
  os_next, os_pc,      \* the OS driver: its descriptor index, what it does
  isFirstPhrase,
  in_ring,             \* the IN packets that belong to the enclave
  out_free,            \* OUT entries the enclave may fill
  ipi, event,          \* vector 0x3a pending, UIO event not yet read
  pc,                  \* the lwIP enclave
  os_got, sgx_got, dropped,   \* history: who received a frame
  both                 \* history: frames dispatched that the OS had taken

nic == <<rx_ring, nic_next, rxint, txint, tx>>
os == <<os_next, os_pc, os_got>>
smm == <<route, isFirstPhrase, dropped, both>>
client == <<pc, sgx_got>>
shm == <<in_ring, out_free>>
vars == <<nic, smi, nic_irq, os, smm, shm, ipi, event, client>>

\* The registers, rings and indices have values the code and the NIC can give them.
TypeOK ==
  /\ rx_ring \in [Rx -> Frame \cup {Nic, Cleared}]
  /\ nic_next \in Rx /\ os_next \in Rx
  /\ rxint \in BOOLEAN /\ txint \in BOOLEAN /\ tx \in 0 .. MaxTx
  /\ smi \in BOOLEAN /\ nic_irq \in BOOLEAN /\ ipi \in BOOLEAN /\ event \in BOOLEAN
  /\ route \in {"OS", "SMI"} /\ os_pc \in {"idle", "drain", "rearm"}
  /\ isFirstPhrase \in BOOLEAN
  /\ in_ring \in [Entry -> EnclaveFrame \cup {None}]
  /\ out_free \in 0 .. MaxEntry
  /\ pc \in {"output", "poll", "get"}
  /\ os_got \in [Frame -> Nat] /\ sgx_got \in [Frame -> Nat]
  /\ dropped \subseteq EnclaveFrame /\ both \subseteq EnclaveFrame

\* netif_set_up announces the address: the first thing the enclave does is output,
\* into a page that the supervisor has not formatted yet.
Init ==
  /\ rx_ring = [d \in Rx |-> Nic] /\ nic_next = 0
  /\ rxint = FALSE /\ txint = FALSE /\ tx = 0
  /\ smi = FALSE /\ nic_irq = FALSE /\ route = "OS"
  /\ os_next = 0 /\ os_pc = "idle"
  /\ isFirstPhrase = TRUE
  /\ in_ring = [e \in Entry |-> None] /\ out_free = 0
  /\ ipi = FALSE /\ event = FALSE
  /\ pc = "output"
  /\ os_got = [f \in Frame |-> 0] /\ sgx_got = [f \in Frame |-> 0] /\ dropped = {} /\ both = {}

-----------------------------------------------------------------------------
(* The NIC: its interrupt line is high while RINT or TINT is set, and only a *)
(* rising line interrupts.                                                   *)

Raise ==
  LET edge == ~rxint /\ ~txint
  IN  /\ smi' = (smi \/ (edge /\ route = "SMI"))
      /\ nic_irq' = (nic_irq \/ (edge /\ route = "OS"))

Arrived(f) ==
  \/ \E d \in Rx : rx_ring[d] = f
  \/ \E e \in Entry : in_ring[e] = f
  \/ os_got[f] + sgx_got[f] > 0
  \/ f \in dropped

NicReceive(f) ==
  /\ ~Arrived(f)
  /\ rx_ring[nic_next] = Nic
  /\ rx_ring' = [rx_ring EXCEPT ![nic_next] = f]
  /\ nic_next' = (nic_next + 1) % RxRingSize
  /\ rxint' = TRUE
  /\ Raise
  /\ UNCHANGED <<txint, tx, os, smm, shm, ipi, event, client>>

NicTransmit ==
  /\ tx < MaxTx
  /\ tx' = tx + 1
  /\ txint' = TRUE
  /\ Raise
  /\ UNCHANGED <<rx_ring, nic_next, rxint, os, smm, shm, ipi, event, client>>

(* The OS driver of the NIC: acknowledge, then take what is in the ring; a   *)
(* descriptor is given back to the NIC after its frame was passed on.        *)

OsIsr ==
  /\ nic_irq /\ ~smi
  /\ nic_irq' = FALSE
  /\ rxint' = FALSE /\ txint' = FALSE
  /\ os_pc' = IF os_pc = "idle" /\ (rxint \/ txint) THEN "drain" ELSE os_pc
  /\ UNCHANGED <<rx_ring, nic_next, tx, smi, os_next, os_got, smm, shm, ipi, event, client>>

OsTake ==
  /\ os_pc = "drain" /\ ~smi /\ ~nic_irq
  /\ \/ rx_ring[os_next] = Nic /\ os_pc' = "idle" /\ UNCHANGED os_got
     \/ /\ rx_ring[os_next] # Nic /\ os_pc' = "rearm"
        /\ os_got' = [f \in Frame |-> IF f = rx_ring[os_next] THEN os_got[f] + 1 ELSE os_got[f]]
  /\ UNCHANGED <<nic, os_next, smi, nic_irq, smm, shm, ipi, event, client>>

OsRearm ==
  /\ os_pc = "rearm" /\ ~smi /\ ~nic_irq
  /\ os_pc' = "drain"
  /\ rx_ring' = [rx_ring EXCEPT ![os_next] = Nic]
  /\ os_next' = (os_next + 1) % RxRingSize
  /\ UNCHANGED <<nic_next, rxint, txint, tx, os_got, smi, nic_irq, smm, shm, ipi, event, client>>

\* The OS has taken the frame of d and not yet given d back.
OsHas(d) == os_pc = "rearm" /\ d = os_next

-----------------------------------------------------------------------------
(* The supervisor. *)

\* Mutant: the search for an IN entry stops one entry early.
MutantShortFree == {e \in 0 .. MaxEntry - 2 : in_ring[e] = None}

Free == {e \in Entry : in_ring[e] = None}

\* The descriptors with status 0x340 whose frame is marked, also one that the OS
\* has taken but not yet given back: its status is the same.
Hits == {d \in Rx : rx_ring[d] \in EnclaveFrame}
Rank(S, x) == Cardinality({y \in S : y < x})

\* Mutant: the descriptor of a dispatched frame is not cleared.
MutantKeepDescriptors == UNCHANGED rx_ring

\* Mutant: every full descriptor that the scan looks at is cleared.
MutantClearAll == rx_ring' = [d \in Rx |-> IF rx_ring[d] \in Frame THEN Cleared ELSE rx_ring[d]]

ClearDescriptors == rx_ring' = [d \in Rx |-> IF d \in Hits THEN Cleared ELSE rx_ring[d]]

\* All descriptors in order, each marked frame to the lowest free IN entry.  The
\* result of put_in_buffer is ignored: without a free entry the frame is gone.
process_rx_packets ==
  /\ ClearDescriptors
  /\ in_ring' = [e \in Entry |->
       IF e \in Free /\ \E d \in Hits : Rank(Hits, d) = Rank(Free, e)
       THEN rx_ring[CHOOSE d \in Hits : Rank(Hits, d) = Rank(Free, e)]
       ELSE in_ring[e]]
  /\ dropped' = dropped \cup {rx_ring[d] : d \in {h \in Hits : Rank(Hits, h) >= Cardinality(Free)}}
  /\ both' = both \cup {rx_ring[d] : d \in {h \in Hits : OsHas(h)}}
  /\ ipi' = (ipi \/ Hits # {})

FirstPhrase ==
  /\ isFirstPhrase
  /\ isFirstPhrase' = FALSE
  /\ in_ring' = [e \in Entry |-> None] /\ out_free' = MaxEntry
  /\ route' = "SMI"
  /\ UNCHANGED <<rx_ring, nic_irq, dropped, both, ipi>>

\* Mutant: the interrupt is not handed on to the OS.
MutantNoForward == UNCHANGED nic_irq

Forward == nic_irq' = TRUE

\* pcnet32_handler, then the interrupt is handed on to the OS.  The frames the
\* enclave put out are not looked at (the call is commented out in this build).
NicPhrase ==
  /\ ~isFirstPhrase
  /\ IF rxint THEN process_rx_packets ELSE UNCHANGED <<rx_ring, in_ring, dropped, both, ipi>>
  /\ Forward
  /\ UNCHANGED <<isFirstPhrase, route, out_free>>

supervisor ==
  /\ smi /\ smi' = FALSE
  /\ FirstPhrase \/ NicPhrase
  /\ UNCHANGED <<nic_next, rxint, txint, tx, os, event, client>>

-----------------------------------------------------------------------------
(* The UIO relay and the enclave. *)

\* Mutant: the handler takes the interrupt for another device's.
MutantIrqNone == UNCHANGED event

uio_event_notify == event' = TRUE

irq_handler ==
  /\ ipi /\ ~smi
  /\ ipi' = FALSE
  /\ uio_event_notify
  /\ UNCHANGED <<nic, smi, nic_irq, os, smm, shm, client>>

Running == ~smi /\ ~nic_irq /\ ~ipi /\ os_pc = "idle"

\* Mutant: the search for an OUT entry does not stop at the end.
MutantNoRoomTest == out_free' = out_free - 1

put_out_buffer ==
  \/ out_free > 0 /\ out_free' = out_free - 1
  \/ out_free = 0 /\ UNCHANGED out_free

\* The result of put_out_buffer is ignored; ocall_smi raises the software SMI.
low_level_output ==
  /\ Running
  /\ pc = "output" /\ pc' = "poll"
  /\ put_out_buffer
  /\ smi' = TRUE
  /\ UNCHANGED <<nic, nic_irq, os, smm, in_ring, ipi, event, sgx_got>>

uio_poll ==
  /\ Running
  /\ pc = "poll" /\ pc' = "get"
  /\ event /\ event' = FALSE
  /\ UNCHANGED <<nic, smi, nic_irq, os, smm, shm, ipi, sgx_got>>

\* select fails, for instance when a signal arrives.
uio_poll_error ==
  /\ Running
  /\ pc = "poll" /\ pc' = "get"
  /\ UNCHANGED <<nic, smi, nic_irq, os, smm, shm, ipi, event, sgx_got>>

Ready == {e \in Entry : in_ring[e] # None}

\* One get_in_buffer per poll.  The stack gives the packet to the server, which
\* answers, or to nobody.
waiting_fn_get ==
  /\ Running
  /\ pc = "get"
  /\ \/ /\ Ready = {}
        /\ pc' = "poll"
        /\ UNCHANGED <<in_ring, sgx_got>>
     \/ \E e \in Ready :
          /\ Rank(Ready, e) = 0
          /\ in_ring' = [in_ring EXCEPT ![e] = None]
          /\ sgx_got' = [sgx_got EXCEPT ![in_ring[e]] = @ + 1]
          /\ pc' \in {"output", "poll"}
  /\ UNCHANGED <<nic, smi, nic_irq, os, smm, out_free, ipi, event>>

Next ==
  \/ \E f \in Frame : NicReceive(f)
  \/ NicTransmit
  \/ OsIsr \/ OsTake \/ OsRearm
  \/ supervisor
  \/ irq_handler
  \/ low_level_output \/ uio_poll \/ uio_poll_error \/ waiting_fn_get

Spec == Init /\ [][Next]_vars

\* The CPU keeps running and serves what is pending; nothing promises that
\* frames arrive, that the OS transmits or that select fails.
FairSpec ==
  /\ Spec
  /\ WF_vars(supervisor) /\ WF_vars(OsIsr) /\ WF_vars(OsTake) /\ WF_vars(OsRearm) /\ WF_vars(irq_handler)
  /\ WF_vars(low_level_output) /\ WF_vars(uio_poll) /\ WF_vars(waiting_fn_get)

-----------------------------------------------------------------------------
(* Properties. *)

\* Every frame that arrived is in exactly one place: a receive descriptor that the OS has
\* not taken, the IN ring, with the OS, with the enclave, or dropped.  Only a marked frame
\* that the scan meets between the OS driver's taking it and giving its descriptor back
\* goes to both sides, once to each.
OnePlace ==
  \A f \in Frame :
    Arrived(f) => Cardinality({d \in Rx : rx_ring[d] = f /\ ~OsHas(d)})
                  + Cardinality({e \in Entry : in_ring[e] = f})
                  + os_got[f] + sgx_got[f] + (IF f \in dropped THEN 1 ELSE 0)
                  = IF f \in both THEN 2 ELSE 1

\* No frame vanishes: one that has arrived stays in the receive ring or the IN ring
\* until a driver or the enclave has it, or the SMI handler counts it as dropped.
NoFrameVanishes == [][\A f \in Frame : Arrived(f) => Arrived(f)']_vars

\* A marked frame is lost only by an SMI that leaves the IN ring full.
DropOnlyWhenFull ==
  [][dropped' # dropped => \A e \in Entry : in_ring'[e] # None]_vars

\* The OS will look at every descriptor that waits for it: as long as the NIC does not own
\* one, the handler is at work or the SMI or interrupt that leads to it is pending, although
\* edges are lost, SMIs merge and the first of them reroutes the interrupt.
OsWillLook == (\E d \in Rx : rx_ring[d] # Nic) => smi \/ nic_irq \/ os_pc # "idle"

\* The OS keeps its network although its interrupt is taken away: an ordinary
\* frame reaches it, whatever SMIs, acknowledgements and lost edges come between.
OsFramesArrive ==
  \A f \in OsFrame : (\E d \in Rx : rx_ring[d] = f) ~> (os_got[f] = 1)

\* A pending notification makes the enclave take the frame in the first entry:
\* no coalescing of interrupts or of UIO events leaves it there.
NotificationServed ==
  \A f \in EnclaveFrame : ((ipi \/ event) /\ in_ring[0] = f) ~> (in_ring[0] # f)
=============================================================================
