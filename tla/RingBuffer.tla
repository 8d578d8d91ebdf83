------------------------------ MODULE RingBuffer ------------------------------
(***************************************************************************)
(* The shared-memory channel between the SMM supervisor and an SGX enclave *)
(* (seabios-*/src/fw/supervisor/ring_buffer.c on the SMM side and          *)
(* Enclave/ring_buffer.cpp on the enclave side).                           *)
(*                                                                         *)
(* An SMI stops the only CPU, so each SMM operation is one step.  The      *)
(* enclave can be interrupted by an SMI between any two of its accesses to *)
(* the shared page, so its operations are split at every such access: each *)
(* bitmap byte read, the two halves of each memcpy, and the final byte     *)
(* that turns the ownership.                                               *)
(***************************************************************************)
EXTENDS Naturals, FiniteSets

CONSTANTS
  MaxEntry,   \* MAX_ENTRY, the number of slots of each direction
  Message,    \* the messages; the model puts each of them at most once
  Junk,       \* bytes that are not part of any ciphertext
  MaxFaults   \* bound on stray writes into the untrusted shared page

ASSUME MaxEntryAssumption == MaxEntry \in Nat \ {0}
ASSUME JunkAssumption == Junk \notin Message
ASSUME MaxFaultsAssumption == MaxFaults \in Nat

IN_SMM  == 0
IN_SGX  == 1
OUT_SMM == 2
OUT_SGX == 3

Entry == 0 .. MaxEntry - 1

(***************************************************************************)
(* A packet in shared memory.  A ciphertext carries an AES-GCM tag, so two *)
(* halves authenticate only when they come from the same encryption.       *)
(***************************************************************************)
Half == Message \cup {Junk}
Packet == [lo : Half, hi : Half]

Encrypt(m) == [lo |-> m, hi |-> m]
Blank == Encrypt(Junk)
Verifies(c) == c.lo = c.hi /\ c.lo # Junk

VARIABLES
  in_bitmap, out_bitmap,  \* struct metadata
  in_slot, out_slot,      \* the IN and OUT packets behind it
  inited,                 \* init_ring_buffer has run (first SMI)
  pc, i, ciphertext,      \* the enclave thread: where it is, the loop index,
                          \* its private copy of a packet
  in_sent, in_refused, in_got,     \* history: put_in_buffer = 0, = -1, and
                                   \* how often get_in_buffer returned it
  out_sent, out_refused, out_got,  \* history: the same for OUT
  faults, auth_failed              \* stray writes so far; a tag check failed

in_shm == <<in_bitmap, in_slot>>
out_shm == <<out_bitmap, out_slot>>
enclave == <<pc, i, ciphertext>>
in_hist == <<in_sent, in_refused, in_got>>
out_hist == <<out_sent, out_refused, out_got>>
vars == <<in_shm, out_shm, inited, enclave, in_hist, out_hist, faults, auth_failed>>

GetPc == {"get_scan", "get_copy", "get_rest", "get_decrypt", "get_flip"}
PutPc == {"put_scan", "put_copy", "put_rest", "put_flip"}

\* Each bitmap byte, each packet and each local has a value the code can give it.
TypeOK ==
  /\ in_bitmap \in [Entry -> {IN_SMM, IN_SGX}]
  /\ out_bitmap \in [Entry -> {IN_SMM, OUT_SMM, OUT_SGX}]
  /\ in_slot \in [Entry -> Packet]
  /\ out_slot \in [Entry -> Packet]
  /\ inited \in BOOLEAN
  /\ pc \in {"idle"} \cup GetPc \cup PutPc
  /\ i \in 0 .. MaxEntry
  /\ pc \notin {"idle", "get_scan", "put_scan"} => i \in Entry
  /\ ciphertext \in Packet
  /\ in_sent \subseteq Message /\ in_refused \subseteq Message
  /\ out_sent \subseteq Message /\ out_refused \subseteq Message
  /\ in_got \in [Message -> Nat] /\ out_got \in [Message -> Nat]
  /\ faults \in 0 .. MaxFaults
  /\ auth_failed \in BOOLEAN

\* uio_aurora.c leaves the shared page zeroed: IN_SMM is 0, and an OUT byte of
\* 0 belongs to neither side until the supervisor has formatted the page.
Init ==
  /\ in_bitmap = [e \in Entry |-> IN_SMM]
  /\ out_bitmap = [e \in Entry |-> IN_SMM]
  /\ in_slot = [e \in Entry |-> Blank]
  /\ out_slot = [e \in Entry |-> Blank]
  /\ inited = FALSE
  /\ pc = "idle" /\ i = 0 /\ ciphertext = Blank
  /\ in_sent = {} /\ in_refused = {} /\ in_got = [m \in Message |-> 0]
  /\ out_sent = {} /\ out_refused = {} /\ out_got = [m \in Message |-> 0]
  /\ faults = 0 /\ auth_failed = FALSE

-----------------------------------------------------------------------------
(* SMM side: each operation runs inside one SMI. *)

init_ring_buffer ==
  /\ ~inited
  /\ inited' = TRUE
  /\ in_bitmap' = [e \in Entry |-> IN_SMM]
  /\ out_bitmap' = [e \in Entry |-> OUT_SGX]
  /\ in_slot' = [e \in Entry |-> Blank]
  /\ out_slot' = [e \in Entry |-> Blank]
  /\ UNCHANGED <<enclave, in_hist, out_hist, faults, auth_failed>>

\* Mutant: the search loop does not look at the owner byte.
MutantAnyEntry(bitmap, e, owner) == e = 0

\* The search loop of every operation: the lowest entry that holds the byte.
IsLowest(bitmap, e, owner) ==
  bitmap[e] = owner /\ \A f \in Entry : f < e => bitmap[f] # owner

\* ok: the length is in 0..MSG_SIZE and, in the builds that compile the test in
\* (network, storage), the message lies in SMRAM.
put_in_buffer(m, ok) ==
  /\ inited
  /\ m \notin in_sent \cup in_refused
  /\ \/ /\ ok
        /\ \E e \in Entry :
             /\ IsLowest(in_bitmap, e, IN_SMM)
             /\ in_slot' = [in_slot EXCEPT ![e] = Encrypt(m)]
             /\ in_bitmap' = [in_bitmap EXCEPT ![e] = IN_SGX]
        /\ in_sent' = in_sent \cup {m}
        /\ UNCHANGED in_refused
     \/ /\ ~ok \/ \A e \in Entry : in_bitmap[e] # IN_SMM
        /\ in_refused' = in_refused \cup {m}
        /\ UNCHANGED <<in_shm, in_sent>>
  /\ UNCHANGED <<in_got, out_shm, inited, enclave, out_hist, faults, auth_failed>>

\* A packet that fails authentication keeps its entry: the byte is not turned.
\* The returns that change nothing (no entry is ready, the caller's buffer is not
\* in SMRAM) are stuttering steps.
get_out_buffer ==
  /\ inited
  /\ \E e \in Entry :
       /\ IsLowest(out_bitmap, e, OUT_SMM)
       /\ \/ /\ Verifies(out_slot[e])
             /\ out_bitmap' = [out_bitmap EXCEPT ![e] = OUT_SGX]
             /\ out_got' = [out_got EXCEPT ![out_slot[e].lo] = @ + 1]
             /\ UNCHANGED auth_failed
          \/ /\ ~Verifies(out_slot[e])
             /\ auth_failed' = TRUE
             /\ UNCHANGED <<out_bitmap, out_got>>
  /\ UNCHANGED <<in_shm, out_slot, inited, enclave, in_hist, out_sent,
                 out_refused, faults>>

-----------------------------------------------------------------------------
(* Enclave side: put_out_buffer. *)

Goto(label) == pc' = label

UnchangedByEnclave == UNCHANGED <<inited, faults>>

put_out_buffer(m, ok) ==
  /\ pc = "idle"
  /\ m \notin out_sent \cup out_refused
  /\ \/ /\ ok
        /\ Goto("put_scan")
        /\ i' = 0
        /\ ciphertext' = Encrypt(m)
        /\ UNCHANGED out_refused
     \/ /\ ~ok
        /\ out_refused' = out_refused \cup {m}
        /\ UNCHANGED enclave
  /\ UNCHANGED <<in_shm, out_shm, in_hist, out_sent, out_got, auth_failed>>
  /\ UnchangedByEnclave

put_out_scan ==
  /\ pc = "put_scan"
  /\ \/ /\ i \in Entry /\ out_bitmap[i] = OUT_SGX
        /\ Goto("put_copy")
        /\ UNCHANGED <<i, out_refused>>
     \/ /\ i \in Entry /\ out_bitmap[i] # OUT_SGX
        /\ i' = i + 1
        /\ UNCHANGED <<pc, out_refused>>
     \/ /\ i = MaxEntry
        /\ Goto("idle")
        /\ out_refused' = out_refused \cup {ciphertext.lo}
        /\ UNCHANGED i
  /\ UNCHANGED <<in_shm, out_shm, ciphertext, in_hist, out_sent, out_got, auth_failed>>
  /\ UnchangedByEnclave

put_out_copy ==
  /\ \/ /\ pc = "put_copy" /\ Goto("put_rest")
        /\ out_slot' = [out_slot EXCEPT ![i].lo = ciphertext.lo]
     \/ /\ pc = "put_rest" /\ Goto("put_flip")
        /\ out_slot' = [out_slot EXCEPT ![i].hi = ciphertext.hi]
  /\ UNCHANGED <<in_shm, out_bitmap, i, ciphertext, in_hist, out_hist, auth_failed>>
  /\ UnchangedByEnclave

put_out_flip ==
  /\ pc = "put_flip" /\ Goto("idle")
  /\ out_bitmap' = [out_bitmap EXCEPT ![i] = OUT_SMM]
  /\ out_sent' = out_sent \cup {ciphertext.lo}
  /\ UNCHANGED <<in_shm, out_slot, i, ciphertext, in_hist, out_refused, out_got, auth_failed>>
  /\ UnchangedByEnclave

(* Enclave side: get_in_buffer. *)

get_in_buffer ==
  /\ pc = "idle" /\ Goto("get_scan")
  /\ i' = 0
  /\ UNCHANGED <<in_shm, out_shm, ciphertext, in_hist, out_hist, auth_failed>>
  /\ UnchangedByEnclave

get_in_scan ==
  /\ pc = "get_scan"
  /\ \/ /\ i \in Entry /\ in_bitmap[i] = IN_SGX
        /\ Goto("get_copy")
        /\ UNCHANGED i
     \/ /\ i \in Entry /\ in_bitmap[i] # IN_SGX
        /\ i' = i + 1
        /\ UNCHANGED pc
     \/ /\ i = MaxEntry
        /\ Goto("idle")
        /\ UNCHANGED i
  /\ UNCHANGED <<in_shm, out_shm, ciphertext, in_hist, out_hist, auth_failed>>
  /\ UnchangedByEnclave

get_in_copy ==
  /\ \/ /\ pc = "get_copy" /\ Goto("get_rest")
        /\ ciphertext' = [ciphertext EXCEPT !.lo = in_slot[i].lo]
     \/ /\ pc = "get_rest" /\ Goto("get_decrypt")
        /\ ciphertext' = [ciphertext EXCEPT !.hi = in_slot[i].hi]
  /\ UNCHANGED <<in_shm, out_shm, i, in_hist, out_hist, auth_failed>>
  /\ UnchangedByEnclave

get_in_decrypt ==
  /\ pc = "get_decrypt"
  /\ \/ /\ Verifies(ciphertext)
        /\ Goto("get_flip")
        /\ UNCHANGED auth_failed
     \/ /\ ~Verifies(ciphertext)
        /\ Goto("idle")
        /\ auth_failed' = TRUE
  /\ UNCHANGED <<in_shm, out_shm, i, ciphertext, in_hist, out_hist>>
  /\ UnchangedByEnclave

\* Mutant: the entry is never given back to the supervisor.
MutantNoFlipIn == UNCHANGED in_bitmap

\* Mutant: the byte is turned with the constant of the other bitmap.
MutantWrongByte == in_bitmap' = [in_bitmap EXCEPT ![i] = OUT_SMM]

\* The ownership is turned at the end.
GiveBackIn == in_bitmap' = [in_bitmap EXCEPT ![i] = IN_SMM]

get_in_flip ==
  /\ pc = "get_flip" /\ Goto("idle")
  /\ GiveBackIn
  /\ in_got' = [in_got EXCEPT ![ciphertext.lo] = @ + 1]
  /\ UNCHANGED <<in_slot, out_shm, i, ciphertext, in_sent, in_refused, out_hist, auth_failed>>
  /\ UnchangedByEnclave

-----------------------------------------------------------------------------
(* The page belongs to an untrusted OS: a stray write may hit a packet, and *)
(* only the tag check of the reader notices.                                *)
StrayWrite(e) ==
  /\ inited
  /\ faults < MaxFaults
  /\ faults' = faults + 1
  /\ \/ /\ \/ in_slot' = [in_slot EXCEPT ![e].lo = Junk]
           \/ in_slot' = [in_slot EXCEPT ![e].hi = Junk]
        /\ UNCHANGED out_slot
     \/ /\ \/ out_slot' = [out_slot EXCEPT ![e].lo = Junk]
           \/ out_slot' = [out_slot EXCEPT ![e].hi = Junk]
        /\ UNCHANGED in_slot
  /\ UNCHANGED <<in_bitmap, out_bitmap, inited, enclave, in_hist, out_hist, auth_failed>>

SmmStep ==
  \/ init_ring_buffer
  \/ \E m \in Message, ok \in BOOLEAN : put_in_buffer(m, ok)
  \/ get_out_buffer

EnclaveStep ==
  \/ \E m \in Message, ok \in BOOLEAN : put_out_buffer(m, ok)
  \/ put_out_scan
  \/ put_out_copy
  \/ put_out_flip
  \/ get_in_buffer
  \/ get_in_scan
  \/ get_in_copy
  \/ get_in_decrypt
  \/ get_in_flip

Next == SmmStep \/ EnclaveStep \/ \E e \in Entry : StrayWrite(e)

Spec == Init /\ [][Next]_vars

\* The enclave goes on and the supervisor keeps serving its requests.
FairSpec == Spec /\ WF_vars(EnclaveStep) /\ WF_vars(init_ring_buffer) /\ WF_vars(get_out_buffer)

-----------------------------------------------------------------------------
(* Properties. *)

HoldsIn(e) == pc \in {"get_copy", "get_rest", "get_decrypt", "get_flip"} /\ i = e
HoldsOut(e) == pc \in {"put_copy", "put_rest", "put_flip"} /\ i = e

\* While the enclave is between finding an entry and turning its byte, no SMI
\* that lands in that window (put_in_buffer, get_out_buffer, or the formatting
\* of the page by init_ring_buffer) touches that entry's packet or byte.
OwnershipRespected ==
  [][SmmStep => \A e \in Entry :
       /\ HoldsIn(e) => in_bitmap'[e] = in_bitmap[e] /\ in_slot'[e] = in_slot[e]
       /\ HoldsOut(e) => out_bitmap'[e] = out_bitmap[e] /\ out_slot'[e] = out_slot[e]]_vars

\* get_in_buffer and get_out_buffer return only messages whose put returned 0,
\* and no message twice, whatever the interleaving and whatever a stray write did.
DeliveredOnce ==
  \A m \in Message :
    /\ in_got[m] <= 1 /\ (in_got[m] = 1 => m \in in_sent)
    /\ out_got[m] <= 1 /\ (out_got[m] = 1 => m \in out_sent)

\* The packet the enclave ends up with for IN entry e if no more stray writes hit.
View(e) ==
  [lo |-> IF i = e /\ pc \in {"get_rest", "get_decrypt", "get_flip"}
          THEN ciphertext.lo ELSE in_slot[e].lo,
   hi |-> IF i = e /\ pc \in {"get_decrypt", "get_flip"}
          THEN ciphertext.hi ELSE in_slot[e].hi]

InFlightIn ==
  {m \in Message : \E e \in Entry : in_bitmap[e] = IN_SGX /\ View(e) = Encrypt(m)}
InFlightOut ==
  {m \in Message : \E e \in Entry : out_bitmap[e] = OUT_SMM /\ out_slot[e] = Encrypt(m)}

\* Without stray writes every accepted message is in the page or was returned
\* to the reader, never both, and no tag check fails: no put overwrites a packet
\* that is still to be read and no reader sees a half-written packet.
NothingLost ==
  faults = 0 =>
    /\ ~auth_failed
    /\ \A m \in Message :
         /\ m \in in_sent <=> m \in InFlightIn \/ in_got[m] = 1
         /\ m \in InFlightIn => in_got[m] = 0
         /\ m \in out_sent <=> m \in InFlightOut \/ out_got[m] = 1
         /\ m \in InFlightOut => out_got[m] = 0

\* The entries whose packet waits for its reader and fails the reader's tag check.
BrokenIn == {e \in Entry : in_bitmap[e] = IN_SGX /\ ~Verifies(View(e))}
BrokenOut == {e \in Entry : out_bitmap[e] = OUT_SMM /\ ~Verifies(out_slot[e])}

\* Accepted messages that are neither in the page nor were returned.
DestroyedIn == {m \in in_sent : m \notin InFlightIn /\ in_got[m] = 0}
DestroyedOut == {m \in out_sent : m \notin InFlightOut /\ out_got[m] = 0}

\* Messages in the page behind a broken packet: it keeps its byte, so every later get
\* finds it first and fails.
BlockedIn == {m \in InFlightIn : \E f \in BrokenIn, e \in Entry :
                f < e /\ in_bitmap[e] = IN_SGX /\ View(e) = Encrypt(m)}
BlockedOut == {m \in InFlightOut : \E f \in BrokenOut, e \in Entry :
                 f < e /\ out_bitmap[e] = OUT_SMM /\ out_slot[e] = Encrypt(m)}

Destroyed == Cardinality(DestroyedIn) + Cardinality(DestroyedOut)
Lost == Destroyed + Cardinality(BlockedIn) + Cardinality(BlockedOut)

\* A stray write destroys at most one message, but the broken packet blocks those in the
\* entries above it: one write can cost as many messages as a direction has entries, and
\* never more.  Without one nothing is lost at all.
LossBounded == NothingLost /\ Destroyed <= faults /\ Lost <= faults * MaxEntry

\* A reader that finds a broken packet gets rid of it in the end, by a new session or
\* otherwise (article.tex: "verify the broken MAC and restart a new session").
SessionRestarted == auth_failed ~> BrokenIn = {} /\ BrokenOut = {}

\* Each direction implements the bounded unordered channel.
InChannel == INSTANCE BagChannel
  WITH Capacity <- MaxEntry, chan <- InFlightIn, sent <- in_sent, got <- in_got
OutChannel == INSTANCE BagChannel
  WITH Capacity <- MaxEntry, chan <- InFlightOut, sent <- out_sent, got <- out_got
InRefinesChannel == InChannel!Spec
OutRefinesChannel == OutChannel!Spec
=============================================================================
