# A TLA+ verification project for Aurora

Aurora gives an SGX enclave trusted input and output without trusting the
operating system: the firmware's System Management Mode handler (a "supervisor"
added to SeaBIOS) takes a device away from the OS for as long as needed and talks
to the enclave over a page of ordinary memory, encrypted with AES-GCM. This
directory holds TLA+ models of the parts of Aurora that carry that logic, the TLC
runs that check them on small instances and TLAPS proofs that hold for every
instance.

## 1. Inventory

The repository consists of four SeaBIOS trees (one per device: keyboard, network,
storage, usb; each with a `src/fw/supervisor/` directory), three SGX applications
(OpenSSH, lwIP, a USB/storage benchmark), a Linux UIO driver, a QEMU tree and the
article. Nearly all of its two and a half million lines are vendored; Aurora's own
code is the following.

| component | state it keeps | operations | talks to |
|---|---|---|---|
| Ring buffers (`ring_buffer.c` in SMM, `ring_buffer.cpp` in the enclave) | two ownership bitmaps and two arrays of packets in shared memory | `init_ring_buffer`, `put_in_buffer`, `get_out_buffer`; `put_out_buffer`, `get_in_buffer` | each other, through the page alone |
| Keyboard supervisor (`seabios-keyboard/.../supervisor.c`) | `isFirstPhrase`, `i`, `kbd_buffer`, `kbd_vec`, the I/O APIC entry of IRQ 1 | start a session, take a key, finish a session | ring buffer, i8042, local APIC (IPI 0x3a) |
| Trusted input client (`Aurora-openssh-sgx`) | `recv_msg`, the UIO file, the terminal | `ecall_secure_input`, `ocall_smi`, `ocall_uio_poll`, `read_passphrase` | supervisor (software SMI), UIO device, ring buffer |
| UIO driver (`Aurora-uio/uio_aurora.c`) | the shared page, its address at physical 0x64, the event counter | load, unload, `irq_handler` | supervisor (IPI), client (`select`, `read`) |
| Network supervisor (`seabios-network/.../supervisor.c`, `pcnet32.c`) | `isFirstPhrase`, the I/O APIC entry of the NIC | probe, `pcnet32_handler` | the descriptor rings that it shares with the OS driver, ring buffer, IPIs 0x3a and 0x3b |
| lwIP port of the enclave (`sys_arch.cpp`, `ethernetif.cpp`) | mailboxes, semaphores | mailbox operations, `sgx_arch_waiting_fn`, `low_level_output` | ring buffer, UIO device, software SMI |
| USB and storage supervisors (`seabios-usb`, `seabios-storage`) | `isSupervisorOn`, `usb_vec`, `data`, the I/O APIC entry of the controller | first request, serve an interrupt | the driver's report and its interrupt, I/O APIC, IPIs |
| SMM entry (`smm.c`, `stacks.c`) | SMBASE, the APM command latch, backups in SMRAM, the borrowed memory at 0x30000 | `smm_setup` at boot and resume, `handle_smi`, the 16/32-bit trampoline | calls `supervisor()` |
| I/O APIC access (`apic.c`) | the index register, shared with the OS | `ioapic_read_reg`, `ioapic_write_reg` | supervisors, OS |
| library of the supervisors (`rdrand.c`, `randombytes.c`, `boundary_check.c`, `md5.c`) | none between calls | `rdrand_get_bytes`, `randombytes_uniform`, `is_within_smram`, `md5_hash` | called by the ring buffer and the supervisors |
| RTC and clock, AES-GCM | little or none | see PROJECT.json | |

What is hard in this system:

- *Interleaving.* An SMI may interrupt the enclave between any two accesses to the
  shared page; the OS driver of the NIC and the SMI handler work on one descriptor
  ring; keyboard SMIs and software SMIs enter one function with one static state.
- *Stale and coalesced signals.* One pending vector, one UIO counter and one data
  port stand for several events; a key released now may have been pressed before
  the session.
- *Limits.* Rings and mailboxes at capacity, results of `put_in_buffer` and
  `put_out_buffer` that are ignored, sums that wrap.
- *Untrusted memory.* A packet may be overwritten by the OS at any time.
- *Liveness.* An OS whose interrupts are taken away must still be served.
- *Crashes and restarts.* Clients are killed with input in the ring, the UIO module is
  unloaded and loaded again, the machine suspends and resumes through `smm_setup`.
- *Arithmetic at the edge.* Sums and differences of unsigned integers in the SMRAM check,
  the random filler, the rejection loop and the padding of MD5.

The hazards are listed one by one, with their lines, in `PROJECT.json`.

What makes each component correct:

- ring buffers: no entry is touched by a side that does not own it; no message is
  delivered twice; what a packet overwritten by the OS can cost is bounded;
- trusted input: the interrupt goes to SMI exactly during a session and finds its way
  back, no key of a session reaches the OS, no input put since the client's open waits
  without a notification, inputs are returned once and in the order they were typed;
- network: no side gets a frame twice, both sides get one only in the window in which the
  OS driver holds a descriptor, losses happen only when the ring is full, the OS keeps its
  network;
- mailboxes: a bounded FIFO queue;
- UIO driver: after a load in which every step succeeded, no interrupt meets a driver that
  is partly unregistered; a first SMI of a client that came after `taint` finds the page
  that this client has mapped;
- SMM entry: every SMI finds its entry, borrowed memory is given back, nested calls
  return to their callers, an SMI never resumes a BIOS context in the OS;
- USB supervisor: the first key of each report is taken once and before the driver sees it,
  and the driver still hears of every completion;
- library: exactly the buffers inside SMRAM are accepted, a successful call fills exactly
  its buffer with fresh bytes, random numbers are uniform when their draws succeed, the hash
  is that of the padded message.

## 2. Modules

| module | models | role |
|---|---|---|
| `RingBuffer` | `ring_buffer.c`, `ring_buffer.cpp` | the channel, at the grain of single accesses |
| `BagChannel` | | what the channel promises: a bounded, unordered channel without duplicates that loses only what a stray write hit |
| `MCRingBuffer` | | TLC instance with symmetry |
| `RingBufferProofs` | | inductive invariant and theorems |
| `SecureInput` | keyboard `supervisor.c`, QEMU's `ps2.c` and `pckbd.c`, `smm.c` dispatch, `irq_handler`, `App.cpp`, `Enclave.cpp`, `read_passphrase` | composition of supervisor, relay and client over the channel |
| `SecureInputProofs` | | theorems |
| `NetReceive` | network `supervisor.c`, `pcnet32.c`, QEMU's `pcnet.c`, `irq_handler`, `ethernetif.cpp`, `sys_arch.cpp`, `utils.cpp` | composition of NIC, OS driver, supervisor, relay and enclave |
| `NetReceiveProofs` | | theorems |
| `SysMbox` | `sys_arch.cpp` | a mailbox with its waiting callback |
| `BoundedQueue` | | what lwIP expects of a mailbox |
| `SysMboxProofs` | | type correctness and refinement |
| `UioDriver` | `uio_aurora.c`, `init_ring_buffer` | the life of the driver next to the supervisor's first SMI |
| `UioDriverProofs` | | theorems |
| `SmmEntry` | `smm.c`, `stacks.c` | the way into SMM |
| `SmmEntryProofs` | | theorems |
| `EhciIntercept` | `supervisor.c` of the USB build, QEMU's `hid.c` and `hcd-ehci.c` | interception of a USB controller |
| `EhciInterceptProofs` | | theorems |
| `IoApic` | `apic.c`, keyboard `supervisor.c` | the index register shared with the OS |
| `RdRand` | `rdrand.c`, its use in `ring_buffer.c` and `randombytes.c` | random bytes |
| `RandomUniform` | `randombytes.c` | random numbers, on top of `RdRand` |
| `BoundaryCheck` | `boundary_check.c` | the test of a buffer against SMRAM |
| `Md5Hash` | `md5.c` (the same code is in the storage enclave) | the blocks that are compressed |
| `MCSmmLibrary` | | TLC instance of `RdRand`, `RandomUniform`, `BoundaryCheck` and `Md5Hash` |
| `SmmLibraryProofs` | | theorems about these four |

The modules keep the names of the code's functions and variables. `PROJECT.json`
maps each definition to its lines.

### Assumptions shared by the models

The guest has one processor (`-smp 1` in the start script), so an SMI is one step:
nothing else runs during it, except that devices go on (a key or a frame may arrive
during an SMI; this is the same as arriving just before or after it, apart from the
request that is latched meanwhile, which the models keep). A pending SMI is taken
before a pending interrupt, and both before user code; `Running` says so. The four
`ring_buffer.c` files are the same but for the test that the message lies in SMRAM,
which is compiled out in the keyboard and usb builds.

The devices are those of `src/Aurora-qemu-sgx`: the NIC is `hw/net/pcnet.c`, the keyboard
controller `hw/input/ps2.c` behind `pckbd.c`, the USB keyboard `hw/input/hid.c` and
`hw/usb/dev-hid.c`, its controller `hw/usb/hcd-ehci.c`. The operating system and its drivers are
not in the repository and are modelled from how the supervisors use them.

### RingBuffer

`in_bitmap`, `out_bitmap`, `in_slot` and `out_slot` are the shared page. A packet has
two halves, so that a copy can be caught in the middle; it authenticates only when
both halves are of one encryption. SMM operations are single steps. The enclave's
operations are split at every access to the page: one step for each byte of the
bitmap that is read, two for each `memcpy`, one for decryption, one for the byte that
turns the ownership. `StrayWrite` overwrites half a packet with bytes that belong to
no ciphertext, at most `MaxFaults` times. A packet that fails its tag keeps its byte, as in
the code, so it is found first by every later get: the messages in the entries behind it
are `Blocked`, and they count as lost. The parameter `ok` of the two puts stands for
all tests before the search (length, SMRAM, enclave range). The history variables
record what was accepted, refused and returned; each message is put at most once,
which is what lets the model tell two deliveries of one message apart.

Not covered by `StrayWrite`: an OS that writes to the bitmaps or replays an old
packet. The code has nothing against either (the nonce is constant and there is no
counter), so no delivery property could hold; the properties state what the protocol
achieves when the bitmap bytes are written by its two parties only.

### SecureInput

The i8042 is a queue of scan codes and the byte its data port last returned; a read of
an empty queue returns that byte again, as the software SMI of a request does if it
comes during a session. Every byte raises IRQ 1 when it is queued, and again when the port is
read with bytes left (`Raise`), with the destination that its entry has at that moment; `irq`
holds what is latched. `FirstPhrase`, `NextPhrase`, `EnterReleased` and
`KeyStroke` are the branches of `supervisor()`. `EnterReleased` reads the port while the entry
still goes to SMI and writes it back afterwards: if a byte is behind the Enter release,
another SMI is latched, which finds no session and begins one that nobody asked for. The ring
is at the level of `BagChannel`, with the search order of the code. `ocall_uio_poll` is split
into the blocking `getchar`, `select`/`read` and the error exit. `read_passphrase` passes
`strlen - 1` to `memcpy`; for an empty input this wraps and the client faults. `ClientKilled`
ends the client at any point, at most `MaxKills` times. Either way the client is `"gone"`, and the
next one, `open_uio`, is a step of its own: keys, SMIs and notifications may come in between,
and the open discards the events up to it. What it finds in the ring is an
*orphan* of an earlier client, whose notification may be lost. `NoLostWakeup` and `SelectReturns`
speak of input put since the open; `InputsInOrder` speaks of all.

Two abstractions: characters are model values plus NUL (modifiers) and CR (Enter), and
`kbd_buffer` is a sequence, so writing past its 256 bytes is outside the model (a
hazard without a property, see PROJECT.json).

### NetReceive

`rx_ring` is the ring that the NIC fills, the OS driver empties and the SMI handler
scans. The NIC's line rises only when neither receive nor transmit interrupt is
unacknowledged, and only the OS driver acknowledges. The SMI pending bit is one latch.
Ring entries are taken in descriptor order into IN entries in index order
(`Rank`). A frame of `EnclaveFrame` is one that passes both tests of the scan: its descriptor has
exactly status 0x340 (a whole frame for the NIC's own address) and its IP options are the flag.

The OS driver takes a frame (`OsTake`) and gives its descriptor back to the NIC (`OsRearm`) in two
steps. An SMI between them finds the descriptor with its status unchanged: the scan
dispatches the frame to the enclave as well and clears the descriptor. The history variable
`both` records these frames, and `OnePlace` says that no other frame is in two places.

Assumptions about the OS driver: it re-arms a descriptor that the scan has zeroed
completely, the buffer address cleared at `pcnet32.c:193` included; it acknowledges before it
drains. The NIC is at vector 0x3b, as the probe tests. `pcnet32_tx_enclave_packet` is not called in
this build, so the OUT ring only fills.

### SysMbox

`struct lwip_mbox` with its array, two indices and counter. The enclave has one
thread, so operations are single steps; a waiting fetch is split where it calls
`the_waiting_fn`, which may post to the mailbox. The refinement maps the slots from
`tail` on to a sequence.

### UioDriver

`aurora_init` and `aurora_exit` are split at their calls into the kernel, because the
interrupt line is shared and `irq_handler` takes every interrupt for its own. Every call may
fail; a negative result takes the module out without undoing what it registered, and the
two places that return 1 are taken for success by the kernel, as they are. A fault
(`fault`) is a notification without a UIO device or a `sweep` without a page. `init_ring_buffer`
reads low memory once, at the first SMI of a client.

### SmmEntry

An SMI is one step: state is saved at SMBASE, the code there runs, and the CPU resumes
from what the handler left. The CPU state is abstracted to the context it belongs to and
the A20 gate. `smm_setup` is one action per step; PIIX4 and ICH9 write other registers in
the same order and share the actions. `frames` is the stack of calls between 16 and 32 bits
(history), against which `backup2` and `backup_a20`, single variables, are judged. `Suspend`
resets CPU and chipset; memory, SMRAM and the routes the OS restores survive.

Left out because no state of the model reaches it: a CPU whose save area has an unknown
revision (`smm.c:86-89`; QEMU's has one of the two known ones), and the early return of
`smm_setup` when SMI generation is on already (`smm.c:192`; it is off after every reset).
`call32_prep` and `call32_post` also save and restore the stack segment and the NMI setting,
which the model does not have. The ACPI command is that of the PIIX (0xf1); on ICH9 it is 2.

### EhciIntercept

A report has the modifiers and `ReportKeys` keys (6 in the code). QEMU's keyboard
keeps the keys that are down in the order they were pressed, moves the last one into the
place of one released, and fills the report with a roll-over code when too many are down; one key
event is processed per poll (`process_keycode`). The controller writes the report, raises its
interrupt later, and does no more until the driver has queued the endpoint again.

`Serve` is the second branch of `supervisor()`: it takes `keys[0]` if there is one, clears
`keys[0]`, and hands the interrupt on. So a key in `keys[1..5]` and the modifiers stay in the
report that the driver reads, a second key pressed while one is held is not taken, and a held
key is taken again with every report. The properties state what the code achieves, for the first
key of a report. `data` is read from 0x100 at the first request; if no driver has
published its report by then, SMM works on a stray address for ever, which the model has too.

The OS may write any entry at any time when no interrupt with its vector is
pending; a write to the intercepted entry ends the interception, and nothing in SMM takes it again.
The storage build has the same interception with the entry of IRQ 11 and looks at no report.

### IoApic

An access of the OS is a write to the index and a write to the data register. On one
processor the request that starts a session is an instruction of a process and never
splits such an access; the SMI of a key may.

### RdRand, BoundaryCheck, Md5Hash

`rdrand_get_bytes` runs step by step: misaligned head, words, tail, each of which may fail.
A byte of memory is where it came from, so that reuse of a byte is visible. Its callers are
the padding of `put_in_buffer` and the key generator. `randombytes_uniform` and `is_within_smram`
are functions without state and are written as such; `randombytes_uniform` ignores a failed draw
(`randombytes.c:25`), after which the number is made of 0 or of what was on the stack, so
`NoModuloBias` speaks of draws that succeed. That the padding of `put_in_buffer` ends at a word is assumed:
`MSG_SIZE` is a multiple of one, but `message[]` is an array of characters, which C does not align. In `BoundaryCheck`
addresses are unsigned and sizes signed integers of the same width, given by half of
the address space; the sum is reduced modulo the width. The only assumptions are that
SMRAM is not empty and does not touch either end of the address space. In `Md5Hash` the
compression is abstracted to the bytes it is given; a round of the loop over the whole blocks is
one step (`CompressBlock`) and what follows the loop is another (`CompressRest`). `Weight` stands for
the powers of 256: it is a constant, and what is assumed of it is what defines the powers, because
TLC's integers and the prover's arithmetic both end before the eighth power.

## 3. Runs

| run | states | shows |
|---|---|---|
| `ring_buffer` | 614,287 | type invariant, `DeliveredOnce`, `LossBounded` (with `NothingLost`; blocked messages count), `OwnershipRespected`, and both directions refine `BagChannel` |
| `secure_input` | 508,360 | `RouteConsistent`, `NoLostWakeup`, `InputsInOrder`, `TrustedKeysStayInSmm`; under fairness `SelectReturns` |
| `sys_mbox` | 3,495 | index bounds and refinement of `BoundedQueue` |
| `net_receive` | 263,271 | `OnePlace`, `NoFrameVanishes`, `DropOnlyWhenFull`, `OsWillLook`; under fairness `OsFramesArrive`, `NotificationServed` |
| `uio_driver` | 2,021 | `SafeOnceLoaded`, `FirstSmiFindsPage` |
| `smm_library` | 4,548 | `FillsExactly`, `NoByteReused`, and over all inputs of a 5-bit machine `NoModuloBias` and `AcceptsExactlySmram`, over 203 lengths `CompressesPadding` |
| `smm_entry` | 320 | `EveryEntryFound`, `MemoryGivenBack`, `CallsNest`, `OsUndisturbed` |
| `ehci_intercept` | 680,304 | `FirstKeysTaken`, `FirstKeyHidden`, `CompletionPending`; under fairness `InterruptsHandedOn` |

Four runs end in a counterexample; each is a place where code and documentation differ
(see `findings` in PROJECT.json):

- `secure_input_enter`: the article says a session ends when Enter is *hit and
  released*; the code looks at the release only, so the Enter that started ssh, if
  released late, ends the session with an empty input.
- `smm_entry_acpi`: the handler takes the last value of the command port for the reason
  of the SMI. After an ACPI command of the OS, or after a resume, a device SMI passes the
  supervisor by.
- `ring_buffer_broken`: the article says that both sides verify the broken MAC and *restart
  a new session*; in the code the packet keeps its byte, the page is formatted only once, and one
  stray write blocks a whole direction for ever. Fairness: the enclave's operations go on, SMM
  formats the page and keeps getting.
- `io_apic_split`: the SMI of the Enter key between the two halves of an access of the OS
  to another entry moves the index register, and the OS writes into the keyboard's entry.

Four smaller disagreements were met while modelling and are recorded here only:

- `ocall_uio_poll` waits for a terminal line before it looks at the event, so input stays in the
  ring until the user types something more (`App.cpp:317`; the hazard list has it);
- the assertion `head != tail` of `sys_mbox_post` fails for the last slot that
  `sys_mbox_trypost` fills. Assertions are compiled out and `sys_mbox` shows that the queue is
  right; the assertion is wrong;
- `low_level_output` is documented to return `ERR_OK` if the packet could be sent, and returns it
  always;
- `taint` is to tell the supervisor where the shared page is, but the supervisor listens at
  its first SMI only: a reload of the module, or a client that comes before `taint`, leaves
  it with another page. `rdrand_get_bytes`, documented for buffers of any size, wraps its
  length for one that ends before the next word; no caller in SMM has such a buffer.

### Bounds and why they are enough

- `ring_buffer`: two entries are the least for which the search order, refusal and
  reuse of an entry all happen; three messages overfill a direction; one stray write
  (`MaxFaults`) shows the effect of a fault on the other messages, and reaches the bound of
  `LossBounded`: one message destroyed and one blocked. Messages are
  interchangeable, so symmetry is sound (no liveness is checked in that run).
- `secure_input`: four requests (`MaxCalls`) cover a first session, a second one, a request while
  one is in progress or left over, and one of a client after two that were killed (`MaxKills`); two
  presses (`MaxPresses`), besides an Enter that may be down at the start, allow a character,
  a modifier or Enter in a session, a byte behind an Enter release and a typed-ahead line.
  `CHECK_DEADLOCK FALSE`, because the system stops when the user stops typing and ssh asks
  no more.
- `net_receive`: three marked frames overfill two IN entries; a third descriptor lets
  the OS driver and the NIC be at different places; `MaxTx` is 1 transmitted frame, whose
  interrupt can hide that of a received one.
- `sys_mbox`: sizes 2, 3 and 4 with both indices wrapping several times.
- `uio_driver`: three loads (`MaxLoads`), so that a reload may fail and be tried again, and two
  pages. `CHECK_DEADLOCK FALSE`, because a crashed kernel stops.
- `smm_library`: `MSG_SIZE` 20 and `KEYBYTES` 9 give every combination of head, words and tail at
  every alignment of a 4-byte word; the 5-bit checks are exhaustive. Lengths for MD5
  go through three blocks, so through every position of the mark, and include that of the
  storage enclave. TLC's integers have 32 bits, so the length field has 3 bytes there
  instead of 8.
- `smm_entry`: five nested calls (`MaxDepth`), the least in which an interrupt during a call back
  makes a call and a call back of its own; two callers.
- `ehci_intercept`: three keys and reports of two (`ReportKeys`), so that a report can roll over;
  two reports with a first key while intercepting (`MaxKeys`), any number before; two entries,
  three vectors.
- `ring_buffer_broken`: two entries, two messages, one stray write.
- `io_apic_split`: two accesses (`MaxAccess`) of the OS.

### Fairness

`SecureInput`, `NetReceive` and `EhciIntercept` assume weak fairness of the machine only: latched
SMIs and interrupts are taken, a raised interrupt is delivered, the OS runs the handlers of
pending vectors, its receive loop goes on, and a runnable client is scheduled. Each of these actions, once enabled,
stays enabled until taken or until a step of higher priority runs, and the bounds on
devices make the latter finite. Nothing is assumed about the user, the network, the OS's
own traffic, the start of a client, further requests, or failures of `select`.

## 4. Proofs

All theorems hold for every value of the constants; the assumptions are the named
`ASSUME`s of the modules (the rings have at least one entry, marker values differ from
data and from each other, the padding of a message ends at a word).

- `RingBufferProofs`. `DeliveredOnce` is not inductive: that a message is not returned
  twice depends on what the packets in flight contain and on who owns them. `IInv` adds
  `OwnerInv` (the entry the enclave works on carries its owner byte, and before the
  formatting no entry does), `InInv` (each half of a packet that waits for the enclave,
  and each half it has already copied, belongs to a message that was accepted, was
  not returned and is in no other ready entry) and `OutInv` (the same for the other
  direction, and what a half-written packet may contain). A stray write can only
  remove a half, which these statements survive. From `IInv` follow `TypeCorrect`,
  `ExactlyOnce` and `OwnershipKept`.
- `RingBufferProofs`, losses and refinement. What is in flight is a set of whole packets in
  ready entries (`Content`), and every step of the fine-grained model adds one message to it,
  takes one out, loses one or leaves it alone (`Effect`, one lemma per operation). That is
  the refinement of `BagChannel` in both directions (`InChannelTheorem`, `OutChannelTheorem`);
  its bound on the number of messages in flight is `ContentRoom`, an injection into the
  entries. For `LossTheorem` the count of lost messages is compared with the stray writes. A
  stray write into an entry that the enclave is just filling costs a message only later, when the
  entry is turned over: such a packet is `Damaged` and counts already (`Doomed`), so
  `LossInv` says destroyed messages + `Doomed` <= `faults`. `BrokenInv` says that a direction
  with a packet that cannot be read has a destroyed message, so that only then messages are
  blocked, and fewer than the ring has entries (`BlockedBound`): a direction costs at most
  `MaxEntry` messages for each one destroyed in it. `CopyInv` says what the enclave holds in
  its private copy. For `NothingLostTheorem`, `AuthInv` adds that without stray writes every packet
  in a ready entry, and the copy of one, authenticates.
- `SecureInputProofs`. `RouteTheorem` strengthens `RouteConsistent` by the facts that the
  first request finds the index at 0 and that the index never falls below -1, so that
  a session is never started twice; that holds for the SMI latched behind an Enter release too,
  which comes when the entry is the OS's again. `WakeupTheorem`: `NoLostWakeup` is inductive
  as it stands, because the message and the IPI are produced in one SMI, an event is
  consumed only on the way to a drain, and an open, which discards events, makes orphans of what is
  in the ring.
- `SecureInputProofs`, continued. `TypeCorrect` needs what a session index can be.
  `OrderTheorem`: that the inputs returned so far are in order says nothing of the next one,
  so `OrderInv` adds that what is on its way, in the ring or in the buffer of the enclave,
  is newer than all that was returned and older than the input of a running session
  (`Fresh`). A killed client empties the buffer and leaves the ring. `TrustTheorem`: that
  no key of a session is read by the OS is not inductive, because the bytes wait in the
  i8042 while the route changes. `TrustInv` says where they can be: none behind an Enter
  release, none when IRQ 1 goes to the OS, and one at the head of the queue has its SMI
  latched, which runs before the OS does.
- `UioDriverProofs`. `LifeInv` says which registrations exist in which phase, and that a load
  without a failure has made all of them; from it follow `RelaySafe` and `FirstSmiTheorem`.
  `TypeCorrect` is inductive as it stands.
- `NetReceiveProofs`. `OnePlace` counts the places of a frame; `PlaceInv` says the same without
  counting, which each action can be checked against: no two places of the rings hold one frame
  (`RingsDistinct`), and who else has got a frame in a descriptor (`ReceivedInv`), in the IN ring
  (`QueuedInv`) or delivered (`GotInv`) is nobody, or the OS if it holds the descriptor or shared
  the frame. `HeldInv` adds that the IN ring is empty before the first SMI formats it. The work is in the scan:
  the model pairs descriptors and free entries by their rank, and the lemmas `RankBelow`,
  `RankLess`, `RankInjective` and `RankOnto` show that ranks number a finite set of numbers
  without gaps. So each marked frame gets an entry of its own or is among the last ones when
  all free entries are used up (`Dispatch`), and from that the scan keeps `PlaceInv`, loses nothing
  uncounted and drops only into a full ring (`ScanKeeps`). The results are `TypeCorrect`,
  `OnePlaceTheorem`, `VanishTheorem` and `DropTheorem`.
- `NetReceiveProofs`, `LookTheorem`. `OsWillLook` is what the liveness of the OS's network rests on:
  no descriptor waits without a signal. It is not inductive, because the handler stops at the
  first descriptor that the NIC owns, so it must not find one while a later descriptor waits.
  `WindowInv` says that the waiting descriptors are one contiguous stretch of the ring from
  where the OS driver looks to where the NIC writes next; `SignalInv`, that an unacknowledged
  receive or transmit interrupt has its SMI or its vector pending, so that an edge which the
  NIC does not raise again was not needed.
- `SmmLibraryProofs`, `RdRand`. The invariant says that the bytes written so far are a prefix of the buffer that
  ends where the next block starts (`Frontier`), and that each word is used at one
  place. With it a block that fits stays in the buffer (`NeverOverruns`), success means
  that the frontier is the end (`FillTheorem`), and no byte repeats (`FreshBytes`). The
  assumption that does the work is that the buffer of `put_in_buffer` ends at a word of 4 bytes, which
  is up to the compiler, and that a key is at least a word long: otherwise the length may wrap.
- `EhciInterceptProofs`. `FirstKeysTaken` depends on `keys[0]` being clear when the controller
  writes the report. `RouteInv` says that an entry holds its OS vector or is the one that SMM has
  taken, with that vector kept in `usb_vec`, and that nothing is taken before the first
  request; `ReportInv`, that the endpoint is queued only when the last completion was seen and
  that `keys[0]` stays clear from the SMI of a key to the next completion. From both follow
  `TakenTheorem` and `HiddenTheorem`. `HandedTheorem` is the safety part of `InterruptsHandedOn`: the
  OS changes a vector only when no interrupt with it is pending, so the SMI never hands one
  on under a vector that the OS has given up while the entry is SMM's.
- `SmmEntryProofs`. `EntryInv` says, for each step of `smm_setup`, where SMBASE points and what both
  layouts hold; it gives `EntryTheorem` and `GivenBackTheorem`. For `NestTheorem`, `CallInv` links
  each frame to the one below it (`Linked`: 32-bit code runs in the flat context with A20 on,
  a call back runs in the context of the call below it, an interrupt only interrupts a
  call back) and says that `backup2` and `backup_a20` belong to the innermost call when that is
  a `call32_smm`: a call back that ends writes them again on its way. `LatchInv` says that the
  trampoline's command is not in the latch once an interrupt is routed to SMI, which gives
  `OsTheorem`.
- `SmmLibraryProofs`, `RandomUniform`. `UniformTheorem`: the threshold of the loop, a remainder of
  the two's complement, is the remainder of the whole range (`MinIsRemainder`), so the
  words that are accepted and give a value are that value plus the multiples of the bound, one in each
  complete round (`WordsOfValue`, a bijection with the rounds). The facts on quotients and
  products with a variable divisor are lemmas of their own (`MulLess`, `DivMod`, `DivModUnique`).
- `SmmLibraryProofs`, `BoundaryCheck`. `SmramCheckCorrect`: the size is signed, so the sum wraps at most once,
  and then to an end below the start, which the first comparison refuses.
- `SmmLibraryProofs`, `Md5Hash`. `PaddingTheorem`: the invariant of the loop is that the compressed bytes
  are the message up to `off`, a multiple of the block. `TotalLength` computes the length of the
  padded message from the rest, in both cases of the test for room; `LengthBytes` shows that
  five bits and then eight at a time are the bytes of the number of bits; `LastBytes` compares
  the last one or two blocks with the padded message byte by byte.
- `SysMboxProofs`. The invariant says that `head` is the slot after the newest message;
  from it a post appends to, and a fetch takes the head of, the abstract sequence
  (`PostAppends`, `TakeRemoves`), which gives `IndicesInRange` and `MboxIsQueue`.

Only model-checked: liveness (`SelectReturns`, `OsFramesArrive`, `NotificationServed`,
`InterruptsHandedOn`), because the prover does not handle fairness, and the four properties
that a run refutes. Every other property of a passing run is stated by a theorem; `NoLostWakeup`,
`OsWillLook` and `CompletionPending` are the safety parts of three of the four.

## 5. What is not modelled

Nearly all lines of the repository are vendored: QEMU, SeaBIOS four times, OpenSSH,
lwIP and the LaTeX of the article. Aurora's own logic is in the files of the table in
section 1, and a map of the models onto the whole tree covers only a small share of it
for that reason. Of Aurora's own code the following is left out:

- AES-GCM (libsodium): `RingBuffer` models what the channel relies on;
- clock and RTC: `time_service` drops what it reads, its call of `rtc_now` is commented
  out (`clock.c:56`), and nothing calls it;
- the transmit path of the network supervisor: `pcnet32_tx_enclave_packet` is not called in this
  build;
- the branch of the network supervisor for a NIC that is not at vector 0x3b: its handler
  then works on ports and memory at address 0, whose contents no model can give;
- the comparison of hashes in the storage supervisor (compiled out), and `ecall_test` and
  `ocall_write` of its enclave, one straight line of I/O;
- semaphores and the core lock of the lwIP port: only TCP and `select` wait on a
  semaphore, which the UDP server never calls, and the enclave has one thread;
- `uio_irq_control`, which masks IRQ 13 that no device raises;
- the size of `kbd_buffer`: nothing limits its index, so there is no bound to show;
- local APIC accessors: their effect is state of the models (`ipi`, `irr`, `nic_irq`);
- the OS and its drivers beyond what the code relies on, the SDK's launch code;
- of QEMU everything but the three devices of section 2: frames with errors, several buffers for
  one frame, other endpoints and pointers, and the mouse behind the keyboard controller;
- the result of a failed random draw in `randombytes_uniform`.

## 6. Plan

The models of the plan are done, and so are the proofs of all safety properties that hold. What
would add most:

1. `IoApic`: transparency under the condition that the counterexample violates, an SMI that
   does not split an access of the OS.
2. Keys behind the first one of a report: nothing in the code takes or hides them, so a
   property needs a change of the code first.
3. The safety part of `NotificationServed`: what a pending notification guarantees about the
   entries of the IN ring while the enclave drains it.
