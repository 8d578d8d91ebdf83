------------------------------ MODULE SecureInput ------------------------------
(***************************************************************************)
(* Trusted keyboard input: the SMM supervisor of the keyboard build        *)
(* (supervisor.c), the relay of its notification through the Aurora UIO    *)
(* driver (uio_aurora.c) and the ssh client that asks for a passphrase     *)
(* (ecall_secure_input in the enclave, ocall_smi and ocall_uio_poll in the *)
(* host process, read_passphrase).                                         *)
(*                                                                         *)
(* Everything that runs in one SMI is one step.  A pending SMI goes before *)
(* a pending interrupt, and both go before the client.  The IN ring is the *)
(* channel that RingBuffer refines, with the search order of the code.     *)
(***************************************************************************)
EXTENDS Integers, Sequences, FiniteSets

CONSTANTS
  Char,        \* the character keys that are typed
  None,        \* no message in a ring entry
  MaxEntry,    \* MAX_ENTRY
  MaxPresses,  \* bound on key presses
  MaxCalls,    \* bound on calls of ecall_secure_input
  MaxKills     \* bound on ssh processes that are killed

ASSUME CharAssumption == Char \cap {"shift", "enter", "NUL", "CR"} = {}
ASSUME MaxEntryAssumption == MaxEntry \in Nat \ {0}
ASSUME BoundsAssumption == MaxPresses \in Nat /\ MaxCalls \in Nat /\ MaxKills \in Nat

Entry == 0 .. MaxEntry - 1
Key == Char \cup {"shift", "enter"}
\* A scan code.  trusted marks a key event of trusted input mode: it happened
\* while IRQ 1 was routed to SMI and before an Enter release was queued.
Byte == [key : Key, up : BOOLEAN, trusted : BOOLEAN]
EnterUp(b) == b.key = "enter" /\ b.up

\* pckbd_sysrq_xlate: modifiers map to \000, Enter to \r.
xlate == [k \in Key |-> CASE k = "shift" -> "NUL" [] k = "enter" -> "CR" [] OTHER -> k]
Text == Seq(Char \cup {"NUL", "CR"})
Msg == [id : Nat, text : Text]

VARIABLES
  queue, last,         \* i8042 output queue, the byte its data port last gave
  irq,                 \* interrupts latched: "OS" (vector kbd_vec) and "SMI"
  route,               \* I/O APIC entry of IRQ 1: "OS" or "SMI"
  isFirstPhrase, i, kbd_buffer, kbd_vec,   \* the statics of supervisor.c
  ring,                \* the IN packets that belong to the enclave
  ipi,                 \* vector UIO_VECTOR pending in the local APIC
  event,               \* the UIO event counter is ahead of its reader
  stdin,               \* the terminal: "x" for any character, "nl"
  pc, recv_msg,        \* the ssh client and the enclave buffer
  held, presses, calls, session, passes,  \* the user's keys, bounds, history
  kills,               \* clients that were killed
  orphans              \* history: the sessions whose input an open has found in the ring

kbd == <<queue, last, irq>>
smm == <<route, isFirstPhrase, i, kbd_buffer, kbd_vec>>
uio == <<ipi, event>>
app == <<pc, recv_msg, passes, kills, orphans>>
user == <<held, presses, calls>>
vars == <<kbd, smm, ring, uio, stdin, app, user, session>>

Label == {"gone", "idle", "smi", "getchar", "select", "drain"}

\* The hardware, the statics of the supervisor and the locals of the client
\* have values the code can give them.
TypeOK ==
  /\ queue \in Seq(Byte) /\ last \in Byte
  /\ irq \subseteq {"OS", "SMI"}
  /\ route \in {"OS", "SMI"} /\ kbd_vec \in {"OS", "SMI"}
  /\ isFirstPhrase \in BOOLEAN
  /\ i \in Int /\ i >= -1 /\ (i >= 0 => i = Len(kbd_buffer))
  /\ kbd_buffer \in Text
  /\ ring \in [Entry -> Msg \cup {None}]
  /\ ipi \in BOOLEAN /\ event \in BOOLEAN
  /\ stdin \in Seq({"x", "nl"})
  /\ pc \in Label /\ recv_msg \in Msg
  /\ held \subseteq Key
  /\ presses \in Nat /\ calls \in Nat /\ session \in Nat
  /\ passes \in Seq(Msg)
  /\ kills \in 0 .. MaxKills /\ orphans \subseteq Nat

NoText == [id |-> 0, text |-> <<>>]

\* ssh is started from the shell: the Enter key that does it may still be down.
Init ==
  /\ held \in {{}, {"enter"}}
  /\ queue = <<>> /\ last = [key |-> "enter", up |-> held = {}, trusted |-> FALSE] /\ irq = {}
  /\ route = "OS" /\ kbd_vec = "OS" /\ isFirstPhrase = TRUE
  /\ i = 0 /\ kbd_buffer = <<>>
  /\ ring = [e \in Entry |-> None]
  /\ ipi = FALSE /\ event = FALSE
  /\ stdin = <<>>
  /\ pc = "gone" /\ recv_msg = NoText /\ passes = <<>>
  /\ presses = 0 /\ calls = 0 /\ session = 0
  /\ kills = 0 /\ orphans = {}

-----------------------------------------------------------------------------
(* The keyboard controller: QEMU's ps2.c behind pckbd.c. *)

\* The data port was read with q left in the queue: IRQ 1 is raised again at
\* once, and goes where its entry says at that moment.
Raise(q, latched, dest) == IF q = <<>> THEN latched ELSE latched \cup {dest}

KeyEvent(k, up) ==
  /\ queue' = Append(queue,
       [key |-> k, up |-> up,
        trusted |-> route = "SMI" /\ \A n \in 1 .. Len(queue) : ~EnterUp(queue[n])])
  /\ irq' = irq \cup {route}
  /\ UNCHANGED <<last, smm, ring, uio, stdin, app, calls, session>>

Press(k) ==
  /\ presses < MaxPresses
  /\ k \notin held
  /\ held' = held \cup {k}
  /\ presses' = presses + 1
  /\ KeyEvent(k, FALSE)

Release(k) ==
  /\ k \in held
  /\ held' = held \ {k}
  /\ presses' = presses
  /\ KeyEvent(k, TRUE)

\* inb on the data port: the oldest byte, or the last one again.
DataByte == IF queue = <<>> THEN last ELSE Head(queue)
Rest == IF queue = <<>> THEN <<>> ELSE Tail(queue)

\* The OS handler: characters and newlines go to the terminal.
KbdIsr ==
  /\ "OS" \in irq /\ "SMI" \notin irq
  /\ queue' = Rest /\ last' = DataByte
  /\ irq' = Raise(Rest, irq \ {"OS"}, route)
  /\ stdin' = IF queue = <<>> \/ DataByte.up \/ DataByte.key = "shift" THEN stdin
              ELSE Append(stdin, IF DataByte.key = "enter" THEN "nl" ELSE "x")
  /\ UNCHANGED <<smm, ring, uio, app, user, session>>

-----------------------------------------------------------------------------
(* supervisor(), entered from handle_smi; latched is what stays latched of *)
(* the interrupt that entered it.                                          *)

hijack_keyboard ==
  /\ kbd_vec' = route
  /\ route' = "SMI"
  /\ session' = session + 1

\* Mutant: the redirection entry is not written back.
MutantNoRecover == route' = route

recover_keyboard == route' = kbd_vec

\* put_in_buffer with the search order of the ring; its result is ignored.
PutIn(m) ==
  LET free == {e \in Entry : ring[e] = None}
  IN  IF free = {} THEN ring' = ring
      ELSE \E e \in free : /\ \A f \in free : e <= f
                           /\ ring' = [ring EXCEPT ![e] = m]

\* Mutant: the buffer of the previous phrase is not cleared.
MutantKeepBuffer == UNCHANGED kbd_buffer

ClearBuffer == kbd_buffer' = <<>>

\* Mutant: the enclave is not notified.
MutantNoIpi == UNCHANGED ipi

trigger_self_ipi == ipi' = TRUE

\* Mutant: the release of any key ends the phrase.
MutantAnyRelease == DataByte.up

PhraseEnds == EnterUp(DataByte)

FirstPhrase(latched) ==
  /\ isFirstPhrase
  /\ isFirstPhrase' = FALSE
  /\ ring' = [e \in Entry |-> None]
  /\ hijack_keyboard
  /\ ClearBuffer
  /\ irq' = latched
  /\ UNCHANGED <<i, queue, last, ipi>>

NextPhrase(latched) ==
  /\ ~isFirstPhrase /\ i = -1
  /\ hijack_keyboard
  /\ ClearBuffer
  /\ i' = 0
  /\ irq' = latched
  /\ UNCHANGED <<isFirstPhrase, queue, last, ring, ipi>>

\* The port is read before the entry is written back: with a byte behind the
\* Enter release the next interrupt is an SMI, which finds i = -1 and begins a
\* session that nobody asked for.
EnterReleased(latched) ==
  /\ ~isFirstPhrase /\ i # -1
  /\ PhraseEnds
  /\ PutIn([id |-> session, text |-> kbd_buffer])
  /\ trigger_self_ipi
  /\ i' = -1
  /\ recover_keyboard
  /\ queue' = Rest /\ last' = DataByte
  /\ irq' = Raise(Rest, latched, route)
  /\ UNCHANGED <<isFirstPhrase, kbd_buffer, kbd_vec, session>>

KeyStroke(latched) ==
  /\ ~isFirstPhrase /\ i # -1
  /\ ~PhraseEnds
  /\ \/ /\ ~DataByte.up
        /\ kbd_buffer' = Append(kbd_buffer, xlate[DataByte.key])
        /\ i' = i + 1
     \/ /\ DataByte.up
        /\ UNCHANGED <<kbd_buffer, i>>
  /\ queue' = Rest /\ last' = DataByte
  /\ irq' = Raise(Rest, latched, route)
  /\ UNCHANGED <<isFirstPhrase, route, kbd_vec, ring, ipi, session>>

supervisor(latched) ==
  \/ FirstPhrase(latched)
  \/ NextPhrase(latched)
  \/ EnterReleased(latched)
  \/ KeyStroke(latched)

\* IRQ 1 delivered as an SMI; the APM latch still holds the client's 0xa0.
KbdSmi ==
  /\ "SMI" \in irq
  /\ supervisor(irq \ {"SMI"})
  /\ UNCHANGED <<event, stdin, app, user>>

-----------------------------------------------------------------------------
(* The UIO relay. *)

irq_handler ==
  /\ ipi /\ "SMI" \notin irq
  /\ ipi' = FALSE
  /\ event' = TRUE
  /\ UNCHANGED <<kbd, smm, ring, stdin, app, user, session>>

-----------------------------------------------------------------------------
(* The ssh client.  There is one CPU: the client runs only when no interrupt *)
(* is waiting.  The exception is ocall_smi, since a byte can arrive after the *)
(* outb, while the CPU is in SMM.                                            *)

Running == irq = {} /\ ~ipi

Ready == {e \in Entry : ring[e] # None}

\* main opens /dev/uio0: the count of events starts at the current one, so what
\* was notified before is not seen.  What was typed since the last client went
\* is the shell's, or typed ahead.
open_uio ==
  /\ Running
  /\ pc = "gone" /\ pc' = "idle"
  /\ event' = FALSE
  /\ stdin' \in {<<>>, stdin}
  /\ orphans' = orphans \cup {ring[e].id : e \in Ready}
  /\ UNCHANGED <<kbd, smm, ring, ipi, recv_msg, passes, kills, user, session>>

ecall_secure_input ==
  /\ Running
  /\ pc = "idle" /\ calls < MaxCalls
  /\ pc' = "smi" /\ calls' = calls + 1
  /\ UNCHANGED <<kbd, smm, ring, uio, stdin, recv_msg, passes, kills, orphans, held, presses, session>>

ocall_smi ==
  /\ pc = "smi"
  /\ pc' = "getchar"
  /\ supervisor(irq)
  /\ UNCHANGED <<event, stdin, recv_msg, passes, kills, orphans, user>>

\* Mutant: the enclave buffer is not cleared before the ring is drained.
MutantKeepReceived == pc' = "drain" /\ UNCHANGED recv_msg

\* The poll is over: ecall_secure_input clears its buffer and drains the ring.
PollDone == pc' = "drain" /\ recv_msg' = NoText

\* getchar returns once the terminal has a whole line.
poll_getchar ==
  /\ Running
  /\ pc = "getchar"
  /\ \E n \in 1 .. Len(stdin) : stdin[n] = "nl"
  /\ stdin' = Tail(stdin)
  /\ IF Head(stdin) = "nl" THEN PollDone
     ELSE pc' = "select" /\ UNCHANGED recv_msg
  /\ UNCHANGED <<kbd, smm, ring, uio, passes, kills, orphans, user, session>>

poll_select ==
  /\ Running
  /\ pc = "select"
  /\ event
  /\ event' = FALSE
  /\ PollDone
  /\ UNCHANGED <<kbd, smm, ring, ipi, stdin, passes, kills, orphans, user, session>>

\* select fails, for instance when a signal arrives.
poll_error ==
  /\ Running
  /\ pc = "select"
  /\ PollDone
  /\ UNCHANGED <<kbd, smm, ring, uio, stdin, passes, kills, orphans, user, session>>

get_in_buffer ==
  /\ Running
  /\ pc = "drain"
  /\ \E e \in Ready :
       /\ \A f \in Ready : e <= f
       /\ recv_msg' = ring[e]
       /\ ring' = [ring EXCEPT ![e] = None]
  /\ UNCHANGED <<kbd, smm, uio, stdin, pc, passes, kills, orphans, user, session>>

\* The part of the text that strlen sees.
CString(text) ==
  LET ends == {n \in 1 .. Len(text) : text[n] = "NUL"}
  IN  IF ends = {} THEN text
      ELSE SubSeq(text, 1, (CHOOSE n \in ends : \A k \in ends : n <= k) - 1)

\* read_passphrase copies strlen - 1 characters.  For an empty input that is
\* SIZE_MAX, and the copy faults: the process is gone.
read_passphrase ==
  /\ Running
  /\ pc = "drain" /\ Ready = {}
  /\ LET text == CString(recv_msg.text)
     IN  \/ /\ text # <<>>
            /\ pc' = "idle"
            /\ passes' = Append(passes, [id |-> recv_msg.id,
                                         text |-> SubSeq(text, 1, Len(text) - 1)])
         \/ /\ text = <<>>
            /\ pc' = "gone"
            /\ UNCHANGED passes
  /\ UNCHANGED <<kbd, smm, ring, uio, stdin, recv_msg, kills, orphans, user, session>>

\* ssh is killed anywhere between two of its steps; SMM does not learn of it.
ClientKilled ==
  /\ Running
  /\ pc # "gone" /\ kills < MaxKills
  /\ kills' = kills + 1
  /\ pc' = "gone" /\ recv_msg' = NoText
  /\ UNCHANGED <<kbd, smm, ring, uio, stdin, passes, orphans, user, session>>

Machine ==
  \/ KbdIsr \/ KbdSmi \/ irq_handler
  \/ ocall_smi \/ poll_getchar \/ poll_select \/ get_in_buffer \/ read_passphrase

User == \E k \in Key : Press(k) \/ Release(k)

Next == Machine \/ poll_error \/ open_uio \/ ecall_secure_input \/ ClientKilled \/ User

Spec == Init /\ [][Next]_vars

\* The machine keeps running (interrupts are taken, the client is scheduled);
\* nobody promises that the user types, that ssh is started or asks again, that
\* select fails or that ssh is killed.
FairSpec ==
  /\ Spec
  /\ WF_vars(KbdIsr) /\ WF_vars(KbdSmi) /\ WF_vars(irq_handler)
  /\ WF_vars(ocall_smi) /\ WF_vars(poll_getchar) /\ WF_vars(poll_select)
  /\ WF_vars(get_in_buffer) /\ WF_vars(read_passphrase)

-----------------------------------------------------------------------------
(* Properties. *)

InSession == ~isFirstPhrase /\ i # -1

\* IRQ 1 is routed to SMI exactly while the supervisor is in trusted input mode,
\* and the vector it will restore is the OS vector: no sequence of requests, key
\* events and stale SMIs makes it save its own SMI entry and lose the keyboard.
RouteConsistent == (route = "SMI" <=> InSession) /\ kbd_vec = "OS"

\* The entries filled since the client has opened the device.
Awaited == {e \in Ready : ring[e].id \notin orphans}

\* A message put into the ring since the client has opened the device has a
\* notification on its way (pending IPI or unread UIO event) unless the client is
\* draining the ring: coalesced IPIs, the early exit on a newline, stale events and
\* sessions that nobody asked for never strand a client in select.  The notification
\* of an input that an earlier client has left is lost in the open.
NoLostWakeup == Awaited # {} /\ pc \notin {"drain", "gone"} => ipi \/ event

\* ssh gets the inputs of trusted sessions in the order of the sessions and none
\* twice, although the ring is searched by index, sessions end while it is being
\* drained, and a client killed in mid-drain leaves inputs behind.
InputsInOrder ==
  \A m, n \in DOMAIN passes : m < n => passes[m].id < passes[n].id

\* No key event of trusted input mode, press or release, is handed to the OS
\* keyboard handler, whatever was queued or latched when IRQ 1 was rerouted.
TrustedKeysStayInSmm ==
  [][KbdIsr => queue = <<>> \/ ~Head(queue).trusted]_vars

\* A client that waits in select for input put into the ring since its open, or while
\* a session ends, gets back to its caller if it is not killed: the event is never
\* consumed without it, also when the ring was full and the input of the session is lost.
SelectReturns == (pc = "select" /\ (Awaited # {} \/ ipi)) ~> (pc \in {"idle", "gone"})

\* article.tex: trusted input mode ends after an enter key is hit and released,
\* so every input that was sent contains the carriage return of that hit.
EnterWasHit == \A e \in Ready : \E n \in DOMAIN ring[e].text : ring[e].text[n] = "CR"
=============================================================================
