---------------------------- MODULE EhciIntercept ----------------------------
(***************************************************************************)
(* The USB supervisor (seabios-usb): at the first request the interrupt of *)
(* the USB controller is routed to SMI, by the I/O APIC that the OS        *)
(* programs too; from then on every interrupt is served in SMM first,      *)
(* which takes the first key of the driver's report out of it, and handed  *)
(* on to the OS with an IPI of the vector that the OS had chosen.          *)
(*                                                                         *)
(* The OS may give the entries vectors at any time; a write of the         *)
(* intercepted entry ends the interception, which nothing in SMM repeats.  *)
(* The keyboard and the controller are those of QEMU.  The keyboard keeps  *)
(* the keys held and polls one key event per report; the controller writes *)
(* the report by DMA, raises its interrupt later, and does no more until   *)
(* the driver has seen the completion and queued the endpoint again.       *)
(***************************************************************************)
EXTENDS Naturals, Sequences

CONSTANTS
  UsbIrq,       \* USB_IRQ, and the entry of HIJACKED_OFF
  Irq,          \* the redirection entries
  Vector,       \* the vectors of the OS
  Key,          \* key codes
  ReportKeys,   \* the keys of a report (keys[6])
  MaxKeys       \* bound on the reports with a first key while intercepting

HID_USAGE_ERROR_ROLLOVER == 1

ASSUME EhciAssumption ==
  /\ UsbIrq \in Irq
  /\ 0 \notin Vector \cup Key /\ "smi" \notin Vector
  /\ ReportKeys \in Nat \ {0} /\ MaxKeys \in Nat

APIC_DM_SMI == "smi"

\* What a byte of the report may hold besides 0.
Code == Key \cup {HID_USAGE_ERROR_ROLLOVER}

\* Field 0 of a report is modifiers, field i is keys[i - 1].
Field == 0..ReportKeys
Report == [Field -> Code \cup {0}]

VARIABLES
  redtbl,           \* the redirection entries of the I/O APIC
  osVector,         \* the vector that the OS gave to each entry
  usb_vec, isSupervisorOn,
  published,        \* the driver has left the report's address at 0x100
  data,             \* what data points to once it is read from there
  mem,              \* the report, and what is at a stray address
  held, modifiers,  \* the keyboard's keys that are down
  armed, usbsts,    \* the endpoint is queued; the interrupt is raised
  irr,              \* vectors pending at the local APIC
  shown, taken,     \* first keys of the reports since the interception, and
                    \* what SMM has taken (history)
  before,           \* the first key when the interception began (history)
  passed            \* the driver has read one of the first keys (history)

smm == <<usb_vec, isSupervisorOn, data>>
keyboard == <<held, modifiers>>
ehci == <<armed, usbsts>>
history == <<shown, before, passed>>
vars == <<redtbl, osVector, smm, published, mem, keyboard, ehci, irr, taken, history>>

Init ==
  /\ osVector \in [Irq -> Vector]
  /\ \A i, j \in Irq : i # j => osVector[i] # osVector[j]
  /\ redtbl = osVector
  /\ usb_vec = 0 /\ isSupervisorOn = FALSE
  /\ published = FALSE /\ data = "null"
  /\ \E c \in {0, HID_USAGE_ERROR_ROLLOVER} :
       mem = [b \in {"report", "stray"} |-> [f \in Field |-> IF b = "stray" THEN c ELSE 0]]
  /\ held = <<>> /\ modifiers = 0
  /\ armed = TRUE /\ usbsts = FALSE /\ irr = {}
  /\ shown = <<>> /\ taken = <<>> /\ before = 0 /\ passed = FALSE

Intercepting == redtbl[UsbIrq] = APIC_DM_SMI
-----------------------------------------------------------------------------
(* The OS and its driver of the controller. *)

\* The OS writes an entry, with its vector or a new one that no other entry
\* has, when no interrupt with the old one is pending.
OsWrite(i, v) ==
  /\ osVector[i] \notin irr
  /\ \A j \in Irq \ {i} : osVector[j] # v
  /\ redtbl' = [redtbl EXCEPT ![i] = v]
  /\ osVector' = [osVector EXCEPT ![i] = v]
  /\ UNCHANGED <<smm, published, mem, keyboard, ehci, irr, taken, history>>

\* The driver leaves the address of the report at 0x100.
OsPublish ==
  /\ ~published /\ published' = TRUE
  /\ UNCHANGED <<redtbl, osVector, smm, mem, keyboard, ehci, irr, taken, history>>

\* The handler of vector v; the driver's one reads the report and queues the
\* endpoint again when the controller has a completion.
OsHandler(v) ==
  /\ v \in irr /\ irr' = irr \ {v}
  /\ IF v = osVector[UsbIrq] /\ usbsts
       THEN /\ usbsts' = FALSE /\ armed' = TRUE
            /\ passed' = (passed \/ (Intercepting /\ shown # <<>> /\ mem["report"][1] # 0))
       ELSE UNCHANGED <<ehci, passed>>
  /\ UNCHANGED <<redtbl, osVector, smm, published, mem, keyboard, taken, shown, before>>
-----------------------------------------------------------------------------
(* supervisor() *)

\* Mutant: the vectors are read after the entry is overwritten.
MutantLateTable == 0

\* show_ioredtbl keeps the low byte of the entry.
show_ioredtbl == IF redtbl[UsbIrq] = APIC_DM_SMI THEN 0 ELSE redtbl[UsbIrq]

intercept_ehci == redtbl' = [redtbl EXCEPT ![UsbIrq] = APIC_DM_SMI]

FirstSmi ==
  /\ ~isSupervisorOn /\ isSupervisorOn' = TRUE
  /\ usb_vec' = show_ioredtbl
  /\ intercept_ehci
  /\ data' = IF published THEN "report" ELSE "stray"
  /\ before' = mem["report"][1]
  /\ UNCHANGED <<mem, irr, taken>>

\* Mutant: the key stays in the report.
MutantKeepReport(r) == r

\* Mutant: the modifiers are cleared instead, the field before the keys.
MutantClearModifiers(r) == [r EXCEPT ![0] = 0]

\* keys[0] is cleared, the other keys and the modifiers stay.
ClearReport(r) == [r EXCEPT ![1] = 0]

\* Mutant: only an interrupt that brought a key is handed on.
MutantKeyIpi == irr' = IF mem[data][1] # 0 THEN irr \cup ({usb_vec} \ {0}) ELSE irr

\* An IPI needs a vector: with 0 the local APIC delivers nothing.
trigger_self_ipi == irr' = irr \cup ({usb_vec} \ {0})

Serve ==
  /\ isSupervisorOn
  /\ taken' = IF mem[data][1] # 0 THEN Append(taken, mem[data][1]) ELSE taken
  /\ mem' = [mem EXCEPT ![data] = ClearReport(@)]
  /\ trigger_self_ipi
  /\ UNCHANGED <<redtbl, smm, before>>

\* The command 0xa0 of a host process.
Request ==
  /\ FirstSmi \/ Serve
  /\ UNCHANGED <<osVector, published, keyboard, ehci, shown, passed>>
-----------------------------------------------------------------------------
(* The keyboard and the controller. *)

Held(k) == \E i \in DOMAIN held : held[i] = k

\* hid_keyboard_process_keycode: a key pressed comes last (the keyboard
\* has room for 16), the last key takes the place of one released.
Press(k) ==
  /\ held' = IF Held(k) \/ Len(held) >= 16 THEN held ELSE Append(held, k)
  /\ UNCHANGED modifiers

Release(k) ==
  /\ \/ ~Held(k) /\ held' = held
     \/ \E i \in DOMAIN held :
          /\ held[i] = k
          /\ held' = [j \in 1..(Len(held) - 1) |-> IF j = i THEN held[Len(held)] ELSE held[j]]
  /\ UNCHANGED modifiers

\* A modifier goes down or up, or the report is repeated as it was.
Modify(m) == modifiers' = m /\ UNCHANGED held

process_keycode ==
  \/ \E k \in Key : Press(k) \/ Release(k)
  \/ \E m \in {0, 1} : Modify(m)

\* The report of a poll: with too many keys down, no key but the roll-over
\* code in every field.
hid_keyboard_poll(h, m) ==
  [f \in Field |-> IF f = 0 THEN m
                   ELSE IF Len(h) > ReportKeys THEN HID_USAGE_ERROR_ROLLOVER
                   ELSE IF f <= Len(h) THEN h[f] ELSE 0]

\* DMA of the next report.
Complete ==
  /\ armed /\ armed' = FALSE
  /\ process_keycode
  /\ mem' = [mem EXCEPT !["report"] = hid_keyboard_poll(held', modifiers')]
  /\ IF data = "report" /\ mem'["report"][1] # 0
       THEN Len(shown) < MaxKeys /\ shown' = Append(shown, mem'["report"][1])
       ELSE UNCHANGED shown
  /\ UNCHANGED <<redtbl, osVector, smm, published, usbsts, irr, taken, before, passed>>

\* The interrupt goes where its entry says.
DeviceIrq ==
  /\ ~armed /\ ~usbsts /\ usbsts' = TRUE
  /\ \/ Intercepting /\ Serve
     \/ /\ ~Intercepting
        /\ irr' = irr \cup {redtbl[UsbIrq]}
        /\ UNCHANGED <<redtbl, smm, mem, taken, before>>
  /\ UNCHANGED <<osVector, published, keyboard, armed, shown, passed>>

Next ==
  \/ \E i \in Irq, v \in Vector : OsWrite(i, v)
  \/ \E v \in Vector : OsHandler(v)
  \/ OsPublish \/ Request \/ Complete \/ DeviceIrq

Spec == Init /\ [][Next]_vars

\* A raised interrupt is delivered by the hardware, and the OS runs the
\* handlers of the interrupts that are pending.
Fairness == WF_vars(DeviceIrq) /\ \A v \in Vector : WF_vars(OsHandler(v))

FairSpec == Spec /\ Fairness
-----------------------------------------------------------------------------
\* Once the supervisor is on, the vector handed on is one of the OS's.
TypeOK ==
  /\ redtbl \in [Irq -> Vector \cup {APIC_DM_SMI}] /\ osVector \in [Irq -> Vector]
  /\ isSupervisorOn \in BOOLEAN /\ published \in BOOLEAN
  /\ usb_vec \in IF isSupervisorOn THEN Vector ELSE {0}
  /\ data \in IF isSupervisorOn THEN {"report", "stray"} ELSE {"null"}
  /\ mem \in [{"report", "stray"} -> Report] /\ before \in Code \cup {0}
  /\ held \in Seq(Key) /\ modifiers \in {0, 1}
  /\ armed \in BOOLEAN /\ usbsts \in BOOLEAN /\ irr \subseteq Vector
  /\ shown \in Seq(Code) /\ taken \in Seq(Code) /\ passed \in BOOLEAN

OneKey(k) == IF k = 0 THEN <<>> ELSE <<k>>

\* SMM takes the first key of every report since the interception once and in order,
\* although a second request runs the same code as an interrupt; at most the key that was
\* in the report before comes first.  A key that is held is in every report again and is
\* taken as often, one that is not the first of a report is not taken.
FirstKeysTaken ==
  data = "report" /\ Intercepting =>
    \E first \in {<<>>, OneKey(before)} :
      taken \o OneKey(mem["report"][1]) = first \o shown

\* As long as the entry is SMM's, the driver finds no first key in a report since the
\* interception: the IPI is sent after keys[0] is cleared, and no interrupt reaches the
\* driver past SMM.  The other keys and the modifiers of a report it does read.
FirstKeyHidden == ~passed

\* A completion that the driver has not seen has its vector pending at the local APIC,
\* before, during and after the interception, whenever the OS changes its vectors: the SMI
\* in between loses no interrupt and hands none on under another vector.
CompletionPending == usbsts => osVector[UsbIrq] \in irr

\* "it issues an inter-processor interrupt (IPI)": an interrupt taken by SMM
\* is handed on to the handler that the OS has for it, which queues the
\* endpoint again.
InterruptsHandedOn == ~armed ~> armed
=============================================================================
