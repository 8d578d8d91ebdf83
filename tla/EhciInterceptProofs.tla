------------------------ MODULE EhciInterceptProofs ------------------------
(***************************************************************************)
(* Proofs about EhciIntercept for every set of entries, vectors and keys   *)
(* and every length of the report, with the OS rewriting its entries at    *)
(* any time.                                                               *)
(***************************************************************************)
EXTENDS EhciIntercept, SequenceTheorems, TLAPS

\* The first key of the report.
FirstKey == mem["report"][1]

\* An entry is the OS's or, with the OS's vector kept in usb_vec, SMM's;
\* before the first request there is nothing to take.
RouteInv ==
  /\ \A i \in Irq : redtbl[i] = osVector[i] \/ i = UsbIrq
  /\ ~Intercepting => redtbl[UsbIrq] = osVector[UsbIrq]
  /\ Intercepting => isSupervisorOn /\ usb_vec = osVector[UsbIrq]
  /\ ~isSupervisorOn => taken = <<>>
  /\ data # "report" => shown = <<>>

\* The endpoint is queued only when the last completion was seen, and while
\* the entry is SMM's the report has no first key from the SMI of a key to
\* the next completion.
ReportInv ==
  /\ armed => ~usbsts
  /\ Intercepting /\ shown # <<>> /\ (armed \/ usbsts) => FirstKey = 0

IInv == TypeOK /\ RouteInv /\ ReportInv /\ FirstKeysTaken /\ FirstKeyHidden /\ CompletionPending

LEMMA InitInv == Init => IInv
<1> SUFFICES ASSUME Init PROVE IInv
  OBVIOUS
<1>1. redtbl \in [Irq -> Vector \cup {APIC_DM_SMI}]
  <2>1. [Irq -> Vector] \subseteq [Irq -> Vector \cup {APIC_DM_SMI}]
    OBVIOUS
  <2> QED
    BY <2>1 DEF Init
<1>2. /\ usb_vec \in IF isSupervisorOn THEN Vector ELSE {0}
      /\ data \in IF isSupervisorOn THEN {"report", "stray"} ELSE {"null"}
  BY DEF Init
<1>3. shown \in Seq(Code) /\ taken \in Seq(Code) /\ held \in Seq(Key)
  BY DEF Init
<1>4. /\ isSupervisorOn \in BOOLEAN /\ published \in BOOLEAN
      /\ armed \in BOOLEAN /\ usbsts \in BOOLEAN /\ passed \in BOOLEAN
  BY Zenon DEF Init
<1>5. mem \in [{"report", "stray"} -> Report]
  BY DEF Init, Report, Code
<1>6. TypeOK
  BY <1>1, <1>2, <1>3, <1>4, <1>5 DEF Init, TypeOK
<1>7. RouteInv /\ ~Intercepting
  BY EhciAssumption DEF Init, RouteInv, Intercepting, APIC_DM_SMI
<1> QED
  BY <1>6, <1>7 DEF Init, IInv, ReportInv, FirstKeysTaken, FirstKeyHidden, CompletionPending

\* The first key is a code or none.
LEMMA FirstKeyType == TypeOK => FirstKey \in Code \cup {0}
  BY EhciAssumption DEF TypeOK, Report, Field, FirstKey

-----------------------------------------------------------------------------
\* A first request: the vector kept is one of the OS's, and no report since
\* then was shown or taken.
LEMMA FirstSmiStep ==
  ASSUME IInv, FirstSmi, UNCHANGED <<osVector, published, keyboard, ehci, shown, passed>>
  PROVE  IInv'
<1> USE DEF IInv, FirstSmi, ehci, keyboard
<1>1. ~isSupervisorOn /\ ~Intercepting /\ shown = <<>> /\ taken = <<>> /\ data = "null"
  BY DEF RouteInv, TypeOK
<1>2. usb_vec' \in Vector /\ usb_vec' = osVector[UsbIrq]
  BY <1>1, EhciAssumption DEF show_ioredtbl, TypeOK, RouteInv, Intercepting, APIC_DM_SMI
<1>3. FirstKey \in Code \cup {0}
  BY FirstKeyType
<1>4. TypeOK'
  BY <1>1, <1>2, <1>3, EhciAssumption DEF TypeOK, intercept_ehci, FirstKey
<1>5. RouteInv'
  BY <1>1, <1>2, EhciAssumption DEF RouteInv, TypeOK, intercept_ehci, Intercepting
<1>6. ReportInv'
  BY <1>1 DEF ReportInv
<1>7. FirstKeysTaken'
  <2>1. OneKey(FirstKey) \in Seq(Code)
    BY <1>3 DEF OneKey
  <2>2. <<>> \o OneKey(FirstKey) = OneKey(FirstKey) \o <<>>
    BY <2>1, ConcatEmptySeq
  <2> QED
    BY <1>1, <2>2 DEF FirstKeysTaken, OneKey, FirstKey
<1> QED
  BY <1>4, <1>5, <1>6, <1>7 DEF FirstKeyHidden, CompletionPending

\* What an SMI of the supervisor does to the report when data points to it.
LEMMA ServeReport ==
  ASSUME IInv, Serve
  PROVE  /\ data \in {"report", "stray"}
         /\ data = "report" => FirstKey' = 0 /\ taken' = IF FirstKey # 0 THEN Append(taken, FirstKey) ELSE taken
         /\ data = "stray" => FirstKey' = FirstKey
         /\ taken' \in Seq(Code) /\ mem' \in [{"report", "stray"} -> Report]
<1> USE DEF Serve
<1>1. data \in {"report", "stray"} /\ mem \in [{"report", "stray"} -> Report]
  BY DEF IInv, TypeOK
<1>2. 1 \in Field /\ mem[data] \in Report
  BY <1>1, EhciAssumption DEF Field
<1>3. mem[data][1] \in Code \cup {0}
  BY <1>2 DEF Report
<1>4. ClearReport(mem[data]) \in Report /\ ClearReport(mem[data])[1] = 0
  BY <1>2 DEF ClearReport, Report
<1>5. taken' \in Seq(Code)
  BY <1>3, AppendProperties DEF IInv, TypeOK
<1>6. mem' \in [{"report", "stray"} -> Report]
  BY <1>1, <1>4
<1>7. mem'[data] = ClearReport(mem[data]) /\ \A b \in {"report", "stray"} \ {data} : mem'[b] = mem[b]
  BY <1>1
<1> QED
  BY <1>1, <1>4, <1>5, <1>6, <1>7 DEF FirstKey

\* An SMI of the supervisor moves the first key of the report to the end of taken.
LEMMA ServeStep ==
  ASSUME IInv, Serve, UNCHANGED <<osVector, published, keyboard, armed, shown, passed>>,
         \/ usbsts' = usbsts
         \/ ~armed /\ usbsts' = TRUE /\ Intercepting
  PROVE  IInv'
<1> USE DEF IInv, Serve, smm, keyboard
<1>1. /\ data \in {"report", "stray"}
      /\ data = "report" => FirstKey' = 0 /\ taken' = IF FirstKey # 0 THEN Append(taken, FirstKey) ELSE taken
      /\ taken' \in Seq(Code) /\ mem' \in [{"report", "stray"} -> Report]
  BY ServeReport
<1>2. usbsts' \in BOOLEAN
  BY DEF TypeOK
<1>3. TypeOK'
  BY <1>1, <1>2 DEF TypeOK, trigger_self_ipi
<1>4. RouteInv' /\ Intercepting' = Intercepting
  BY DEF RouteInv, Intercepting
<1>5. ReportInv'
  BY <1>1, <1>4 DEF ReportInv, RouteInv
<1>6. FirstKeysTaken'
  <2> SUFFICES ASSUME data = "report", Intercepting
               PROVE  FirstKeysTaken'
    BY <1>4 DEF FirstKeysTaken
  <2>1. taken' \o OneKey(FirstKey') = taken \o OneKey(FirstKey)
    <3>1. CASE FirstKey # 0
      <4>1. taken' = taken \o <<FirstKey>>
        BY <1>1, <3>1, FirstKeyType, AppendIsConcat DEF TypeOK
      <4>2. taken' \o <<>> = taken'
        BY <1>1, ConcatEmptySeq
      <4> QED
        BY <1>1, <3>1, <4>1, <4>2 DEF OneKey
    <3>2. CASE FirstKey = 0
      BY <1>1, <3>2 DEF OneKey
    <3> QED
      BY <3>1, <3>2
  <2>2. PICK first \in {<<>>, OneKey(before)} : taken \o OneKey(FirstKey) = first \o shown
    BY DEF FirstKeysTaken, FirstKey
  <2>3. OneKey(before)' = OneKey(before)
    BY DEF OneKey
  <2> QED
    BY <2>1, <2>2, <2>3 DEF FirstKeysTaken, FirstKey
<1>7. CompletionPending'
  <2>1. CASE usbsts' = usbsts
    BY <2>1 DEF CompletionPending, trigger_self_ipi
  <2>2. CASE Intercepting
    BY <2>2, EhciAssumption DEF CompletionPending, trigger_self_ipi, RouteInv, TypeOK
  <2> QED
    BY <2>1, <2>2
<1> QED
  BY <1>3, <1>4, <1>5, <1>6, <1>7 DEF FirstKeyHidden

-----------------------------------------------------------------------------
\* A function on 1..n is a sequence (what Release makes of the keys held).
LEMMA FunctionIsSeq ==
  ASSUME NEW S, NEW n \in Nat, NEW f \in [1..n -> S]
  PROVE  f \in Seq(S)
<1>1. [1..n -> S] \in {[1..m -> S] : m \in Nat}
  OBVIOUS
<1>2. f \in UNION {[1..m -> S] : m \in Nat}
  BY <1>1
<1> QED
  BY <1>2, SeqDef

\* Sequences of codes may be regrouped.
LEMMA ConcatCodes == \A s, t, u \in Seq(Code) : (s \o t) \o u = s \o (t \o u)
  BY ConcatAssociative

\* What a key event makes of the keyboard.
LEMMA KeycodeType ==
  ASSUME TypeOK, process_keycode
  PROVE  held' \in Seq(Key) /\ modifiers' \in {0, 1}
<1> USE DEF TypeOK
<1>1. ASSUME NEW k \in Key, Press(k) PROVE held' \in Seq(Key) /\ modifiers' \in {0, 1}
  BY <1>1, AppendProperties DEF Press
<1>2. ASSUME NEW k \in Key, Release(k) PROVE held' \in Seq(Key) /\ modifiers' \in {0, 1}
  <2>1. CASE held' = held
    BY <1>2, <2>1 DEF Release
  <2>2. CASE held' # held
    <3>1. PICK i \in DOMAIN held :
            held' = [j \in 1..(Len(held) - 1) |-> IF j = i THEN held[Len(held)] ELSE held[j]]
      BY <1>2, <2>2 DEF Release
    <3>2. Len(held) \in Nat /\ Len(held) - 1 \in Nat /\ i \in 1..Len(held)
      BY <3>1, LenProperties
    <3>3. \A j \in 1..Len(held) : held[j] \in Key
      BY ElementOfSeq
    <3>4. held' \in [1..(Len(held) - 1) -> Key]
      BY <3>1, <3>2, <3>3
    <3>5. held' \in Seq(Key)
      BY <3>2, <3>4, FunctionIsSeq
    <3> QED
      BY <1>2, <3>5 DEF Release
  <2> QED
    BY <2>1, <2>2
<1>3. ASSUME NEW m \in {0, 1}, Modify(m) PROVE held' \in Seq(Key) /\ modifiers' \in {0, 1}
  BY <1>3 DEF Modify
<1> QED
  BY <1>1, <1>2, <1>3 DEF process_keycode

\* A completion overwrites the report; a first key that is still in it is
\* one from before the interception.
LEMMA CompleteStep == ASSUME IInv, Complete PROVE IInv'
<1> USE DEF IInv, Complete, smm
<1>1. held' \in Seq(Key) /\ modifiers' \in {0, 1}
  BY KeycodeType
<1>2. mem' \in [{"report", "stray"} -> Report]
  <2>1. \A f \in 1..Len(held') : held'[f] \in Key
    BY <1>1, ElementOfSeq
  <2>2. hid_keyboard_poll(held', modifiers') \in Report
    BY <1>1, <2>1, LenProperties, EhciAssumption
       DEF hid_keyboard_poll, Report, Field, Code, HID_USAGE_ERROR_ROLLOVER
  <2> QED
    BY <2>2 DEF TypeOK
<1>3. FirstKey' \in Code \cup {0}
  BY <1>2, EhciAssumption DEF Report, Field, FirstKey
<1>4. shown' = IF data = "report" THEN shown \o OneKey(FirstKey') ELSE shown
  BY <1>3, AppendIsConcat, ConcatEmptySeq DEF TypeOK, FirstKey, OneKey
<1>5. shown' \in Seq(Code)
  <2>1. shown \in Seq(Code)
    BY DEF TypeOK
  <2>2. \A c \in Code : Append(shown, c) \in Seq(Code)
    BY <2>1, AppendProperties
  <2> QED
    BY <1>3, <2>1, <2>2 DEF FirstKey
<1>6. TypeOK'
  BY <1>1, <1>2, <1>5 DEF TypeOK
<1>7. RouteInv' /\ Intercepting' = Intercepting
  BY DEF RouteInv, Intercepting
<1>8. ReportInv'
  BY DEF ReportInv
<1>9. FirstKeysTaken'
  <2> SUFFICES ASSUME data = "report", Intercepting
               PROVE  \E first \in {<<>>, OneKey(before)} :
                        taken \o OneKey(FirstKey') = first \o shown'
    BY <1>7, Zenon DEF FirstKeysTaken, OneKey, FirstKey
  <2>1. PICK first \in {<<>>, OneKey(before)} : taken \o OneKey(FirstKey) = first \o shown
    BY DEF FirstKeysTaken, FirstKey
  <2>2. /\ taken \in Seq(Code) /\ shown \in Seq(Code) /\ first \in Seq(Code)
        /\ OneKey(FirstKey') \in Seq(Code) /\ Len(first) <= 1
    <3>1. ASSUME NEW key \in Code \cup {0}
          PROVE  OneKey(key) \in Seq(Code) /\ Len(OneKey(key)) <= 1
      BY DEF OneKey
    <3>2. before \in Code \cup {0} /\ taken \in Seq(Code) /\ shown \in Seq(Code)
      BY DEF TypeOK
    <3>3. <<>> \in Seq(Code) /\ Len(<<>>) <= 1
      OBVIOUS
    <3>4. OneKey(before) \in Seq(Code) /\ Len(OneKey(before)) <= 1
      BY <3>1, <3>2
    <3>5. OneKey(FirstKey') \in Seq(Code)
      BY <1>3, <3>1
    <3>6. first \in Seq(Code) /\ Len(first) <= 1
      BY <2>1, <3>3, <3>4, Zenon
    <3> QED
      BY <3>2, <3>5, <3>6
  <2>3. shown' = shown \o OneKey(FirstKey')
    BY <1>4
  <2>4. CASE FirstKey = 0
    <3>1. taken = first \o shown
      BY <2>1, <2>2, <2>4, ConcatEmptySeq DEF OneKey
    <3>2. (first \o shown) \o OneKey(FirstKey') = first \o (shown \o OneKey(FirstKey'))
      BY <2>2, ConcatCodes, Zenon
    <3>3. taken \o OneKey(FirstKey') = first \o shown'
      BY <2>3, <3>1, <3>2
    <3> QED
      BY <2>1, <3>3
  <2>5. CASE FirstKey # 0
    <3>1. shown = <<>>
      BY <2>5 DEF ReportInv
    <3>2. taken \o <<FirstKey>> = first
      BY <2>1, <2>2, <2>5, <3>1, ConcatEmptySeq DEF OneKey
    <3>3. Len(taken \o <<FirstKey>>) = Len(taken) + 1
      BY <2>2, <2>5, FirstKeyType, ConcatProperties
    <3>4. taken = <<>>
      BY <2>2, <3>2, <3>3, EmptySeq
    <3> QED
      BY <2>3, <3>1, <3>4
  <2> QED
    BY <2>4, <2>5
<1> QED
  BY <1>6, <1>7, <1>8, <1>9 DEF FirstKeyHidden, CompletionPending

\* The driver reads a report without a first key once one was shown.
LEMMA OsHandlerStep ==
  ASSUME IInv, NEW v \in Vector, OsHandler(v)
  PROVE  IInv'
<1> USE DEF IInv, OsHandler, smm, ehci, keyboard
<1>1. TypeOK'
  BY DEF TypeOK
<1>2. RouteInv' /\ Intercepting' = Intercepting
  BY DEF RouteInv, Intercepting
<1>3. ReportInv'
  BY <1>2 DEF ReportInv, FirstKey
<1>4. FirstKeysTaken'
  BY <1>2 DEF FirstKeysTaken, OneKey
<1>5. FirstKeyHidden'
  BY DEF FirstKeyHidden, ReportInv, FirstKey
<1>6. CompletionPending'
  BY DEF CompletionPending
<1> QED
  BY <1>1, <1>2, <1>3, <1>4, <1>5, <1>6

\* A write of the intercepted entry ends the interception; another entry
\* does not touch it.
LEMMA OsWriteStep ==
  ASSUME IInv, NEW e \in Irq, NEW v \in Vector, OsWrite(e, v)
  PROVE  IInv'
<1> USE DEF IInv, OsWrite, smm, ehci, keyboard, history
<1>1. TypeOK'
  BY DEF TypeOK
<1>2. /\ redtbl'[e] = v /\ osVector'[e] = v
      /\ \A i \in Irq \ {e} : redtbl'[i] = redtbl[i] /\ osVector'[i] = osVector[i]
  BY DEF TypeOK
<1>3. Intercepting' => Intercepting /\ e # UsbIrq
  BY <1>2, EhciAssumption DEF Intercepting, APIC_DM_SMI
<1>4. RouteInv'
  <2>1. \A i \in Irq : redtbl'[i] = osVector'[i] \/ i = UsbIrq
    BY <1>2 DEF RouteInv
  <2>2. ~Intercepting' => redtbl'[UsbIrq] = osVector'[UsbIrq]
    BY <1>2, EhciAssumption DEF RouteInv, Intercepting
  <2>3. Intercepting' => isSupervisorOn' /\ usb_vec' = osVector'[UsbIrq]
    BY <1>2, <1>3, EhciAssumption DEF RouteInv
  <2> QED
    BY <2>1, <2>2, <2>3 DEF RouteInv
<1>5. ReportInv'
  BY <1>3 DEF ReportInv, FirstKey
<1>6. FirstKeysTaken'
  BY <1>3 DEF FirstKeysTaken, OneKey
<1>7. CompletionPending'
  BY <1>2, EhciAssumption DEF CompletionPending
<1> QED
  BY <1>1, <1>4, <1>5, <1>6, <1>7 DEF FirstKeyHidden

\* One step per action of the OS, of SMM and of the controller.
LEMMA Step == IInv /\ [Next]_vars => IInv'
<1> SUFFICES ASSUME IInv, [Next]_vars PROVE IInv'
  OBVIOUS
<1>1. ASSUME NEW e \in Irq, NEW v \in Vector, OsWrite(e, v) PROVE IInv'
  BY <1>1, OsWriteStep
<1>2. ASSUME NEW v \in Vector, OsHandler(v) PROVE IInv'
  BY <1>2, OsHandlerStep
<1>3. CASE OsPublish
  BY <1>3 DEF OsPublish, IInv, TypeOK, RouteInv, ReportInv, FirstKeysTaken, OneKey, FirstKeyHidden,
              CompletionPending, FirstKey, Intercepting, smm, keyboard, ehci, history
<1>4. CASE Request
  <2>1. CASE FirstSmi
    BY <1>4, <2>1, FirstSmiStep DEF Request
  <2>2. CASE Serve
    <3>1. UNCHANGED <<osVector, published, keyboard, armed, shown, passed>> /\ usbsts' = usbsts
      BY <1>4 DEF Request, ehci
    <3> QED
      BY <2>2, <3>1, ServeStep
  <2> QED
    BY <1>4, <2>1, <2>2 DEF Request
<1>5. CASE Complete
  BY <1>5, CompleteStep
<1>6. CASE DeviceIrq
  <2>1. CASE Intercepting
    BY <1>6, <2>1, ServeStep DEF DeviceIrq
  <2>2. CASE ~Intercepting
    <3> USE <1>6, <2>2 DEF IInv, DeviceIrq, smm, keyboard
    <3>1. redtbl[UsbIrq] = osVector[UsbIrq] /\ osVector[UsbIrq] \in Vector
      BY EhciAssumption DEF TypeOK, RouteInv
    <3>2. usbsts' \in BOOLEAN
      BY Zenon
    <3>3. TypeOK'
      BY <3>1, <3>2 DEF TypeOK
    <3>4. RouteInv' /\ ~Intercepting'
      BY DEF RouteInv, Intercepting
    <3>5. ReportInv' /\ FirstKeysTaken' /\ FirstKeyHidden'
      BY <3>4 DEF ReportInv, FirstKeysTaken, FirstKeyHidden
    <3>6. CompletionPending'
      BY <3>1 DEF CompletionPending
    <3> QED
      BY <3>3, <3>4, <3>5, <3>6
  <2> QED
    BY <2>1, <2>2
<1>7. CASE UNCHANGED vars
  BY <1>7 DEF vars, IInv, TypeOK, RouteInv, ReportInv, FirstKeysTaken, OneKey, FirstKeyHidden,
              CompletionPending, FirstKey, Intercepting, smm, keyboard, ehci, history
<1> QED
  BY <1>1, <1>2, <1>3, <1>4, <1>5, <1>6, <1>7 DEF Next

-----------------------------------------------------------------------------
\* Once the supervisor is on, usb_vec is a vector of the OS: the entries are
\* read before one of them is overwritten.
THEOREM TypeCorrect == Spec => []TypeOK
<1>1. IInv => TypeOK
  BY DEF IInv
<1> QED BY <1>1, InitInv, Step, PTL DEF Spec

\* SMM takes the first key of every report once and in order, over any
\* number of requests and interrupts that run the same code.
THEOREM TakenTheorem == Spec => []FirstKeysTaken
<1>1. IInv => FirstKeysTaken
  BY DEF IInv
<1> QED BY <1>1, InitInv, Step, PTL DEF Spec

\* While the entry is SMM's the driver never reads the first key of a report
\* that was completed after the interception.
THEOREM HiddenTheorem == Spec => []FirstKeyHidden
<1>1. IInv => FirstKeyHidden
  BY DEF IInv
<1> QED BY <1>1, InitInv, Step, PTL DEF Spec

\* No interrupt of the controller is lost on its way through SMM, whatever
\* the OS does to its entries.
THEOREM HandedTheorem == Spec => []CompletionPending
<1>1. IInv => CompletionPending
  BY DEF IInv
<1> QED BY <1>1, InitInv, Step, PTL DEF Spec
=============================================================================
