-------------------------- MODULE SecureInputProofs --------------------------
(***************************************************************************)
(* Proofs about SecureInput for every ring size, every set of characters   *)
(* and any number of key presses and requests.                             *)
(***************************************************************************)
EXTENDS SecureInput, SequenceTheorems, WellFoundedInduction, TLAPS

\* RouteConsistent is not inductive: a first request must find the index at 0,
\* and a keystroke must not be able to bring the index to -1.
RouteInv ==
  /\ RouteConsistent
  /\ route \in {"OS", "SMI"}
  /\ isFirstPhrase \in BOOLEAN
  /\ i \in Int /\ i >= -1
  /\ isFirstPhrase => i = 0

\* A branch of supervisor() preserves RouteInv.
LEMMA SupervisorRoute ==
  ASSUME RouteInv, NEW latched, supervisor(latched)
  PROVE  RouteInv'
<1> USE DEF RouteInv, RouteConsistent, InSession
<1>1. CASE FirstPhrase(latched)
  <2>1. isFirstPhrase /\ isFirstPhrase' \in BOOLEAN /\ ~isFirstPhrase'
    BY <1>1, Zenon DEF FirstPhrase
  <2>2. i = 0 /\ i' = 0
    BY <1>1, <2>1 DEF FirstPhrase
  <2>3. route = "OS"
    BY <2>1
  <2>4. kbd_vec' = "OS" /\ route' = "SMI"
    BY <1>1, <2>3 DEF FirstPhrase, hijack_keyboard
  <2>5. InSession'
    BY <2>1, <2>2
  <2> QED BY <2>1, <2>2, <2>4, <2>5
<1>2. CASE NextPhrase(latched)
  BY <1>2 DEF NextPhrase, hijack_keyboard
<1>3. CASE EnterReleased(latched)
  BY <1>3 DEF EnterReleased, recover_keyboard
<1>4. CASE KeyStroke(latched)
  BY <1>4 DEF KeyStroke
<1> QED BY <1>1, <1>2, <1>3, <1>4 DEF supervisor

\* Every other step leaves the supervisor's statics and the I/O APIC alone.
LEMMA OthersKeepSmm ==
  ASSUME [Next]_vars
  PROVE  UNCHANGED smm \/ (\E latched : supervisor(latched))
<1> USE DEF smm
<1>1. CASE KbdIsr
  BY <1>1 DEF KbdIsr
<1>2. CASE KbdSmi
  BY <1>2 DEF KbdSmi
<1>3. CASE irq_handler
  BY <1>3 DEF irq_handler
<1>4. CASE ocall_smi
  BY <1>4 DEF ocall_smi
<1>5. CASE poll_getchar \/ poll_select \/ poll_error
  BY <1>5 DEF poll_getchar, poll_select, poll_error
<1>6. CASE get_in_buffer \/ read_passphrase \/ open_uio \/ ecall_secure_input \/ ClientKilled
  BY <1>6 DEF get_in_buffer, read_passphrase, open_uio, ecall_secure_input, ClientKilled
<1>7. CASE User
  BY <1>7 DEF User, Press, Release, KeyEvent
<1>8. CASE UNCHANGED vars
  BY <1>8 DEF vars
<1> QED BY <1>1, <1>2, <1>3, <1>4, <1>5, <1>6, <1>7, <1>8 DEF Next, Machine

\* Every step preserves RouteInv.
LEMMA RouteStep == RouteInv /\ [Next]_vars => RouteInv'
<1> SUFFICES ASSUME RouteInv, [Next]_vars PROVE RouteInv'
  OBVIOUS
<1>1. CASE UNCHANGED smm
  BY <1>1 DEF smm, RouteInv, RouteConsistent, InSession
<1> QED BY <1>1, OthersKeepSmm, SupervisorRoute

\* IRQ 1 goes to SMI exactly in trusted input mode and the vector that will be
\* restored is the OS vector, after any history of requests and key events.
THEOREM RouteTheorem == Spec => []RouteConsistent
<1>1. Init => RouteInv
  BY DEF Init, RouteInv, RouteConsistent, InSession
<1>2. RouteInv => RouteConsistent
  BY DEF RouteInv
<1> QED BY <1>1, <1>2, RouteStep, PTL DEF Spec

-----------------------------------------------------------------------------
\* A branch of supervisor() puts a message only together with the IPI.
LEMMA SupervisorWakeup ==
  ASSUME NoLostWakeup, NEW latched, supervisor(latched),
         UNCHANGED <<event, orphans>>, pc' \notin {"drain", "gone"} => pc \notin {"drain", "gone"}
  PROVE  NoLostWakeup'
<1> USE DEF NoLostWakeup, Awaited, Ready
<1>1. CASE FirstPhrase(latched)
  BY <1>1 DEF FirstPhrase
<1>2. CASE NextPhrase(latched)
  BY <1>2 DEF NextPhrase
<1>3. CASE EnterReleased(latched)
  BY <1>3 DEF EnterReleased, trigger_self_ipi
<1>4. CASE KeyStroke(latched)
  BY <1>4 DEF KeyStroke
<1> QED BY <1>1, <1>2, <1>3, <1>4 DEF supervisor

\* A message put since the client's open is announced by a pending IPI or an unread UIO event
\* unless the client is already draining: the client cannot miss it in select.
THEOREM WakeupTheorem == Spec => []NoLostWakeup
<1>1. Init => NoLostWakeup
  BY DEF Init, NoLostWakeup, Awaited, Ready
<1>2. NoLostWakeup /\ [Next]_vars => NoLostWakeup'
  <2> SUFFICES ASSUME NoLostWakeup, [Next]_vars PROVE NoLostWakeup'
    OBVIOUS
  <2> USE DEF NoLostWakeup, Awaited, Ready, app, uio
  <2>1. CASE KbdIsr
    BY <2>1 DEF KbdIsr
  <2>2. CASE KbdSmi
    BY <2>2, SupervisorWakeup DEF KbdSmi
  <2>3. CASE irq_handler
    BY <2>3 DEF irq_handler
  <2>4. CASE ocall_smi
    BY <2>4, SupervisorWakeup DEF ocall_smi
  <2>5. CASE poll_getchar
    BY <2>5 DEF poll_getchar, PollDone
  <2>6. CASE poll_select
    BY <2>6 DEF poll_select, PollDone
  <2>7. CASE poll_error
    BY <2>7 DEF poll_error, PollDone
  <2>8. CASE get_in_buffer
    BY <2>8 DEF get_in_buffer
  <2>9. CASE read_passphrase
    BY <2>9 DEF read_passphrase
  <2>10. CASE ecall_secure_input
    BY <2>10 DEF ecall_secure_input
  <2>11. CASE User
    BY <2>11 DEF User, Press, Release, KeyEvent
  <2>12. CASE UNCHANGED vars
    BY <2>12 DEF vars
  <2>13. CASE ClientKilled
    BY <2>13 DEF ClientKilled
  <2>14. CASE open_uio
    <3>1. Ready' = Ready /\ orphans' = orphans \cup {ring[e].id : e \in Ready} /\ ring' = ring
      BY <2>14 DEF open_uio
    <3>2. Awaited' = {}
      BY <3>1
    <3> QED BY <3>2
  <2> QED BY <2>1, <2>2, <2>3, <2>4, <2>5, <2>6, <2>7, <2>8, <2>9, <2>10, <2>11, <2>12, <2>13, <2>14
          DEF Next, Machine
<1> QED BY <1>1, <1>2, PTL DEF Spec

-----------------------------------------------------------------------------
\* What one read of the data port leaves is typed.
LEMMA QueueType ==
  ASSUME TypeOK
  PROVE  Rest \in Seq(Byte) /\ DataByte \in Byte
BY DEF TypeOK, Rest, DataByte

\* The translation of a key is one character.
LEMMA XlateType ==
  ASSUME NEW k \in Key
  PROVE  xlate[k] \in Char \cup {"NUL", "CR"}
BY DEF xlate, Key

\* put_in_buffer leaves a ring of messages.
LEMMA PutInType ==
  ASSUME TypeOK, NEW m \in Msg, PutIn(m)
  PROVE  ring' \in [Entry -> Msg \cup {None}]
<1> DEFINE free == {e \in Entry : ring[e] = None}
<1>1. CASE free = {}
  BY <1>1 DEF PutIn, TypeOK
<1>2. CASE free # {}
  BY <1>2 DEF PutIn, TypeOK
<1> QED BY <1>1, <1>2

\* A branch of supervisor() keeps the types.
LEMMA SupervisorType ==
  ASSUME TypeOK, RouteInv, NEW latched, latched \subseteq {"OS", "SMI"}, supervisor(latched),
         UNCHANGED <<event, stdin, recv_msg, passes, kills, orphans, user>>, pc' \in Label
  PROVE  TypeOK'
<1> USE DEF user
<1>0. Rest \in Seq(Byte) /\ DataByte \in Byte
  BY QueueType
<1>1. CASE FirstPhrase(latched)
  <2>1. i' = 0 /\ isFirstPhrase' \in BOOLEAN
    BY <1>1, Zenon DEF FirstPhrase, RouteInv
  <2>2. UNCHANGED <<queue, last, ipi>> /\ irq' = latched /\ kbd_vec' = route /\ route' = "SMI"
    BY <1>1 DEF FirstPhrase, hijack_keyboard
  <2>3. kbd_buffer' = <<>> /\ session' = session + 1 /\ ring' = [e \in Entry |-> None]
    BY <1>1 DEF FirstPhrase, hijack_keyboard, ClearBuffer
  <2> QED BY <2>1, <2>2, <2>3 DEF TypeOK, Text
<1>2. CASE NextPhrase(latched)
  BY <1>2 DEF NextPhrase, hijack_keyboard, ClearBuffer, TypeOK, Text
<1>3. CASE EnterReleased(latched)
  <2>1. [id |-> session, text |-> kbd_buffer] \in Msg
    BY DEF TypeOK, Msg
  <2>2. ring' \in [Entry -> Msg \cup {None}]
    BY <1>3, <2>1, PutInType DEF EnterReleased
  <2>3. irq' \subseteq {"OS", "SMI"} /\ route' \in {"OS", "SMI"}
    BY <1>3 DEF EnterReleased, Raise, recover_keyboard, TypeOK
  <2> QED BY <1>3, <1>0, <2>2, <2>3 DEF EnterReleased, trigger_self_ipi, TypeOK
<1>4. CASE KeyStroke(latched)
  <2>1. irq' \subseteq {"OS", "SMI"}
    BY <1>4 DEF KeyStroke, Raise, TypeOK
  <2>2. kbd_buffer' \in Text /\ i' \in Int /\ i' >= -1 /\ (i' >= 0 => i' = Len(kbd_buffer'))
    <3>1. CASE ~DataByte.up
      <4>1. xlate[DataByte.key] \in Char \cup {"NUL", "CR"}
        BY <1>0, XlateType DEF Byte
      <4>2. kbd_buffer' = Append(kbd_buffer, xlate[DataByte.key]) /\ i' = i + 1 /\ i # -1
        BY <1>4, <3>1, Zenon DEF KeyStroke
      <4> QED BY <4>1, <4>2 DEF TypeOK, Text
    <3>2. CASE DataByte.up
      BY <1>4, <3>2 DEF KeyStroke, TypeOK
    <3> QED BY <3>1, <3>2
  <2> QED BY <1>4, <1>0, <2>1, <2>2 DEF KeyStroke, TypeOK
<1> QED BY <1>1, <1>2, <1>3, <1>4 DEF supervisor

\* A nonempty set of naturals has a smallest element.
LEMMA SmallestNat ==
  ASSUME NEW S \in SUBSET Nat, S # {}
  PROVE  \E n \in S : \A k \in S : n <= k
<1> DEFINE R == OpToRel(<, Nat)
<1>1. PICK n \in S : \A k \in S : ~(<<k, n>> \in R)
  BY NatLessThanWellFounded, WFMin, Zenon
<1>2. ASSUME NEW k \in S PROVE n <= k
  <2>1. ~(k < n)
    BY <1>1 DEF OpToRel
  <2> QED BY <2>1
<1> QED BY <1>1, <1>2

\* The prefix of a text is a text.
LEMMA PrefixType ==
  ASSUME NEW t \in Text, NEW n \in Int, n <= Len(t)
  PROVE  SubSeq(t, 1, n) \in Text
<1>1. \A k \in 1 .. n : t[k] \in Char \cup {"NUL", "CR"}
  BY DEF Text
<1> QED BY <1>1, SubSeqProperties DEF Text

\* What strlen sees of a text is a text.
LEMMA CStringType ==
  ASSUME NEW t \in Text
  PROVE  CString(t) \in Text
<1> DEFINE ends == {n \in 1 .. Len(t) : t[n] = "NUL"}
           first == CHOOSE n \in ends : \A k \in ends : n <= k
<1>1. CASE ends = {}
  BY <1>1, Zenon DEF CString
<1>2. CASE ends # {}
  <2>1. CString(t) = SubSeq(t, 1, first - 1)
    BY <1>2, Zenon DEF CString
  <2>2. \E n \in ends : \A k \in ends : n <= k
    <3>1. Len(t) \in Nat
      BY DEF Text
    <3>2. ends \in SUBSET Nat /\ ends # {}
      BY <1>2, <3>1
    <3> HIDE DEF ends
    <3> QED BY <3>2, SmallestNat
  <2>3. first \in ends
    BY <2>2, Zenon
  <2>4. first - 1 \in Int /\ first - 1 <= Len(t)
    BY <2>3 DEF Text
  <2> QED BY <2>1, <2>4, PrefixType
<1> QED BY <1>1, <1>2

\* Init and every step keep the types, together with RouteInv.
LEMMA TypeInit == Init => TypeOK /\ RouteInv
<1> SUFFICES ASSUME Init PROVE TypeOK /\ RouteInv
  OBVIOUS
<1>1. RouteInv
  BY DEF Init, RouteInv, RouteConsistent, InSession
<1>2. NoText \in Msg
  BY DEF NoText, Msg, Text
<1>3. last \in Byte
  BY DEF Init, Byte, Key
<1>4. held \subseteq Key
  BY DEF Init, Key
<1>5. queue = <<>> /\ kbd_buffer = <<>> /\ stdin = <<>> /\ passes = <<>> /\ recv_msg = NoText
  BY DEF Init
<1>6. isFirstPhrase \in BOOLEAN /\ ipi \in BOOLEAN /\ event \in BOOLEAN
  BY DEF Init
<1>7. ring \in [Entry -> Msg \cup {None}]
  BY DEF Init
<1>8. kills \in 0 .. MaxKills
  BY BoundsAssumption DEF Init
<1>9. queue \in Seq(Byte) /\ kbd_buffer \in Text /\ stdin \in Seq({"x", "nl"}) /\ passes \in Seq(Msg)
  BY <1>5 DEF Text
<1>10. irq \subseteq {"OS", "SMI"} /\ route \in {"OS", "SMI"} /\ kbd_vec \in {"OS", "SMI"} /\ i = 0
       /\ pc \in Label /\ presses \in Nat /\ calls \in Nat /\ session \in Nat /\ orphans \subseteq Nat
  BY DEF Init, Label
<1> QED BY <1>1, <1>2, <1>3, <1>4, <1>5, <1>6, <1>7, <1>8, <1>9, <1>10 DEF TypeOK

LEMMA TypeStep == TypeOK /\ RouteInv /\ [Next]_vars => TypeOK'
<1> SUFFICES ASSUME TypeOK, RouteInv, [Next]_vars PROVE TypeOK'
  OBVIOUS
<1> USE DEF kbd, smm, uio, app, user
<1>0. Rest \in Seq(Byte) /\ DataByte \in Byte /\ NoText \in Msg
  BY QueueType DEF NoText, Msg, Text
<1>1. CASE KbdIsr
  <2>1. irq' \subseteq {"OS", "SMI"}
    BY <1>1 DEF KbdIsr, Raise, TypeOK
  <2>2. stdin' \in Seq({"x", "nl"})
    BY <1>1 DEF KbdIsr, TypeOK
  <2> QED BY <1>0, <1>1, <2>1, <2>2 DEF KbdIsr, TypeOK
<1>2. CASE KbdSmi
  BY <1>2, SupervisorType DEF KbdSmi, TypeOK
<1>3. CASE irq_handler
  BY <1>3 DEF irq_handler, TypeOK
<1>4. CASE ocall_smi
  BY <1>4, SupervisorType DEF ocall_smi, TypeOK, Label
<1>5. CASE poll_getchar
  <2>1. stdin # <<>> /\ stdin' = Tail(stdin)
    BY <1>5 DEF poll_getchar, TypeOK
  <2>2. pc' \in Label /\ recv_msg' \in Msg
    BY <1>0, <1>5 DEF poll_getchar, PollDone, Label, TypeOK
  <2> QED BY <1>5, <2>1, <2>2 DEF poll_getchar, TypeOK
<1>6. CASE poll_select \/ poll_error
  BY <1>0, <1>6 DEF poll_select, poll_error, PollDone, TypeOK, Label
<1>7. CASE get_in_buffer
  BY <1>7 DEF get_in_buffer, Ready, TypeOK
<1>8. CASE read_passphrase
  <2> DEFINE text == CString(recv_msg.text)
  <2>1. text \in Text
    BY CStringType DEF TypeOK, Msg
  <2>2. passes' \in Seq(Msg)
    <3>1. CASE text # <<>>
      <4>1. SubSeq(text, 1, Len(text) - 1) \in Text
        BY <2>1, PrefixType DEF Text
      <4>2. [id |-> recv_msg.id, text |-> SubSeq(text, 1, Len(text) - 1)] \in Msg
        BY <4>1 DEF TypeOK, Msg
      <4>3. passes' = Append(passes, [id |-> recv_msg.id, text |-> SubSeq(text, 1, Len(text) - 1)])
        BY <1>8, <3>1, Zenon DEF read_passphrase
      <4> QED BY <4>2, <4>3 DEF TypeOK
    <3>2. CASE text = <<>>
      BY <1>8, <3>2 DEF read_passphrase, TypeOK
    <3> QED BY <3>1, <3>2
  <2>3. pc' \in Label
    BY <1>8 DEF read_passphrase, Label
  <2>4. UNCHANGED <<kbd, smm, ring, uio, stdin, recv_msg, kills, orphans, user, session>>
    BY <1>8 DEF read_passphrase
  <2> QED BY <2>2, <2>3, <2>4 DEF TypeOK
<1>9. CASE ecall_secure_input
  BY <1>9 DEF ecall_secure_input, TypeOK, Label
<1>10. CASE ClientKilled
  <2>1. kills' \in 0 .. MaxKills
    BY <1>10, BoundsAssumption DEF ClientKilled, TypeOK
  <2>2. pc' \in Label /\ recv_msg' \in Msg
    BY <1>0, <1>10 DEF ClientKilled, Label
  <2>3. UNCHANGED <<kbd, smm, ring, uio, stdin, passes, orphans, user, session>>
    BY <1>10 DEF ClientKilled
  <2> QED BY <2>1, <2>2, <2>3 DEF TypeOK
<1>11. CASE User
  <2>1. PICK k \in Key : Press(k) \/ Release(k)
    BY <1>11 DEF User
  <2>2. PICK up \in BOOLEAN : KeyEvent(k, up)
    BY <2>1 DEF Press, Release
  <2> DEFINE b == [key |-> k, up |-> up,
                   trusted |-> route = "SMI" /\ \A n \in 1 .. Len(queue) : ~EnterUp(queue[n])]
  <2>3. b \in Byte
    BY Zenon DEF Byte
  <2>4. queue' = Append(queue, b) /\ irq' = irq \cup {route}
    BY <2>2, Zenon DEF KeyEvent
  <2>5. queue' \in Seq(Byte) /\ irq' \subseteq {"OS", "SMI"}
    <3> HIDE DEF b
    <3> QED BY <2>3, <2>4 DEF TypeOK
  <2>6. held' \subseteq Key /\ presses' \in Nat
    <3>1. held' \in {held \cup {k}, held \ {k}} /\ presses' \in {presses, presses + 1}
      BY <2>1, Zenon DEF Press, Release
    <3> QED BY <3>1 DEF TypeOK
  <2>7. UNCHANGED <<last, smm, ring, uio, stdin, app, calls, session>>
    BY <2>2 DEF KeyEvent
  <2> QED BY <2>5, <2>6, <2>7 DEF TypeOK
<1>12. CASE UNCHANGED vars
  BY <1>12 DEF vars, TypeOK
<1>13. CASE open_uio
  <2>1. event' \in BOOLEAN
    BY <1>13, Zenon DEF open_uio
  <2>2. stdin' \in Seq({"x", "nl"}) /\ pc' \in Label
    <3>1. stdin' \in {<<>>, stdin} /\ <<>> \in Seq({"x", "nl"}) /\ stdin \in Seq({"x", "nl"})
      BY <1>13 DEF open_uio, TypeOK
    <3> QED BY <1>13, <3>1 DEF open_uio, Label
  <2>3. orphans' \subseteq Nat
    <3>1. \A e \in Ready : ring[e].id \in Nat
      BY DEF Ready, TypeOK, Msg
    <3>2. orphans \subseteq Nat /\ orphans' = orphans \cup {ring[e].id : e \in Ready}
      BY <1>13 DEF open_uio, TypeOK
    <3> QED BY <3>1, <3>2
  <2>4. UNCHANGED <<kbd, smm, ring, ipi, recv_msg, passes, kills, user, session>>
    BY <1>13 DEF open_uio
  <2> QED BY <2>1, <2>2, <2>3, <2>4 DEF TypeOK
<1> QED BY <1>1, <1>2, <1>3, <1>4, <1>5, <1>6, <1>7, <1>8, <1>9, <1>10, <1>11, <1>12, <1>13
        DEF Next, Machine

\* The statics of the supervisor, the queues, the ring and the locals of the client
\* keep their types; kbd_buffer holds exactly the i characters of the phrase.
THEOREM TypeCorrect == Spec => []TypeOK
<1>1. RouteInv /\ [Next]_vars => RouteInv'
  BY RouteStep
<1> QED BY <1>1, TypeInit, TypeStep, PTL DEF Spec

-----------------------------------------------------------------------------
\* The identity of the next input that can be put into the ring.
Fresh == IF InSession THEN session ELSE session + 1

\* InputsInOrder is not inductive: what is on its way to the caller must be newer
\* than all that was returned and older than the input of a running session.
OrderInv ==
  /\ InputsInOrder
  /\ \A n \in DOMAIN passes : passes[n].id < Fresh
  /\ \A e \in Ready : ring[e].id < Fresh /\ \A n \in DOMAIN passes : passes[n].id < ring[e].id
  /\ pc = "drain" /\ recv_msg # NoText =>
       recv_msg.id < Fresh /\ \A n \in DOMAIN passes : passes[n].id < recv_msg.id

\* The identities of inputs are numbers.
LEMMA IdTypes ==
  ASSUME TypeOK
  PROVE  /\ recv_msg.id \in Nat
         /\ \A n \in DOMAIN passes : passes[n].id \in Nat
         /\ \A e \in Ready : ring[e].id \in Nat
<1>1. passes \in Seq(Msg) /\ DOMAIN passes = 1 .. Len(passes)
  BY DEF TypeOK
<1>2. \A n \in DOMAIN passes : passes[n] \in Msg
  BY <1>1, ElementOfSeq
<1>3. recv_msg \in Msg /\ \A e \in Ready : ring[e] \in Msg
  BY DEF TypeOK, Ready
<1> QED BY <1>2, <1>3 DEF Msg

\* A step that touches no input keeps OrderInv if Fresh does not go down.
LEMMA OrderFrame ==
  ASSUME TypeOK, OrderInv, UNCHANGED <<ring, passes>>,
         Fresh' \in Int, Fresh' >= Fresh,
         pc' = "drain" => recv_msg' = NoText \/ (pc = "drain" /\ recv_msg' = recv_msg)
  PROVE  OrderInv'
<1>1. Fresh \in Int
  BY DEF Fresh, TypeOK
<1>2. Ready' = Ready /\ (NoText' = NoText)
  BY DEF Ready, NoText
<1> HIDE DEF Fresh
<1> QED BY <1>1, <1>2, IdTypes DEF OrderInv, InputsInOrder

\* A branch of supervisor() keeps OrderInv: only the end of a session adds an input,
\* and its identity is that of the session.
LEMMA SupervisorOrder ==
  ASSUME TypeOK, OrderInv, NEW latched, supervisor(latched), UNCHANGED <<recv_msg, passes>>,
         pc' = "drain" => pc = "drain"
  PROVE  OrderInv'
<1>0. session \in Nat /\ i \in Int
  BY DEF TypeOK
<1>1. CASE FirstPhrase(latched)
  <2>1. Fresh' \in Int /\ Fresh' >= Fresh /\ Ready' = {}
    BY <1>0, <1>1 DEF FirstPhrase, hijack_keyboard, Fresh, InSession, Ready
  <2>2. Fresh \in Int
    BY DEF Fresh, TypeOK
  <2> HIDE DEF Fresh
  <2> QED BY <2>1, <2>2, IdTypes DEF OrderInv, InputsInOrder, NoText
<1>2. CASE NextPhrase(latched)
  <2>1. Fresh' \in Int /\ Fresh' >= Fresh /\ UNCHANGED ring
    BY <1>0, <1>2 DEF NextPhrase, hijack_keyboard, Fresh, InSession
  <2> QED BY <2>1, OrderFrame
<1>3. CASE EnterReleased(latched)
  <2>1. InSession /\ Fresh = session /\ Fresh' = session + 1
    BY <1>0, <1>3 DEF EnterReleased, Fresh, InSession
  <2>2. \A e \in Ready' : (e \in Ready /\ ring'[e] = ring[e]) \/ ring'[e].id = session
    BY <1>3 DEF EnterReleased, PutIn, Ready, TypeOK
  <2> HIDE DEF Fresh, Ready
  <2> QED BY <1>0, <2>1, <2>2, IdTypes DEF OrderInv, InputsInOrder, NoText
<1>4. CASE KeyStroke(latched)
  <2>1. Fresh' \in Int /\ Fresh' >= Fresh /\ UNCHANGED ring
    BY <1>0, <1>4 DEF KeyStroke, Fresh, InSession
  <2> QED BY <2>1, OrderFrame
<1> QED BY <1>1, <1>2, <1>3, <1>4 DEF supervisor

LEMMA OrderStep == TypeOK /\ OrderInv /\ [Next]_vars => OrderInv'
<1> SUFFICES ASSUME TypeOK, OrderInv, [Next]_vars PROVE OrderInv'
  OBVIOUS
<1> USE DEF kbd, smm, uio, app, user
<1>0. UNCHANGED <<smm, session>> => Fresh' \in Int /\ Fresh' >= Fresh /\ Fresh' = Fresh
  BY DEF Fresh, InSession, TypeOK
<1>1. CASE KbdIsr
  BY <1>0, <1>1, OrderFrame DEF KbdIsr
<1>2. CASE KbdSmi
  BY <1>2, SupervisorOrder DEF KbdSmi
<1>3. CASE irq_handler
  BY <1>0, <1>3, OrderFrame DEF irq_handler
<1>4. CASE ocall_smi
  BY <1>4, SupervisorOrder DEF ocall_smi
<1>5. CASE poll_getchar
  BY <1>0, <1>5, OrderFrame DEF poll_getchar, PollDone
<1>6. CASE poll_select \/ poll_error
  BY <1>0, <1>6, OrderFrame DEF poll_select, poll_error, PollDone
<1>7. CASE get_in_buffer
  <2>1. UNCHANGED passes /\ Fresh' = Fresh
    BY <1>0, <1>7 DEF get_in_buffer
  <2>2. PICK e \in Ready : recv_msg' = ring[e] /\ ring' = [ring EXCEPT ![e] = None]
    BY <1>7 DEF get_in_buffer
  <2>3. \A f \in Ready' : f \in Ready /\ ring'[f] = ring[f]
    BY <2>2 DEF Ready, TypeOK
  <2> HIDE DEF Fresh, Ready
  <2> QED BY <2>1, <2>2, <2>3 DEF OrderInv, InputsInOrder
<1>8. CASE read_passphrase
  <2>1. Ready' = {} /\ pc' # "drain" /\ Fresh' = Fresh /\ pc = "drain"
    BY <1>0, <1>8 DEF read_passphrase, Ready
  <2> DEFINE text == CString(recv_msg.text)
  <2>2. CASE text = <<>>
    <3>1. UNCHANGED passes
      BY <1>8, <2>2, Zenon DEF read_passphrase
    <3> HIDE DEF Fresh, Ready, text
    <3> QED BY <2>1, <3>1 DEF OrderInv, InputsInOrder
  <2>3. CASE text # <<>>
    <3>1. PICK m : passes' = Append(passes, m) /\ m.id = recv_msg.id
      <4> DEFINE r == [id |-> recv_msg.id, text |-> SubSeq(text, 1, Len(text) - 1)]
      <4>1. passes' = Append(passes, r) /\ r.id = recv_msg.id
        BY <1>8, <2>3, Zenon DEF read_passphrase
      <4> QED BY <4>1, Zenon
    <3>2. recv_msg # NoText
      <4> SUFFICES ASSUME recv_msg = NoText PROVE FALSE
        OBVIOUS
      <4>1. recv_msg.text = <<>>
        BY DEF NoText
      <4>2. {n \in 1 .. Len(<<>>) : <<>>[n] = "NUL"} = {}
        OBVIOUS
      <4>3. CString(<<>>) = <<>>
        BY <4>2, Zenon DEF CString
      <4> QED BY <2>3, <4>1, <4>3
    <3>3. recv_msg.id < Fresh /\ \A n \in DOMAIN passes : passes[n].id < recv_msg.id
      BY <2>1, <3>2 DEF OrderInv
    <3>4. passes \in Seq(Msg)
      BY DEF TypeOK
    <3>5. /\ DOMAIN passes = 1 .. Len(passes) /\ Len(passes) \in Nat
          /\ DOMAIN passes' = 1 .. Len(passes) + 1
          /\ \A n \in 1 .. Len(passes) : passes'[n] = passes[n]
          /\ passes'[Len(passes) + 1].id = recv_msg.id
      BY <3>1, <3>4
    <3>6. \A n \in DOMAIN passes : passes[n].id \in Nat
      BY IdTypes
    <3> HIDE DEF Fresh, Ready, text
    <3>7. \A n \in DOMAIN passes' : passes'[n].id < Fresh
      BY <3>3, <3>5 DEF OrderInv
    <3>8. InputsInOrder'
      BY <3>3, <3>5, <3>6 DEF OrderInv, InputsInOrder
    <3> QED BY <2>1, <3>7, <3>8 DEF OrderInv
  <2> QED BY <2>2, <2>3
<1>9. CASE ecall_secure_input
  BY <1>0, <1>9, OrderFrame DEF ecall_secure_input
<1>10. CASE ClientKilled
  BY <1>0, <1>10, OrderFrame DEF ClientKilled
<1>11. CASE User
  BY <1>0, <1>11, OrderFrame DEF User, Press, Release, KeyEvent
<1>12. CASE UNCHANGED vars
  BY <1>0, <1>12, OrderFrame DEF vars
<1>13. CASE open_uio
  BY <1>0, <1>13, OrderFrame DEF open_uio
<1> QED BY <1>1, <1>2, <1>3, <1>4, <1>5, <1>6, <1>7, <1>8, <1>9, <1>10, <1>11, <1>12, <1>13
        DEF Next, Machine

\* Callers get the inputs of trusted sessions in the order of the sessions and none
\* twice, for any ring size, any number of sessions and any number of killed clients.
THEOREM OrderTheorem == Spec => []InputsInOrder
<1>1. Init => OrderInv
  BY DEF Init, OrderInv, InputsInOrder, Ready
<1>2. RouteInv /\ [Next]_vars => RouteInv'
  BY RouteStep
<1>3. OrderInv => InputsInOrder
  BY DEF OrderInv
<1> QED BY <1>1, <1>2, <1>3, TypeInit, TypeStep, OrderStep, PTL DEF Spec

-----------------------------------------------------------------------------
\* The byte at place n of queue q must not reach the OS.
Trusted(q, n) == q[n].trusted = TRUE

\* TrustedKeysStayInSmm needs to know where trusted bytes can be: none behind an Enter
\* release, none once IRQ 1 is back with the OS, and one at the head has its SMI.
TrustInv ==
  /\ \A n \in 1 .. Len(queue) : Trusted(queue, n) =>
       \A m \in 1 .. n - 1 : ~EnterUp(queue[m])
  /\ route = "OS" => \A n \in 1 .. Len(queue) : ~Trusted(queue, n)
  /\ route = "SMI" /\ queue # <<>> /\ Trusted(queue, 1) => "SMI" \in irq

\* A byte left in the queue raises IRQ 1 where the entry says.
LEMMA RaiseDest ==
  ASSUME NEW q, NEW latched, NEW dest
  PROVE  q # <<>> => dest \in Raise(q, latched, dest)
BY DEF Raise

\* One read of the data port moves every byte of the queue up by one place.
LEMMA RestBytes ==
  ASSUME TypeOK
  PROVE  /\ Len(Rest) \in Nat /\ Len(queue) \in Nat
         /\ queue = <<>> => Len(Rest) = 0
         /\ queue # <<>> => Len(Rest) = Len(queue) - 1 /\ DataByte = queue[1] /\ Len(queue) >= 1
         /\ \A n \in 1 .. Len(Rest) : Rest[n] = queue[n + 1] /\ n + 1 \in 1 .. Len(queue)
<1>1. queue \in Seq(Byte)
  BY DEF TypeOK
<1>2. CASE queue = <<>>
  BY <1>2 DEF Rest
<1>3. CASE queue # <<>>
  BY <1>1, <1>3, HeadTailProperties DEF Rest, DataByte
<1> QED BY <1>2, <1>3

\* A read of the data port that leaves the route alone and raises IRQ 1 for the next
\* byte keeps TrustInv.
LEMMA ReadTrust ==
  ASSUME TypeOK, TrustInv, NEW latched, queue' = Rest, route' = route,
         irq' = Raise(Rest, latched, route)
  PROVE  TrustInv'
<1>1. ASSUME NEW n \in 1 .. Len(queue'), Trusted(queue', n), NEW m \in 1 .. n - 1
      PROVE  ~EnterUp(queue'[m])
  <2>1. /\ n \in 1 .. Len(Rest) /\ m \in 1 .. Len(Rest)
        /\ n + 1 \in 1 .. Len(queue) /\ m + 1 \in 1 .. (n + 1) - 1
        /\ queue'[n] = queue[n + 1] /\ queue'[m] = queue[m + 1]
    BY <1>1, RestBytes
  <2> QED BY <1>1, <2>1 DEF TrustInv, Trusted
<1>2. route' = "OS" => \A n \in 1 .. Len(queue') : ~Trusted(queue', n)
  BY RestBytes DEF TrustInv, Trusted
<1>3. route' = "SMI" /\ queue' # <<>> => "SMI" \in irq'
  BY RaiseDest
<1> QED BY <1>1, <1>2, <1>3 DEF TrustInv

\* A branch of supervisor() keeps TrustInv: a session begins with no trusted byte in the
\* queue, and the Enter release that ends it has none behind it.
LEMMA SupervisorTrust ==
  ASSUME TypeOK, RouteInv, TrustInv, NEW latched, supervisor(latched)
  PROVE  TrustInv'
<1>1. CASE FirstPhrase(latched) \/ NextPhrase(latched)
  <2>1. queue' = queue /\ route = "OS" /\ route' = "SMI"
    <3>1. queue' = queue /\ route' = "SMI" /\ ~InSession
      BY <1>1 DEF FirstPhrase, NextPhrase, hijack_keyboard, InSession
    <3>2. route = "OS"
      BY <3>1 DEF RouteInv, RouteConsistent
    <3> QED BY <3>1, <3>2
  <2>2. \A n \in 1 .. Len(queue) : ~Trusted(queue, n)
    BY <2>1 DEF TrustInv
  <2>3. queue # <<>> => 1 \in 1 .. Len(queue)
    BY DEF TypeOK
  <2> QED BY <2>1, <2>2, <2>3 DEF TrustInv
<1>2. CASE EnterReleased(latched)
  <2>1. queue' = Rest /\ route' = "OS" /\ EnterUp(DataByte)
    BY <1>2 DEF EnterReleased, recover_keyboard, PhraseEnds, RouteInv, RouteConsistent
  <2>2. ASSUME NEW n \in 1 .. Len(Rest) PROVE ~Trusted(Rest, n)
    <3>1. queue # <<>> /\ EnterUp(queue[1])
      BY <2>1, <2>2, RestBytes
    <3>2. n + 1 \in 1 .. Len(queue) /\ 1 \in 1 .. (n + 1) - 1 /\ Rest[n] = queue[n + 1]
      BY <2>2, RestBytes
    <3> QED BY <3>1, <3>2 DEF TrustInv, Trusted
  <2> QED BY <2>1, <2>2 DEF TrustInv
<1>3. CASE KeyStroke(latched)
  BY <1>3, ReadTrust DEF KeyStroke
<1> QED BY <1>1, <1>2, <1>3 DEF supervisor

\* A key event is trusted only in trusted input mode and before an Enter release.
LEMMA KeyTrust ==
  ASSUME TypeOK, TrustInv, NEW k \in Key, NEW up \in BOOLEAN, KeyEvent(k, up)
  PROVE  TrustInv'
<1> DEFINE t == route = "SMI" /\ \A n \in 1 .. Len(queue) : ~EnterUp(queue[n])
           b == [key |-> k, up |-> up, trusted |-> t]
<1>1. queue' = Append(queue, b) /\ route' = route
      /\ irq' = irq \cup {route}
  BY Zenon DEF KeyEvent, smm
<1>2. b.trusted = TRUE => route = "SMI" /\ \A n \in 1 .. Len(queue) : ~EnterUp(queue[n])
  BY Zenon
<1>3. queue \in Seq(Byte)
  BY DEF TypeOK
<1> HIDE DEF b
<1>4. /\ Len(queue) \in Nat /\ Len(queue') = Len(queue) + 1 /\ queue'[Len(queue) + 1] = b
      /\ \A n \in 1 .. Len(queue) : queue'[n] = queue[n]
      /\ queue # <<>> => Len(queue) >= 1
  BY <1>1, <1>3
<1>5. ASSUME NEW n \in 1 .. Len(queue'), Trusted(queue', n), NEW m \in 1 .. n - 1
      PROVE  ~EnterUp(queue'[m])
  <2>1. m \in 1 .. Len(queue) /\ queue'[m] = queue[m]
    BY <1>4, <1>5
  <2>2. CASE n = Len(queue) + 1
    BY <1>2, <1>4, <1>5, <2>1, <2>2 DEF Trusted
  <2>3. CASE n \in 1 .. Len(queue)
    BY <1>4, <1>5, <2>1, <2>3 DEF Trusted, TrustInv
  <2> QED BY <1>4, <2>2, <2>3
<1>6. ASSUME route' = "OS", NEW n \in 1 .. Len(queue') PROVE ~Trusted(queue', n)
  BY <1>1, <1>2, <1>4, <1>6 DEF Trusted, TrustInv
<1>7. route' = "SMI" /\ queue' # <<>> /\ Trusted(queue', 1) => "SMI" \in irq'
  BY <1>1, <1>4 DEF Trusted, TrustInv
<1> QED BY <1>5, <1>6, <1>7 DEF TrustInv

\* The client and the UIO relay touch neither the queue nor the route.
LEMMA TrustStep == TypeOK /\ RouteInv /\ TrustInv /\ [Next]_vars => TrustInv'
<1> SUFFICES ASSUME TypeOK, RouteInv, TrustInv, [Next]_vars PROVE TrustInv'
  OBVIOUS
<1> USE DEF kbd, smm
<1>0. ASSUME UNCHANGED <<queue, irq, route>> PROVE TrustInv'
  BY <1>0 DEF TrustInv, Trusted
<1>1. CASE KbdIsr
  BY <1>1, ReadTrust DEF KbdIsr
<1>2. CASE KbdSmi
  BY <1>2, SupervisorTrust DEF KbdSmi
<1>3. CASE ocall_smi
  BY <1>3, SupervisorTrust DEF ocall_smi
<1>4. CASE irq_handler \/ poll_getchar \/ poll_select \/ poll_error \/ get_in_buffer
  BY <1>0, <1>4 DEF irq_handler, poll_getchar, poll_select, poll_error, get_in_buffer
<1>5. CASE read_passphrase \/ open_uio \/ ecall_secure_input \/ ClientKilled \/ UNCHANGED vars
  BY <1>0, <1>5 DEF read_passphrase, open_uio, ecall_secure_input, ClientKilled, vars
<1>6. CASE User
  <2>1. PICK k \in Key, up \in BOOLEAN : KeyEvent(k, up)
    BY <1>6 DEF User, Press, Release
  <2> QED BY <2>1, KeyTrust
<1> QED BY <1>1, <1>2, <1>3, <1>4, <1>5, <1>6 DEF Next, Machine

\* The OS keyboard handler never gets a key event of trusted input mode: not one that was
\* queued when the session ended, and not through an IRQ 1 that was latched for the OS
\* before the reroute, for any number of keys and sessions.
THEOREM TrustTheorem == Spec => TrustedKeysStayInSmm
<1>1. Init => TrustInv
  BY DEF Init, TrustInv
<1>2. ASSUME TypeOK, RouteInv, TrustInv, KbdIsr PROVE queue = <<>> \/ ~Head(queue).trusted
  <2>1. route \in {"OS", "SMI"} /\ "SMI" \notin irq
    BY <1>2 DEF RouteInv, KbdIsr
  <2>2. queue # <<>> => 1 \in 1 .. Len(queue) /\ Head(queue) = queue[1] /\ queue[1] \in Byte
    BY <1>2 DEF TypeOK
  <2>3. queue # <<>> => (Head(queue).trusted <=> Trusted(queue, 1))
    BY <2>2, Zenon DEF Trusted, Byte
  <2> QED BY <1>2, <2>1, <2>2, <2>3 DEF TrustInv
<1>3. TypeOK /\ RouteInv /\ TrustInv /\ [Next]_vars
        => [KbdIsr => queue = <<>> \/ ~Head(queue).trusted]_vars
  BY <1>2
<1>4. RouteInv /\ [Next]_vars => RouteInv'
  BY RouteStep
<1> QED BY <1>1, <1>3, <1>4, TypeInit, TypeStep, TrustStep, PTL DEF Spec, TrustedKeysStayInSmm
=============================================================================
