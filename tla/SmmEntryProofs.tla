--------------------------- MODULE SmmEntryProofs ---------------------------
(***************************************************************************)
(* Proofs about SmmEntry for every set of callers and any depth of calls.  *)
(***************************************************************************)
EXTENDS SmmEntry, SequenceTheorems, TLAPS

Layout == [code : {SMI_INSN, "data"}, cpu : Context \cup {None}]
FrameType == [kind : {"call32", "call16", "irq"}, ctx : Context, a20 : BOOLEAN]

\* The steps of smm_setup before and after the borrowed memory is in use.
Early == {"open", "copy", "apmc", "trigger"}
Borrowed == {"apmc", "trigger", "spin"}

\* Where SMBASE points at each step, and what both layouts hold there.
EntryInv ==
  /\ pc \in Setup \cup {"bios", "os"}
  /\ base = IF pc \in Early THEN "init" ELSE "smram"
  /\ apmc <=> pc \notin {"open", "copy", "apmc"}
  /\ pc \in Borrowed => area.init.code = SMI_INSN /\ area.smram = Original
  /\ pc \notin Borrowed => area.init = Original
  /\ pc \in {"close", "bios", "os"} => area.smram.code = SMI_INSN
  /\ pc \in {"bios", "os"} => ~window

\* The trampoline's commands end with the BIOS, and interrupts are routed to SMI
\* only after it.
LatchInv ==
  /\ pc = "bios" => ~resumed
  /\ ~resumed /\ pc # "os" => ~routed
  /\ routed => latch # CALL32

\* What runs inside the first n calls: the frame above the n-th, or the CPU.
InnerCtx(n) == IF n = Len(frames) THEN ctx ELSE frames[n + 1].ctx
InnerA20(n) == IF n = Len(frames) THEN a20 ELSE frames[n + 1].a20

\* Which call can be made from which, and in which context it runs.
Linked(n) ==
  /\ frames[n].kind = "call32" =>
       /\ InnerCtx(n) = "flat" /\ InnerA20(n) = TRUE
       /\ n > 1 => frames[n - 1].kind # "call32"
  /\ frames[n].kind = "call16" =>
       /\ n > 1 /\ frames[n - 1].kind = "call32"
       /\ InnerCtx(n) = frames[n - 1].ctx /\ InnerA20(n) = frames[n - 1].a20
  /\ frames[n].kind = "irq" =>
       /\ n > 1 /\ frames[n - 1].kind = "call16"
       /\ InnerA20(n) = frames[n].a20

\* backup2 and backup_a20 belong to the innermost call if that is a call32.
BackupInv ==
  /\ pc \notin Early => backup.one = "flat" /\ backup.two \in Context
  /\ frames # <<>> /\ Top.kind = "call32" => backup.two = Top.ctx /\ backup.a20 = Top.a20

CallInv ==
  /\ pc \in Setup => ctx = "flat" /\ a20 = TRUE
  /\ pc # "bios" => frames = <<>>
  /\ \A n \in 1 .. Len(frames) : Linked(n)
  /\ BackupInv

IInv == TypeOK /\ EntryInv /\ LatchInv /\ CallInv

LEMMA AreaTypes ==
  ASSUME TypeOK
  PROVE  /\ area \in [init : Layout, smram : Layout]
         /\ area = [init |-> area.init, smram |-> area.smram]
         /\ area["init"] = area.init /\ area["smram"] = area.smram
BY DEF TypeOK, Layout
-----------------------------------------------------------------------------
\* An SMI of a relocated CPU finds its entry and leaves the borrowed memory, the
\* entry and SMBASE alone.
LEMMA SmiAfterSetup ==
  ASSUME TypeOK, EntryInv, pc \in {"bios", "os"}, NEW cmd, NEW ecx, NEW next, Smi(cmd, ecx, next)
  PROVE  /\ pc' = next
         /\ base' = base /\ status' = status
         /\ area'.init = area.init /\ area'.smram.code = area.smram.code
         /\ area' \in [init : Layout, smram : Layout]
<1>1. base = "smram" /\ apmc /\ area.smram.code = SMI_INSN
  BY DEF EntryInv, Early
<1>2. area[base].code = SMI_INSN
  BY <1>1, AreaTypes
<1> QED
  BY <1>1, <1>2, AreaTypes DEF Smi, Relocate, EnterId, ReturnId, Resume, TypeOK, Layout

\* What such an SMI can do to the context: nothing, unless it is the trampoline's.
LEMMA SmiKeepsContext ==
  ASSUME TypeOK, EntryInv, pc \in {"bios", "os"}, NEW cmd, cmd # CALL32, NEW ecx, NEW next,
         Smi(cmd, ecx, next)
  PROVE  UNCHANGED <<ctx, a20, backup, have32>>
<1>1. base = "smram" /\ apmc /\ area.smram.code = SMI_INSN
  BY DEF EntryInv, Early
<1>2. area[base].code = SMI_INSN
  BY <1>1, AreaTypes
<1> QED
  BY <1>1, <1>2 DEF Smi, Relocate, Trampolined, Resume

\* The steps of smm_setup hand the entry from one layout to the other.
LEMMA SetupEntry ==
  ASSUME TypeOK, EntryInv, smm_setup
  PROVE  EntryInv'
<1> USE AreaTypes DEF EntryInv, Setup, Early, Borrowed, Original, Layout, At
<1>1. CASE OpenWindow
  BY <1>1 DEF OpenWindow, smram, cpu
<1>2. CASE smm_save_and_copy
  BY <1>2 DEF smm_save_and_copy, Borrow, ports, cpu
<1>3. CASE EnableApmc
  BY <1>3 DEF EnableApmc, smram, cpu
<1>4. CASE TriggerSmi
  <2>1. base = "init" /\ apmc /\ area[base].code = SMI_INSN
    BY <1>4 DEF TriggerSmi
  <2>2. pc' = "spin" /\ Relocate
    BY <1>4, <2>1 DEF TriggerSmi, Smi
  <2> QED
    BY <1>4, <2>1, <2>2 DEF TriggerSmi, Relocate, NewBase
<1>5. CASE Restore
  BY <1>5 DEF Restore, ports, cpu
<1>6. CASE InstallEntry
  BY <1>6 DEF InstallEntry, ports, cpu
<1>7. CASE CloseWindow
  BY <1>7 DEF CloseWindow, smram
<1> QED
  BY <1>1, <1>2, <1>3, <1>4, <1>5, <1>6, <1>7 DEF smm_setup

LEMMA TrampolineEntry ==
  ASSUME TypeOK, EntryInv, NEW ecx, pc = "bios", Trampoline(ecx)
  PROVE  EntryInv'
<1>1. Smi(CALL32, ecx, "bios") /\ apmc' = apmc /\ window' = window
  BY DEF Trampoline
<1> QED
  BY <1>1, SmiAfterSetup DEF EntryInv, Setup, Early, Borrowed

LEMMA EntryStep ==
  ASSUME TypeOK, EntryInv, [Next]_vars
  PROVE  EntryInv'
<1>1. CASE smm_setup
  BY <1>1, SetupEntry
<1>2. CASE call32_smm \/ call32_done \/ call16_smm \/ call16_done
  BY <1>2, TrampolineEntry DEF call32_smm, call32_done, call16_smm, call16_done, Inside
<1>3. CASE (\E c \in Caller : Irq(c)) \/ Iret \/ UNCHANGED vars
  BY <1>3 DEF Irq, Iret, vars, ports, smram, cpu, EntryInv
<1>4. CASE StartOs
  BY <1>4 DEF StartOs, At, ports, smram, EntryInv, Setup, Early, Borrowed
<1>5. ASSUME NEW cmd, OsCommand(cmd) PROVE EntryInv'
  <2>1. pc = "os" /\ Smi(cmd, None, "os") /\ apmc' = apmc /\ window' = window
    BY <1>5 DEF OsCommand
  <2> QED
    BY <2>1, SmiAfterSetup DEF EntryInv, Setup, Early, Borrowed
<1>6. ASSUME NEW ecx, DeviceSmi(ecx) PROVE EntryInv'
  <2>1. pc = "os" /\ Smi(latch, ecx, "os") /\ apmc' = apmc /\ window' = window
    BY <1>6 DEF DeviceSmi
  <2> QED
    BY <2>1, SmiAfterSetup DEF EntryInv, Setup, Early, Borrowed
<1>7. CASE Suspend
  BY <1>7 DEF Suspend, At, smram, EntryInv, Setup, Early, Borrowed
<1> QED
  BY <1>1, <1>2, <1>3, <1>4, <1>5, <1>6, <1>7 DEF Next, Request, AcpiCommand
-----------------------------------------------------------------------------
\* The two commands of the trampoline, for a relocated CPU.
LEMMA SmiEnters ==
  ASSUME TypeOK, EntryInv, pc = "bios"
  PROVE  /\ Smi(CALL32, "enter", "bios") => EnterId /\ routed' = routed
         /\ Smi(CALL32, "return", "bios") => ReturnId /\ routed' = routed
<1>1. base = "smram" /\ apmc /\ area.smram.code = SMI_INSN
  BY DEF EntryInv, Early
<1>2. area[base].code = SMI_INSN
  BY <1>1, AreaTypes
<1> QED
  BY <1>1, <1>2 DEF Smi, Relocate, Trampolined, CALL32, AURORA, None

\* A new frame keeps what ran before it, so only its own link is new.
LEMMA PushLinks ==
  ASSUME TypeOK, \A n \in 1 .. Len(frames) : Linked(n), NEW kind \in {"call32", "call16", "irq"},
         frames' = Append(frames, Frame(kind, ctx, a20)),
         NEW m, m = Len(frames) + 1, Linked(m)'
  PROVE  \A n \in 1 .. Len(frames') : Linked(n)'
<1> DEFINE f == Frame(kind, ctx, a20)
<1>1. frames \in Seq(FrameType) /\ f \in FrameType
  BY DEF TypeOK, FrameType, Frame
<1>2. /\ Len(frames') = Len(frames) + 1
      /\ \A n \in 1 .. Len(frames) : frames'[n] = frames[n]
      /\ frames'[Len(frames) + 1] = f
  BY <1>1, AppendProperties
<1>3. Len(frames) \in Nat
  BY <1>1
<1> SUFFICES ASSUME NEW n \in 1 .. Len(frames) PROVE Linked(n)'
  BY <1>2, <1>3
<1>4. InnerCtx(n)' = InnerCtx(n) /\ InnerA20(n)' = InnerA20(n)
  BY <1>2, <1>3 DEF InnerCtx, InnerA20, Frame
<1>5. frames'[n] = frames[n] /\ (n > 1 => frames'[n - 1] = frames[n - 1])
  BY <1>2, <1>3
<1> QED
  BY <1>4, <1>5 DEF Linked

\* A call that ends where its frame says leaves the links of the others.
LEMMA PopLinks ==
  ASSUME TypeOK, \A n \in 1 .. Len(frames) : Linked(n), frames # <<>>, Pop,
         ctx' = Top.ctx, a20' = Top.a20
  PROVE  /\ \A n \in 1 .. Len(frames') : Linked(n)'
         /\ Len(frames') = Len(frames) - 1 /\ frames' \in Seq(FrameType)
         /\ \A n \in 1 .. Len(frames') : frames'[n] = frames[n]
<1>1. frames \in Seq(FrameType) /\ Len(frames) \in Nat \ {0}
  BY EmptySeq DEF TypeOK, FrameType
<1>2. /\ frames' \in Seq(FrameType) /\ Len(frames') = Len(frames) - 1
      /\ \A n \in 1 .. Len(frames') : frames'[n] = frames[n]
  <2> DEFINE k == Len(frames) - 1
  <2>1. k \in 0 .. Len(frames) /\ 1 \in 1 .. Len(frames) + 1
    BY <1>1
  <2>2. frames' = SubSeq(frames, 1, k)
    BY DEF Pop
  <2> HIDE DEF k
  <2>3. /\ SubSeq(frames, 1, k) \in Seq(FrameType)
        /\ Len(SubSeq(frames, 1, k)) = IF 1 <= k THEN k - 1 + 1 ELSE 0
        /\ \A n \in 1 .. k - 1 + 1 : SubSeq(frames, 1, k)[n] = frames[1 + n - 1]
    BY <1>1, <2>1, SubSeqProperties
  <2>4. Len(frames') = k
    BY <2>1, <2>2, <2>3
  <2>5. \A n \in 1 .. k : frames'[n] = frames[n]
    BY <2>1, <2>2, <2>3
  <2> QED
    BY <2>2, <2>3, <2>4, <2>5 DEF k
<1> SUFFICES ASSUME NEW n \in 1 .. Len(frames') PROVE Linked(n)'
  BY <1>2
<1>3. InnerCtx(n)' = InnerCtx(n) /\ InnerA20(n)' = InnerA20(n)
  BY <1>1, <1>2 DEF InnerCtx, InnerA20, Top
<1>4. frames'[n] = frames[n] /\ (n > 1 => frames'[n - 1] = frames[n - 1])
  BY <1>1, <1>2
<1> QED
  BY <1>1, <1>2, <1>3, <1>4 DEF Linked
-----------------------------------------------------------------------------
(* The calls, one lemma per action. *)

\* A record of two layouts is what TypeOK calls one.
LEMMA AreaSet == [init : Layout, smram : Layout] = [{"init", "smram"} -> Layout]
OBVIOUS

LEMMA TopFacts ==
  ASSUME TypeOK, frames # <<>>
  PROVE  Len(frames) \in Nat \ {0} /\ Top = frames[Len(frames)] /\ Top \in FrameType
<1>1. frames \in Seq(FrameType) /\ Len(frames) \in Nat \ {0}
  BY EmptySeq DEF TypeOK, FrameType
<1> QED
  BY <1>1 DEF Top

\* What a step may do to the stack of calls.
NestStep ==
  /\ Len(frames') < Len(frames) => <<ctx, a20>>' = Running(Top)
  /\ Len(frames') > Len(frames) /\ Inside("call32") => <<ctx, a20>>' = Running(Top)

\* A command of the trampoline, apart from the stack.
LEMMA TrampolineFacts ==
  ASSUME IInv, pc = "bios", NEW ecx \in {"enter", "return"}, Trampoline(ecx)
  PROVE  /\ pc' = "bios" /\ LatchInv' /\ (ecx = "enter" => EnterId) /\ (ecx = "return" => ReturnId)
         /\ backup.one = "flat" /\ backup.two \in Context
         /\ frames' \in Seq(FrameType) => TypeOK'
<1> USE DEF IInv
<1>1. Smi(CALL32, ecx, "bios") /\ latch' = CALL32
  BY DEF Trampoline
<1>2. routed' = routed /\ (ecx = "enter" => EnterId) /\ (ecx = "return" => ReturnId)
  BY <1>1, SmiEnters
<1>3. pc' = "bios" /\ base' = base /\ status' = status /\ area' \in [init : Layout, smram : Layout]
  BY <1>1, SmiAfterSetup
<1>4. LatchInv'
  BY <1>2, <1>3 DEF LatchInv, Trampoline
<1>5. backup.one = "flat" /\ backup.two \in Context
  BY DEF CallInv, BackupInv, Early
<1>6. /\ ctx' \in Context /\ a20' \in BOOLEAN /\ have32' = have32
      /\ backup' \in [one : Context \cup {None}, two : Context \cup {None}, a20 : BOOLEAN]
  BY <1>2, <1>5 DEF EnterId, ReturnId, SaveCaller, TypeOK, Context
<1>7. ASSUME frames' \in Seq(FrameType) PROVE TypeOK'
  BY <1>1, <1>2, <1>3, <1>6, <1>7, AreaSet DEF TypeOK, Trampoline, Layout, FrameType
<1> QED
  BY <1>2, <1>3, <1>4, <1>5, <1>7

LEMMA Call32Step ==
  ASSUME IInv, call32_smm
  PROVE  TypeOK' /\ LatchInv' /\ CallInv' /\ NestStep
<1> USE DEF IInv
<1> DEFINE f == Frame("call32", ctx, a20)
           m == Len(frames) + 1
<1>1. /\ pc = "bios" /\ Trampoline("enter") /\ frames' = Append(frames, f)
      /\ frames = <<>> \/ Top.kind \in {"call16", "irq"}
  BY DEF call32_smm, Inside
<1>2. pc' = "bios" /\ EnterId /\ backup.one = "flat"
  BY <1>1, TrampolineFacts
<1>3. frames \in Seq(FrameType) /\ f \in FrameType /\ Len(frames) \in Nat
  BY DEF TypeOK, FrameType, Frame
<1>4. /\ frames' \in Seq(FrameType) /\ frames' # <<>> /\ Len(frames') = m
      /\ \A n \in 1 .. Len(frames) : frames'[n] = frames[n]
      /\ frames'[m] = f
  BY <1>1, <1>3, AppendProperties
<1>5. /\ ctx' = "flat" /\ a20' = TRUE
      /\ backup'.one = "flat" /\ backup'.two = ctx /\ backup'.a20 = a20
  BY <1>2 DEF EnterId, SaveCaller, TypeOK
<1>6. TypeOK' /\ LatchInv'
  BY <1>1, <1>4, TrampolineFacts
<1>7. ASSUME NEW k, k = m PROVE Linked(k)'
  <2>1. InnerCtx(k)' = "flat" /\ InnerA20(k)' = TRUE
    BY <1>4, <1>5, <1>7 DEF InnerCtx, InnerA20
  <2>2. frames'[k].kind = "call32"
    BY <1>4, <1>7 DEF Frame
  <2>3. k > 1 => frames'[k - 1].kind # "call32"
    <3> SUFFICES ASSUME k > 1 PROVE frames'[k - 1].kind # "call32"
      OBVIOUS
    <3>1. frames # <<>> /\ frames'[k - 1] = frames[Len(frames)]
      BY <1>3, <1>4, <1>7
    <3> QED
      BY <1>1, <3>1 DEF Top
  <2> QED
    BY <2>1, <2>2, <2>3 DEF Linked
<1>8. \A n \in 1 .. Len(frames') : Linked(n)'
  BY <1>1, <1>7, PushLinks DEF CallInv
<1>9. BackupInv'
  <2>1. Top' = f
    BY <1>4 DEF Top
  <2> QED
    BY <1>2, <1>5, <2>1 DEF BackupInv, Frame, TypeOK
<1>10. CallInv'
  BY <1>2, <1>8, <1>9 DEF CallInv, Setup
<1>11. NestStep
  BY <1>1, <1>3, <1>4 DEF NestStep, Inside
<1> QED
  BY <1>6, <1>10, <1>11

LEMMA Call32DoneStep ==
  ASSUME IInv, call32_done
  PROVE  TypeOK' /\ LatchInv' /\ CallInv' /\ NestStep
<1> USE DEF IInv
<1>1. pc = "bios" /\ frames # <<>> /\ Top.kind = "call32" /\ Trampoline("return") /\ Pop
  BY DEF call32_done, Inside
<1>2. pc' = "bios" /\ ReturnId /\ backup.one = "flat" /\ backup.two \in Context
  BY <1>1, TrampolineFacts
<1>3. Len(frames) \in Nat \ {0} /\ Top = frames[Len(frames)] /\ Top \in FrameType
  BY <1>1, TopFacts
<1>4. Linked(Len(frames))
  BY <1>3 DEF CallInv
<1>5. a20 = TRUE /\ (Len(frames) > 1 => frames[Len(frames) - 1].kind # "call32")
  BY <1>1, <1>3, <1>4 DEF Linked, InnerA20
<1>6. ctx' = Top.ctx /\ a20' = Top.a20
  <2>1. backup.two = Top.ctx /\ backup.a20 = Top.a20
    BY <1>1 DEF CallInv, BackupInv
  <2>2. Top.a20 \in BOOLEAN
    BY <1>3 DEF FrameType
  <2> QED
    BY <1>2, <1>5, <2>1, <2>2 DEF ReturnId
<1>7. /\ \A n \in 1 .. Len(frames') : Linked(n)'
      /\ Len(frames') = Len(frames) - 1 /\ frames' \in Seq(FrameType)
      /\ \A n \in 1 .. Len(frames') : frames'[n] = frames[n]
  BY <1>1, <1>6, PopLinks DEF CallInv
<1>8. TypeOK' /\ LatchInv'
  BY <1>1, <1>7, TrampolineFacts
<1>9. BackupInv'
  <2>1. backup' = backup
    BY <1>2 DEF ReturnId
  <2>2. frames' # <<>> => Top'.kind # "call32"
    <3> SUFFICES ASSUME frames' # <<>> PROVE Top'.kind # "call32"
      OBVIOUS
    <3>1. Len(frames') # 0
      BY <1>7, EmptySeq
    <3>2. Top' = frames[Len(frames) - 1] /\ Len(frames) > 1
      BY <1>3, <1>7, <3>1 DEF Top
    <3> QED
      BY <1>5, <3>2
  <2> QED
    BY <1>2, <2>1, <2>2 DEF BackupInv
<1>10. CallInv'
  BY <1>2, <1>7, <1>9 DEF CallInv, Setup
<1>11. NestStep
  BY <1>3, <1>6, <1>7 DEF NestStep, Running
<1> QED
  BY <1>8, <1>10, <1>11

LEMMA Call16Step ==
  ASSUME IInv, call16_smm
  PROVE  TypeOK' /\ LatchInv' /\ CallInv' /\ NestStep
<1> USE DEF IInv
<1> DEFINE f == Frame("call16", ctx, a20)
           m == Len(frames) + 1
<1>1. /\ pc = "bios" /\ Trampoline("return") /\ frames' = Append(frames, f)
      /\ frames # <<>> /\ Top.kind = "call32"
  BY DEF call16_smm, Inside
<1>2. pc' = "bios" /\ ReturnId /\ backup.one = "flat" /\ backup.two \in Context
  BY <1>1, TrampolineFacts
<1>3. Len(frames) \in Nat \ {0} /\ Top = frames[Len(frames)] /\ Top \in FrameType
  BY <1>1, TopFacts
<1>4. frames \in Seq(FrameType) /\ f \in FrameType
  BY DEF TypeOK, FrameType, Frame
<1>5. /\ frames' \in Seq(FrameType) /\ frames' # <<>> /\ Len(frames') = m
      /\ \A n \in 1 .. Len(frames) : frames'[n] = frames[n]
      /\ frames'[m] = f
  BY <1>1, <1>4, AppendProperties
<1>6. ctx' = Top.ctx /\ a20' = Top.a20
  <2>1. backup.two = Top.ctx /\ backup.a20 = Top.a20
    BY <1>1 DEF CallInv, BackupInv
  <2>2. Linked(Len(frames))
    BY <1>3 DEF CallInv
  <2>3. a20 = TRUE /\ Top.a20 \in BOOLEAN
    BY <1>1, <1>3, <2>2 DEF Linked, InnerA20, FrameType
  <2> QED
    BY <1>2, <2>1, <2>3 DEF ReturnId
<1>7. TypeOK' /\ LatchInv'
  BY <1>1, <1>5, TrampolineFacts
<1>8. ASSUME NEW k, k = m PROVE Linked(k)'
  <2>1. InnerCtx(k)' = Top.ctx /\ InnerA20(k)' = Top.a20
    BY <1>5, <1>6, <1>8 DEF InnerCtx, InnerA20
  <2>2. frames'[k].kind = "call16"
    BY <1>5, <1>8 DEF Frame
  <2>3. k > 1 /\ frames'[k - 1] = Top
    BY <1>3, <1>5, <1>8
  <2> QED
    BY <1>1, <2>1, <2>2, <2>3 DEF Linked
<1>9. \A n \in 1 .. Len(frames') : Linked(n)'
  BY <1>1, <1>8, PushLinks DEF CallInv
<1>10. BackupInv'
  <2>1. Top'.kind = "call16"
    BY <1>5 DEF Top, Frame
  <2>2. backup' = backup
    BY <1>2 DEF ReturnId
  <2> QED
    BY <1>2, <2>1, <2>2 DEF BackupInv
<1>11. CallInv'
  BY <1>2, <1>9, <1>10 DEF CallInv, Setup
<1>12. NestStep
  BY <1>3, <1>5, <1>6 DEF NestStep, Running
<1> QED
  BY <1>7, <1>11, <1>12

LEMMA Call16DoneStep ==
  ASSUME IInv, call16_done
  PROVE  TypeOK' /\ LatchInv' /\ CallInv' /\ NestStep
<1> USE DEF IInv
<1>1. pc = "bios" /\ frames # <<>> /\ Top.kind = "call16" /\ Trampoline("enter") /\ Pop
  BY DEF call16_done, Inside
<1>2. pc' = "bios" /\ EnterId /\ backup.one = "flat"
  BY <1>1, TrampolineFacts
<1>3. Len(frames) \in Nat \ {0} /\ Top = frames[Len(frames)] /\ Top \in FrameType
  BY <1>1, TopFacts
<1> DEFINE below == frames[Len(frames) - 1]
<1>4. /\ Len(frames) > 1 /\ below.kind = "call32"
      /\ ctx = below.ctx /\ a20 = below.a20
  <2>1. Linked(Len(frames))
    BY <1>3 DEF CallInv
  <2> QED
    BY <1>1, <1>3, <2>1 DEF Linked, InnerCtx, InnerA20
<1>5. Top.ctx = "flat" /\ Top.a20 = TRUE
  <2>1. Linked(Len(frames) - 1)
    BY <1>3, <1>4 DEF CallInv
  <2> QED
    BY <1>3, <1>4, <2>1 DEF Linked, InnerCtx, InnerA20
<1>6. /\ ctx' = Top.ctx /\ a20' = Top.a20
      /\ backup'.one = "flat" /\ backup'.two = ctx /\ backup'.a20 = a20
  BY <1>2, <1>5 DEF EnterId, SaveCaller, TypeOK
<1>7. /\ \A n \in 1 .. Len(frames') : Linked(n)'
      /\ Len(frames') = Len(frames) - 1 /\ frames' \in Seq(FrameType)
      /\ \A n \in 1 .. Len(frames') : frames'[n] = frames[n]
  BY <1>1, <1>6, PopLinks DEF CallInv
<1>8. TypeOK' /\ LatchInv'
  BY <1>1, <1>7, TrampolineFacts
<1>9. BackupInv'
  <2>1. Top' = below
    BY <1>3, <1>4, <1>7 DEF Top
  <2> QED
    BY <1>2, <1>4, <1>6, <2>1 DEF BackupInv, TypeOK
<1>10. CallInv'
  BY <1>2, <1>7, <1>9 DEF CallInv, Setup
<1>11. NestStep
  BY <1>1, <1>3, <1>6, <1>7 DEF NestStep, Running
<1> QED
  BY <1>8, <1>10, <1>11

LEMMA IrqStep ==
  ASSUME IInv, NEW c \in Caller, Irq(c)
  PROVE  TypeOK' /\ LatchInv' /\ CallInv' /\ NestStep
<1> USE DEF IInv, Irq, ports, smram, aurora
<1> DEFINE f == Frame("irq", ctx, a20)
           m == Len(frames) + 1
<1>1. pc = "bios" /\ frames # <<>> /\ Top.kind = "call16" /\ frames' = Append(frames, f)
  BY DEF Inside
<1>2. Len(frames) \in Nat \ {0} /\ Top = frames[Len(frames)]
  BY <1>1, TopFacts
<1>3. frames \in Seq(FrameType) /\ f \in FrameType
  BY DEF TypeOK, FrameType, Frame
<1>4. /\ frames' \in Seq(FrameType) /\ frames' # <<>> /\ Len(frames') = m
      /\ \A n \in 1 .. Len(frames) : frames'[n] = frames[n]
      /\ frames'[m] = f
  BY <1>1, <1>3, AppendProperties
<1>5. TypeOK'
  BY <1>4 DEF TypeOK, FrameType, Context
<1>6. LatchInv'
  BY DEF LatchInv
<1>7. ASSUME NEW k, k = m PROVE Linked(k)'
  <2>1. InnerA20(k)' = a20 /\ frames'[k].kind = "irq" /\ frames'[k].a20 = a20
    BY <1>4, <1>7 DEF InnerA20, Frame
  <2>2. k > 1 /\ frames'[k - 1] = Top
    BY <1>2, <1>4, <1>7
  <2> QED
    BY <1>1, <2>1, <2>2 DEF Linked
<1>8. \A n \in 1 .. Len(frames') : Linked(n)'
  BY <1>1, <1>7, PushLinks DEF CallInv
<1>9. BackupInv'
  <2>1. Top'.kind = "irq"
    BY <1>4 DEF Top, Frame
  <2> QED
    BY <2>1 DEF BackupInv, CallInv
<1>10. CallInv'
  BY <1>1, <1>8, <1>9 DEF CallInv, Setup
<1>11. NestStep
  BY <1>1, <1>2, <1>4 DEF NestStep, Inside
<1> QED
  BY <1>5, <1>6, <1>10, <1>11

LEMMA IretStep ==
  ASSUME IInv, Iret
  PROVE  TypeOK' /\ LatchInv' /\ CallInv' /\ NestStep
<1> USE DEF IInv, Iret, ports, smram, aurora
<1>1. pc = "bios" /\ frames # <<>> /\ Top.kind = "irq" /\ Pop /\ ctx' = Top.ctx
  BY DEF Inside
<1>2. Len(frames) \in Nat \ {0} /\ Top = frames[Len(frames)] /\ Top \in FrameType
  BY <1>1, TopFacts
<1> DEFINE below == frames[Len(frames) - 1]
<1>3. Len(frames) > 1 /\ below.kind = "call16" /\ a20 = Top.a20
  <2>1. Linked(Len(frames))
    BY <1>2 DEF CallInv
  <2> QED
    BY <1>1, <1>2, <2>1 DEF Linked, InnerA20
<1>4. /\ \A n \in 1 .. Len(frames') : Linked(n)'
      /\ Len(frames') = Len(frames) - 1 /\ frames' \in Seq(FrameType)
      /\ \A n \in 1 .. Len(frames') : frames'[n] = frames[n]
  BY <1>1, <1>3, PopLinks DEF CallInv
<1>5. TypeOK'
  BY <1>1, <1>2, <1>4 DEF TypeOK, FrameType
<1>6. LatchInv'
  BY DEF LatchInv
<1>7. BackupInv'
  <2>1. Top' = below
    BY <1>2, <1>3, <1>4 DEF Top
  <2> QED
    BY <1>3, <2>1 DEF BackupInv, CallInv
<1>8. CallInv'
  BY <1>1, <1>4, <1>7 DEF CallInv, Setup
<1>9. NestStep
  BY <1>1, <1>2, <1>3, <1>4 DEF NestStep, Running
<1> QED
  BY <1>5, <1>6, <1>8, <1>9
-----------------------------------------------------------------------------
(* smm_setup and the OS: no call is in progress. *)

LEMMA NoCalls ==
  ASSUME frames = <<>>, frames' = <<>>
  PROVE  NestStep /\ frames' \in Seq(FrameType) /\ \A n \in 1 .. Len(frames') : Linked(n)'
BY DEF NestStep

LEMMA TriggerStep ==
  ASSUME IInv, TriggerSmi
  PROVE  TypeOK' /\ LatchInv' /\ CallInv' /\ NestStep
<1> USE DEF IInv, TriggerSmi
<1>1. /\ pc = "trigger" /\ base = "init" /\ apmc /\ area.init.code = SMI_INSN
      /\ frames = <<>> /\ ctx = "flat" /\ a20 = TRUE
  BY DEF EntryInv, CallInv, Early, Borrowed, Setup
<1>2. area[base].code = SMI_INSN
  BY <1>1, AreaTypes
<1>3. pc' = "spin" /\ Relocate /\ routed' = routed
  BY <1>1, <1>2 DEF Smi, AURORA
<1>4. area' \in [init : Layout, smram : Layout]
  BY <1>1, <1>3, AreaTypes DEF Relocate, Layout, Context
<1>5. /\ backup'.one = "flat" /\ backup'.two = "flat"
      /\ backup' \in [one : Context \cup {None}, two : Context \cup {None}, a20 : BOOLEAN]
  BY <1>1, <1>3 DEF Relocate, CopyBackups, TypeOK, Context
<1>6. frames' = <<>>
  BY <1>1
<1>7. TypeOK'
  BY <1>1, <1>3, <1>4, <1>5, AreaSet DEF TypeOK, Relocate, NewBase, Setup, Layout
<1>8. LatchInv'
  BY <1>1, <1>3 DEF LatchInv, CALL32
<1>9. CallInv'
  BY <1>1, <1>3, <1>5, <1>6, NoCalls DEF CallInv, BackupInv, Relocate, Setup, Early, Context
<1> QED
  BY <1>1, <1>6, <1>7, <1>8, <1>9, NoCalls

LEMMA SetupStep ==
  ASSUME IInv, smm_setup
  PROVE  TypeOK' /\ LatchInv' /\ CallInv' /\ NestStep
<1> USE DEF IInv, At
<1>1. ASSUME OpenWindow \/ smm_save_and_copy \/ EnableApmc \/ Restore \/ InstallEntry
      PROVE  TypeOK' /\ LatchInv' /\ CallInv' /\ NestStep
  <2>1. /\ pc \in Setup /\ pc' \in Setup /\ pc' # "spin" /\ (pc' \notin Early => pc \notin Early)
        /\ UNCHANGED <<resumed, latch, backup, have32, cpu, aurora>>
        /\ window' \in BOOLEAN /\ apmc' \in BOOLEAN /\ status' \in {0, 1}
    BY <1>1 DEF OpenWindow, smm_save_and_copy, EnableApmc, Restore, InstallEntry,
         Setup, Early, ports, smram, TypeOK
  <2>2. area' \in [init : Layout, smram : Layout]
    BY <1>1, AreaTypes DEF OpenWindow, smm_save_and_copy, Borrow, EnableApmc, Restore,
         InstallEntry, smram, Layout
  <2>3. frames = <<>> /\ frames' = <<>> /\ ctx' = ctx /\ a20' = a20
    BY <2>1 DEF cpu, CallInv, Setup
  <2>4. TypeOK'
    BY <2>1, <2>2, AreaSet DEF TypeOK, Layout, cpu, aurora
  <2>5. LatchInv'
    BY <2>1 DEF LatchInv, aurora, Setup
  <2>6. CallInv'
    BY <2>1, <2>3, NoCalls DEF CallInv, BackupInv, Setup
  <2> QED
    BY <2>3, <2>4, <2>5, <2>6, NoCalls
<1>2. CASE TriggerSmi
  BY <1>2, TriggerStep
<1>3. CASE CloseWindow
  <2> USE <1>3 DEF CloseWindow, smram, aurora
  <2>1. frames = <<>> /\ frames' = <<>> /\ pc' \in {"os", "bios"} /\ ctx' \in Context
    BY DEF CallInv, Context
  <2>2. TypeOK'
    <3>1. window' \in BOOLEAN /\ a20' \in BOOLEAN
      BY Zenon
    <3>2. pc' \in Setup \cup {"bios", "os", "lost"}
      BY <2>1
    <3>3. UNCHANGED <<resumed, apmc, status, latch, area, backup, have32, base, routed, unserved>>
      BY Zenon
    <3>4. frames' \in Seq([kind : {"call32", "call16", "irq"}, ctx : Context, a20 : BOOLEAN])
      BY <2>1
    <3> HIDE <1>3 DEF CloseWindow
    <3> QED
      BY <2>1, <3>1, <3>2, <3>3, <3>4, ZenonT(30) DEF TypeOK
  <2>3. LatchInv'
    BY DEF LatchInv
  <2>4. CallInv'
    BY <2>1, NoCalls DEF CallInv, BackupInv, Setup, Early
  <2> QED
    BY <2>1, <2>2, <2>3, <2>4, NoCalls
<1> QED
  BY <1>1, <1>2, <1>3 DEF smm_setup

\* An SMI that finds the OS: routed interrupts came after the last command of
\* the trampoline.
LEMMA OsSmi ==
  ASSUME IInv, pc = "os", NEW cmd \in {0, AURORA, ACPI}, NEW ecx, Smi(cmd, ecx, "os"),
         latch' = cmd, UNCHANGED <<resumed, window, apmc, frames>>, unserved' \in BOOLEAN
  PROVE  TypeOK' /\ LatchInv' /\ CallInv' /\ NestStep /\ ctx' = ctx
<1> USE DEF IInv
<1>1. cmd # CALL32 /\ latch' \in {0, AURORA, CALL32, ACPI} /\ latch' # CALL32
  BY DEF CALL32, AURORA, ACPI
<1>2. /\ pc' = "os" /\ base' = base /\ status' = status
      /\ area' \in [init : Layout, smram : Layout]
  BY SmiAfterSetup
<1>3. UNCHANGED <<ctx, a20, backup, have32>>
  BY <1>1, SmiKeepsContext
<1>4. routed' \in BOOLEAN
  BY <1>2 DEF Smi, TypeOK
<1>5. frames = <<>> /\ frames' = <<>>
  BY DEF CallInv
<1>6. TypeOK'
  BY <1>1, <1>2, <1>3, <1>4, AreaSet DEF TypeOK, Layout
<1>7. LatchInv'
  BY <1>1, <1>2 DEF LatchInv
<1>8. CallInv'
  BY <1>2, <1>3, <1>5, NoCalls DEF CallInv, BackupInv, Setup, Early
<1> QED
  BY <1>3, <1>5, <1>6, <1>7, <1>8, NoCalls

OsStep == pc = "os" /\ pc' = "os" => ctx' = ctx

LEMMA OsActions ==
  ASSUME IInv, StartOs \/ Request \/ AcpiCommand \/ Suspend
               \/ \E ecx \in {None, "enter", "return"} : DeviceSmi(ecx)
  PROVE  TypeOK' /\ LatchInv' /\ CallInv' /\ NestStep /\ OsStep
<1> USE DEF IInv
<1>1. CASE StartOs
  <2> USE <1>1 DEF StartOs, At, ports, smram, aurora
  <2>1. frames = <<>> /\ frames' = <<>> /\ pc = "bios" /\ pc' = "os"
    OBVIOUS
  <2>2. TypeOK'
    BY <2>1 DEF TypeOK, Context
  <2>3. LatchInv'
    BY <2>1 DEF LatchInv
  <2>4. CallInv'
    BY <2>1, NoCalls DEF CallInv, BackupInv, Setup, Early
  <2> QED
    BY <2>1, <2>2, <2>3, <2>4, NoCalls DEF OsStep
<1>2. CASE Request \/ AcpiCommand
  <2>1. PICK cmd \in {AURORA, ACPI} : OsCommand(cmd)
    BY <1>2 DEF Request, AcpiCommand
  <2>2. unserved' \in BOOLEAN
    BY <2>1 DEF OsCommand, TypeOK
  <2> QED
    BY <2>1, <2>2, OsSmi DEF OsCommand, OsStep
<1>3. ASSUME NEW ecx \in {None, "enter", "return"}, DeviceSmi(ecx)
      PROVE  TypeOK' /\ LatchInv' /\ CallInv' /\ NestStep /\ OsStep
  <2>1. latch \in {0, AURORA, ACPI} /\ unserved' \in BOOLEAN
    BY <1>3 DEF DeviceSmi, LatchInv, TypeOK
  <2>2. pc = "os" /\ Smi(latch, ecx, "os") /\ latch' = latch /\ UNCHANGED <<resumed, window, apmc, frames>>
    BY <1>3 DEF DeviceSmi
  <2> QED
    BY <2>1, <2>2, OsSmi DEF OsStep
<1>4. CASE Suspend
  <2> USE <1>4 DEF Suspend, At, smram, aurora
  <2>1. frames = <<>> /\ frames' = <<>> /\ pc = "os" /\ pc' = "open" /\ resumed' = TRUE
    BY DEF CallInv
  <2>2. TypeOK'
    BY <2>1 DEF TypeOK, Context, Setup
  <2>3. LatchInv'
    BY <2>1 DEF LatchInv, CALL32
  <2>4. CallInv'
    BY <2>1, NoCalls DEF CallInv, BackupInv, Setup, Early
  <2> QED
    BY <2>1, <2>2, <2>3, <2>4, NoCalls DEF OsStep
<1> QED
  BY <1>1, <1>2, <1>3, <1>4
-----------------------------------------------------------------------------
LEMMA InitInv == Init => IInv
<1> SUFFICES ASSUME Init PROVE IInv
  OBVIOUS
<1> USE DEF Init
<1>1. area \in [init : Layout, smram : Layout]
  BY DEF Original, Layout
<1>2. TypeOK
  <2>1. /\ pc \in Setup \cup {"bios", "os", "lost"} /\ base \in {"init", "smram"}
        /\ status \in {0, 1} /\ latch \in {0, AURORA, CALL32, ACPI}
        /\ ctx \in Context /\ frames \in Seq(FrameType)
    BY DEF Setup, Context
  <2>2. area \in [{"init", "smram"} -> Layout]
    BY <1>1, AreaSet, Zenon
  <2>3. backup \in [one : Context \cup {None}, two : Context \cup {None}, a20 : BOOLEAN]
    OBVIOUS
  <2> QED
    BY <2>1, <2>2, <2>3, Zenon DEF TypeOK, Layout, FrameType
<1>3. EntryInv
  BY DEF EntryInv, Setup, Early, Borrowed
<1>4. LatchInv
  BY DEF LatchInv
<1>5. CallInv
  BY DEF CallInv, BackupInv, Early
<1> QED
  BY <1>2, <1>3, <1>4, <1>5 DEF IInv

LEMMA Step ==
  ASSUME IInv, [Next]_vars
  PROVE  IInv' /\ NestStep /\ OsStep
<1>1. EntryInv'
  BY EntryStep DEF IInv
<1> SUFFICES TypeOK' /\ LatchInv' /\ CallInv' /\ NestStep /\ OsStep
  BY <1>1 DEF IInv
<1>2. CASE smm_setup
  <2>1. pc # "os"
    BY <1>2 DEF smm_setup, OpenWindow, smm_save_and_copy, EnableApmc, TriggerSmi, Restore,
         InstallEntry, CloseWindow, At
  <2> QED
    BY <1>2, <2>1, SetupStep DEF OsStep
<1>3. CASE call32_smm \/ call32_done \/ call16_smm \/ call16_done \/ Iret \/ \E c \in Caller : Irq(c)
  <2>1. pc = "bios"
    BY <1>3 DEF call32_smm, call32_done, call16_smm, call16_done, Irq, Iret, Inside
  <2> QED
    BY <1>3, <2>1, Call32Step, Call32DoneStep, Call16Step, Call16DoneStep, IrqStep, IretStep DEF OsStep
<1>4. CASE StartOs \/ Request \/ AcpiCommand \/ Suspend
           \/ \E ecx \in {None, "enter", "return"} : DeviceSmi(ecx)
  BY <1>4, OsActions
<1>5. CASE UNCHANGED vars
  <2> USE <1>5 DEF vars, ports, smram, cpu, aurora
  <2>1. TypeOK' /\ LatchInv' /\ OsStep
    BY DEF IInv, TypeOK, LatchInv, OsStep
  <2>2. CallInv'
    BY DEF IInv, CallInv, BackupInv, Linked, InnerCtx, InnerA20, Top
  <2>3. frames' = frames /\ Len(frames) \in Nat
    BY DEF IInv, TypeOK
  <2>4. NestStep
    BY <2>3 DEF NestStep
  <2> QED
    BY <2>1, <2>2, <2>4
<1> QED
  BY <1>2, <1>3, <1>4, <1>5 DEF Next

\* The inductive invariant of the specification.
LEMMA Inductive == Spec => []IInv
<1>1. IInv /\ [Next]_vars => IInv'
  BY Step
<1> QED
  BY InitInv, <1>1, PTL DEF Spec

\* TypeOK holds always: handle_smi only ever resumes a context it saved.
THEOREM TypeCorrect == Spec => []TypeOK
<1>1. IInv => TypeOK
  BY DEF IInv
<1> QED
  BY Inductive, <1>1, PTL

\* Every SMI finds the jump to entry_smi at the SMBASE of the moment, for any
\* number of resumes from S3, any nesting of calls and any device SMI.
THEOREM EntryTheorem == Spec => []EveryEntryFound
<1>1. IInv => EveryEntryFound
  BY DEF IInv, EntryInv, EveryEntryFound, Setup
<1> QED
  BY Inductive, <1>1, PTL

\* The memory smm_setup borrows at 0x30000 is back, and SMRAM hidden, whenever
\* the BIOS or the OS runs after it.
THEOREM GivenBackTheorem == Spec => []MemoryGivenBack
<1>1. IInv => MemoryGivenBack
  BY DEF IInv, EntryInv, MemoryGivenBack, Borrowed
<1> QED
  BY Inductive, <1>1, PTL

\* However deep calls between 16-bit and 32-bit code nest, and whatever
\* interrupts come between them, each ends in the context and with the A20 gate
\* it was made from, although all share one backup2 and one backup_a20.
THEOREM NestTheorem == Spec => CallsNest
<1>1. IInv /\ [Next]_vars =>
        [/\ Len(frames') < Len(frames) => <<ctx, a20>>' = Running(Top)
         /\ Len(frames') > Len(frames) /\ Inside("call32") => <<ctx, a20>>' = Running(Top)]_vars
  BY Step DEF NestStep
<1> QED
  BY Inductive, <1>1, PTL DEF Spec, CallsNest

\* An SMI taken while the OS runs gives the CPU back to the OS, whatever ecx
\* holds: the trampoline's command is never in the latch once an interrupt is
\* routed to SMI.
THEOREM OsTheorem == Spec => OsUndisturbed
<1>1. IInv /\ [Next]_vars => [pc = "os" /\ pc' = "os" => ctx' = ctx]_vars
  BY Step DEF OsStep
<1> QED
  BY Inductive, <1>1, PTL DEF Spec, OsUndisturbed
=============================================================================
