------------------------------ MODULE SmmEntry ------------------------------
(***************************************************************************)
(* The way into SMM: smm_setup (smm.c) moves SMBASE from 0x30000 to SMRAM  *)
(* with a first SMI that runs on borrowed memory, at power-on and again at *)
(* every resume from S3; handle_smi then serves the supervisor and the     *)
(* trampoline by which 16-bit BIOS code calls 32-bit code (call32_smm and  *)
(* call16_smm of stacks.c).                                                *)
(*                                                                         *)
(* An SMI is one step: the CPU saves its state at SMBASE, runs the code    *)
(* there and resumes from what the handler left in the save area.  The     *)
(* CPU state is abstracted to the context it belongs to, "flat" (32-bit    *)
(* BIOS code), "os", or the 16-bit context of a caller of the BIOS.        *)
(***************************************************************************)
EXTENDS Naturals, Sequences

CONSTANTS
  Caller,       \* 16-bit contexts that call the BIOS
  MaxDepth      \* bound on the nesting of calls between 16 and 32 bits

Context == Caller \cup {"flat", "os"}
None == "none"
AURORA == 160          \* 0xa0
CALL32 == 181          \* CALL32SMM_CMDID
ACPI == 241            \* PIIX_ACPI_ENABLE, the acpi_enable command of the FADT
SMI_INSN == "smi"      \* the jump to entry_smi; any other code is "data"

VARIABLES
  pc,        \* step of smm_setup, or "bios", "os", "lost"
  resumed,   \* smm_setup runs for a resume from S3
  window,    \* SMRAM is visible outside SMM
  apmc,      \* a write to PORT_SMI_CMD raises an SMI
  status,    \* PORT_SMI_STATUS
  latch,     \* PORT_SMI_CMD
  base,      \* SMBASE of the CPU: "init" (0x30000) or "smram" (0xa0000)
  area,      \* the two smm_layouts: codeentry and the save area cpu
  backup,    \* backup1, backup2 and backup_a20 in SMRAM
  have32,    \* HaveSmmCall32
  ctx, a20,  \* what the CPU runs, and its A20 gate
  frames,    \* the calls in progress, innermost last (history)
  routed,    \* an interrupt is routed to SMI by the supervisor
  unserved   \* a device SMI ended without the supervisor (history)

ports == <<window, apmc, status, latch>>
smram == <<area, backup, have32>>
cpu == <<base, ctx, a20, frames>>
aurora == <<routed, unserved>>
vars == <<pc, resumed, ports, smram, cpu, aurora>>

Original == [code |-> "data", cpu |-> None]
Setup == {"open", "copy", "apmc", "trigger", "spin", "restore", "install", "close"}

Init ==
  /\ pc = "open" /\ resumed = FALSE
  /\ window = FALSE /\ apmc = FALSE /\ status = 0 /\ latch = 0
  /\ base = "init"
  /\ area = [init |-> Original, smram |-> Original]
  /\ backup = [one |-> None, two |-> None, a20 |-> TRUE]
  /\ have32 = FALSE
  /\ ctx = "flat" /\ a20 = TRUE /\ frames = <<>>
  /\ routed = FALSE /\ unserved = FALSE
-----------------------------------------------------------------------------
(* handle_smi for command cmd with ecx in the interrupted state. *)

\* Mutant: the new base is not written to the save area.
MutantNoNewBase == base' = base

NewBase == base' = "smram"

\* Mutant: the trampoline state is not copied.
MutantNoBackup(saved) == backup' = [backup EXCEPT !.two = saved]

CopyBackups(saved) == backup' = [backup EXCEPT !.one = saved, !.two = saved]

\* The first SMI: moves SMBASE and keeps the state for the trampoline.  The CPUs of
\* QEMU have one of the two known revisions; with another one the code returns at
\* once and smm_setup waits for the status for ever.
Relocate ==
  /\ base = "init"
  /\ NewBase
  /\ status' = 0
  /\ CopyBackups(ctx)
  /\ have32' = TRUE
  /\ area' = [area EXCEPT !.init.cpu = ctx]
  /\ UNCHANGED <<ctx, a20>>

\* Mutant: only the outermost caller is saved.
MutantSaveOnce(saved) ==
  IF Len(frames) = 0 THEN [backup EXCEPT !.two = saved, !.a20 = a20] ELSE backup

SaveCaller(saved) == [backup EXCEPT !.two = saved, !.a20 = a20]

\* CALL32SMM_ENTERID: into 32-bit mode with the state of backup1.
EnterId ==
  /\ backup' = SaveCaller(ctx)
  /\ area' = [area EXCEPT !.smram.cpu = backup.one]
  /\ ctx' = backup.one /\ a20' = TRUE
  /\ UNCHANGED <<base, status, have32>>

\* CALL32SMM_RETURNID: back to the state of backup2.
ReturnId ==
  /\ area' = [area EXCEPT !.smram.cpu = backup.two]
  /\ ctx' = backup.two /\ a20' = (a20 /\ backup.a20)
  /\ UNCHANGED <<base, status, backup, have32>>

\* Any other command: the CPU resumes where it was.
Resume ==
  /\ area' = [area EXCEPT !.smram.cpu = ctx]
  /\ UNCHANGED <<base, ctx, a20, status, backup, have32>>

\* Mutant: the trampoline looks at ecx only.
MutantAnyCommand(cmd) == TRUE

Trampolined(cmd) == cmd = CALL32

\* Without SMI generation, or with other code at SMBASE, the CPU never comes
\* back to its caller.
Smi(cmd, ecx, next) ==
  IF ~apmc \/ area[base].code # SMI_INSN
    THEN pc' = "lost" /\ UNCHANGED <<smram, base, ctx, a20, status, routed>>
    ELSE /\ pc' = next
         /\ IF cmd = AURORA THEN routed' \in BOOLEAN ELSE routed' = routed
         /\ \/ Relocate
            \/ base = "smram" /\ Trampolined(cmd) /\ ecx = "enter" /\ EnterId
            \/ base = "smram" /\ Trampolined(cmd) /\ ecx = "return" /\ ReturnId
            \/ base = "smram" /\ (Trampolined(cmd) => ecx = None) /\ Resume
-----------------------------------------------------------------------------
(* smm_setup, one action per step; SMRAM can be written while it is open. *)

At(here, next) == pc = here /\ pc' = next

\* The window is opened.  smm_setup returns early when SMI generation is on, which
\* it never is: power-on and resume reset the chipset first.
OpenWindow ==
  /\ At("open", "copy") /\ ~apmc
  /\ window' = TRUE
  /\ UNCHANGED <<resumed, apmc, status, latch, smram, cpu, aurora>>

\* Mutant: the entry is installed before the memory under it is saved.
MutantLateSave ==
  area' = [init |-> [area.init EXCEPT !.code = SMI_INSN],
           smram |-> [code |-> SMI_INSN, cpu |-> area.init.cpu]]

\* smm_save_and_copy
Borrow ==
  area' = [init |-> [area.init EXCEPT !.code = SMI_INSN],
           smram |-> [code |-> area.init.code, cpu |-> area.init.cpu]]

smm_save_and_copy ==
  /\ At("copy", "apmc")
  /\ Borrow
  /\ UNCHANGED <<resumed, ports, backup, have32, cpu, aurora>>

EnableApmc ==
  /\ At("apmc", "trigger")
  /\ apmc' = TRUE /\ status' = 1
  /\ UNCHANGED <<resumed, window, latch, smram, cpu, aurora>>

\* smm_relocate_and_restore: command 0 raises the first SMI, ...
TriggerSmi ==
  /\ pc = "trigger"
  /\ latch' = 0
  /\ Smi(0, None, "spin")
  /\ UNCHANGED <<resumed, window, apmc, frames, unserved>>

\* ... which clears the status; the borrowed memory is given back, ...
Restore ==
  /\ At("spin", "install") /\ status = 0
  /\ area' = [area EXCEPT !.init = [code |-> area.smram.code, cpu |-> area.smram.cpu]]
  /\ UNCHANGED <<resumed, ports, backup, have32, cpu, aurora>>

\* ... and the entry code goes to its final place.
InstallEntry ==
  /\ At("install", "close")
  /\ area' = [area EXCEPT !.smram.code = SMI_INSN]
  /\ UNCHANGED <<resumed, ports, backup, have32, cpu, aurora>>

\* The window is closed; a resume goes back to the OS, a boot to the loader.
CloseWindow ==
  /\ pc = "close"
  /\ pc' = IF resumed THEN "os" ELSE "bios"
  /\ window' = FALSE
  /\ \/ resumed /\ ctx' = "os"
     \/ ~resumed /\ ctx' \in Caller
  /\ a20' \in BOOLEAN
  /\ UNCHANGED <<resumed, apmc, status, latch, smram, base, frames, aurora>>
-----------------------------------------------------------------------------
(* The BIOS between boot and OS: calls from 16-bit code into 32-bit code.  *)
(* A frame holds what must run again when the call ends.                   *)

Running(f) == <<f.ctx, f.a20>>
Frame(kind, c, gate) == [kind |-> kind, ctx |-> c, a20 |-> gate]
Top == frames[Len(frames)]
Pop == frames' = SubSeq(frames, 1, Len(frames) - 1)
Inside(kind) == pc = "bios" /\ frames # <<>> /\ Top.kind = kind

Trampoline(ecx) ==
  /\ latch' = CALL32
  /\ Smi(CALL32, ecx, "bios")
  /\ UNCHANGED <<resumed, window, apmc, unserved>>

\* call32_smm from 16-bit code, and its second half.  What call32_prep keeps for
\* call32_post, the stack segment and the NMI setting, is left out.
call32_smm ==
  /\ (pc = "bios" /\ frames = <<>>) \/ Inside("call16") \/ Inside("irq")
  /\ have32 /\ Len(frames) < MaxDepth
  /\ Trampoline("enter")
  /\ frames' = Append(frames, Frame("call32", ctx, a20))

call32_done ==
  /\ Inside("call32")
  /\ Trampoline("return")
  /\ Pop

\* call16_smm from that 32-bit code back to its 16-bit caller, and its
\* second half.
call16_smm ==
  /\ Inside("call32") /\ Len(frames) < MaxDepth
  /\ Trampoline("return")
  /\ frames' = Append(frames, Frame("call16", ctx, a20))

call16_done ==
  /\ Inside("call16")
  /\ Trampoline("enter")
  /\ Pop

\* An interrupt of the 16-bit code runs in another context and may call the
\* BIOS itself.
Irq(c) ==
  /\ Inside("call16") /\ Len(frames) < MaxDepth
  /\ ctx' = c
  /\ frames' = Append(frames, Frame("irq", ctx, a20))
  /\ UNCHANGED <<pc, resumed, ports, smram, base, a20, aurora>>

Iret ==
  /\ Inside("irq")
  /\ ctx' = Top.ctx /\ Pop
  /\ UNCHANGED <<pc, resumed, ports, smram, base, a20, aurora>>
-----------------------------------------------------------------------------
(* The OS. *)

StartOs ==
  /\ At("bios", "os") /\ frames = <<>>
  /\ ctx' = "os" /\ a20' = TRUE
  /\ UNCHANGED <<resumed, ports, smram, base, frames, aurora>>

OsCommand(cmd) ==
  /\ pc = "os"
  /\ latch' = cmd
  /\ Smi(cmd, None, "os")
  /\ UNCHANGED <<resumed, window, apmc, frames, unserved>>

\* ocall_smi of an enclave's host process.
Request == OsCommand(AURORA)

\* The OS uses the port that the FADT gives it for its own commands.
AcpiCommand == OsCommand(ACPI)

\* An interrupt routed to SMI: no command is written, and ecx is anything.
DeviceSmi(ecx) ==
  /\ pc = "os" /\ routed
  /\ Smi(latch, ecx, "os")
  /\ unserved' = (unserved \/ latch # AURORA)
  /\ UNCHANGED <<resumed, window, apmc, latch, frames>>

\* Suspend to RAM: memory and SMRAM keep their contents, the CPU and the
\* chipset are reset, and the BIOS starts with s3_resume.  The OS brings the
\* I/O APIC's entries back as it found them, a route to SMI included.
Suspend ==
  /\ At("os", "open")
  /\ resumed' = TRUE
  /\ base' = "init" /\ ctx' = "flat" /\ a20' = TRUE
  /\ apmc' = FALSE /\ latch' = 0
  /\ UNCHANGED <<window, status, smram, frames, aurora>>

smm_setup ==
  OpenWindow \/ smm_save_and_copy \/ EnableApmc \/ TriggerSmi
  \/ Restore \/ InstallEntry \/ CloseWindow

Next ==
  \/ smm_setup
  \/ call32_smm \/ call32_done \/ call16_smm \/ call16_done
  \/ \E c \in Caller : Irq(c)
  \/ Iret
  \/ StartOs \/ Request \/ AcpiCommand \/ Suspend
  \/ \E ecx \in {None, "enter", "return"} : DeviceSmi(ecx)

Spec == Init /\ [][Next]_vars
-----------------------------------------------------------------------------
\* Contexts, ports and save areas hold what the handler can put there.
TypeOK ==
  /\ pc \in Setup \cup {"bios", "os", "lost"}
  /\ resumed \in BOOLEAN /\ window \in BOOLEAN /\ apmc \in BOOLEAN
  /\ status \in {0, 1} /\ latch \in {0, AURORA, CALL32, ACPI}
  /\ base \in {"init", "smram"}
  /\ area \in [{"init", "smram"} -> [code : {SMI_INSN, "data"}, cpu : Context \cup {None}]]
  /\ backup \in [one : Context \cup {None}, two : Context \cup {None}, a20 : BOOLEAN]
  /\ have32 \in BOOLEAN /\ ctx \in Context /\ a20 \in BOOLEAN
  /\ frames \in Seq([kind : {"call32", "call16", "irq"}, ctx : Context, a20 : BOOLEAN])
  /\ routed \in BOOLEAN /\ unserved \in BOOLEAN

\* Every SMI finds the jump to entry_smi at the SMBASE of the moment, through
\* relocation, the return of the borrowed memory and any number of resumes.
EveryEntryFound == pc # "lost"

\* When smm_setup is over, the memory at 0x30000 is what it was before: at a
\* resume it belongs to the suspended OS.  SMRAM is hidden again.
MemoryGivenBack == pc \in {"bios", "os"} => area.init = Original /\ ~window

\* A call into 32-bit code ends in the context, and with the A20 gate, it was
\* made from, and 32-bit code calls back into the context that called it,
\* although all nested calls share one backup2 and one backup_a20.
CallsNest ==
  [][/\ Len(frames') < Len(frames) => <<ctx, a20>>' = Running(Top)
     /\ Len(frames') > Len(frames) /\ Inside("call32") => <<ctx, a20>>' = Running(Top)]_vars

\* While the OS runs, an SMI gives the CPU back to the OS, and never to the
\* BIOS context that the trampoline keeps, whatever ecx holds: the commands
\* of the trampoline end with the BIOS, before an interrupt is routed to SMI.
OsUndisturbed == [][pc = "os" /\ pc' = "os" => ctx' = ctx]_vars

\* "SMVisor distinguishes the interrupt source and thus notifies a certain
\* enclave or the untrusted kernel": an interrupt that is routed to SMI is
\* handled by the supervisor.
DeviceSmiServed == ~unserved
=============================================================================
