-------------------------------- MODULE IoApic --------------------------------
(***************************************************************************)
(* The I/O APIC as the OS and the keyboard supervisor share it (apic.c,    *)
(* hijack_keyboard and recover_keyboard): an index register, behind which  *)
(* one data register stands for all redirection entries.  An access of the *)
(* OS is two steps under a lock that SMM knows nothing of.  The request of *)
(* a session is an instruction of a process, so it is never in the middle  *)
(* of an access on the one processor; the SMI of a key can be.             *)
(***************************************************************************)
EXTENDS Naturals

CONSTANTS
  KBD_IRQ, Irq,   \* the keyboard's entry, and all entries
  Vector, Flag,   \* the low byte of an entry, and its other bits
  MaxAccess       \* bound on the accesses of the OS

Entry == [vec : Vector, flag : Flag]
APIC_DM_SMI == [vec |-> 0, flag |-> "smi"]
None == "none"

VARIABLES
  select, redtbl,    \* IOREGSEL and the entries
  osSelected, osTable, accesses,   \* the OS: an access in progress, what it
                     \* wrote to each entry, how often
  kbd_vec, session   \* the supervisor: the entry kept, and whether a session
                     \* is on

os == <<osSelected, osTable, accesses>>
smm == <<kbd_vec, session>>
vars == <<select, redtbl, os, smm>>

Init ==
  /\ osTable \in [Irq -> Entry] /\ redtbl = osTable
  /\ select \in Irq /\ osSelected = None /\ accesses = 0
  /\ kbd_vec = 0 /\ session = FALSE

\* During a session the OS has no reason to touch the keyboard's entry, but
\* may change another one.
OsSelect(i) ==
  /\ osSelected = None /\ accesses < MaxAccess
  /\ session => i # KBD_IRQ
  /\ select' = i /\ osSelected' = i /\ accesses' = accesses + 1
  /\ UNCHANGED <<redtbl, osTable, smm>>

OsWrite(e) ==
  /\ osSelected # None
  /\ redtbl' = [redtbl EXCEPT ![select] = e]
  /\ osTable' = [osTable EXCEPT ![osSelected] = e]
  /\ osSelected' = None
  /\ UNCHANGED <<select, accesses, smm>>

\* ioapic_read_reg returns all 32 bits.
ioapic_read_reg == redtbl[KBD_IRQ]

ioapic_write_reg(e) ==
  /\ select' = KBD_IRQ
  /\ redtbl' = [redtbl EXCEPT ![KBD_IRQ] = e]

\* The request that starts a session.
hijack_keyboard ==
  /\ ~session /\ session' = TRUE
  /\ osSelected = None
  /\ kbd_vec' = ioapic_read_reg
  /\ ioapic_write_reg(APIC_DM_SMI)
  /\ UNCHANGED os

\* The SMI of the Enter key, which ends it.
recover_keyboard ==
  /\ session /\ session' = FALSE
  /\ ioapic_write_reg(kbd_vec)
  /\ UNCHANGED <<kbd_vec, os>>

Next ==
  \/ \E i \in Irq : OsSelect(i)
  \/ \E e \in Entry : OsWrite(e)
  \/ hijack_keyboard \/ recover_keyboard

Spec == Init /\ [][Next]_vars
-----------------------------------------------------------------------------
\* "transparent to untrusted OSes/HVs": between sessions every redirection
\* entry is, in all its bits, what the OS wrote to it last.
Transparent == ~session /\ osSelected = None => redtbl = osTable
=============================================================================
