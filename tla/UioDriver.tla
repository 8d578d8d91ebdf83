------------------------------- MODULE UioDriver -------------------------------
(***************************************************************************)
(* The life of the Aurora UIO driver (uio_aurora.c): loading, failing to   *)
(* load, relaying interrupts, unloading and loading again, next to the     *)
(* supervisor, which reads the address of the shared page from low memory  *)
(* once, at its first SMI (init_ring_buffer).                              *)
(*                                                                         *)
(* aurora_init and aurora_exit are split at their calls into the kernel:   *)
(* the interrupt line is shared and irq_handler takes every interrupt for  *)
(* its own, so a notification may come between any two of them.            *)
(***************************************************************************)
EXTENDS Naturals

CONSTANTS
  Page,       \* what kmalloc can return
  None,       \* the null pointer
  MaxLoads    \* bound on insmod

ASSUME PageAssumption == None \notin Page
ASSUME BoundsAssumption == MaxLoads \in Nat

VARIABLES
  phase,             \* the call that comes next, "loaded", or "out"
  pci, irq_on,       \* the PCI driver is registered, its interrupt is requested
  platform, uio,     \* the platform device and the UIO device are registered
  info, pdev, svm_vmem, svm_ram,   \* the statics of the module
  low,               \* the address at SVM_OFFSET of low memory
  inited, shmem_base,              \* the supervisor
  attached, event,   \* a client has the device open, an event it has not read
  loads, failed,     \* history: insmod so far; some call of a load has failed
  fault              \* the kernel has crashed

kernel == <<pci, irq_on, platform, uio>>
statics == <<info, pdev, svm_vmem, svm_ram>>
smm == <<inited, shmem_base>>
client == <<attached, event>>
vars == <<phase, kernel, statics, low, smm, client, loads, failed, fault>>

Loading == {"init_pci", "init_platform", "init_info", "init_page", "init_uio", "init_taint"}
Unloading == {"exit_uio", "exit_free", "exit_platform", "exit_sweep"}

\* Registrations, pointers and phases have values the driver can give them.
TypeOK ==
  /\ phase \in Loading \cup Unloading \cup {"out", "loaded"}
  /\ pci \in BOOLEAN /\ irq_on \in BOOLEAN /\ platform \in BOOLEAN /\ uio \in BOOLEAN
  /\ info \in {"null", "live", "freed"} /\ pdev \in BOOLEAN /\ svm_ram \in BOOLEAN
  /\ svm_vmem \in Page \cup {None} /\ low \in Page \cup {None}
  /\ inited \in BOOLEAN /\ shmem_base \in Page \cup {None}
  /\ attached \in BOOLEAN /\ event \in BOOLEAN
  /\ loads \in 0 .. MaxLoads /\ failed \in BOOLEAN /\ fault \in BOOLEAN

Init ==
  /\ phase = "out"
  /\ pci = FALSE /\ irq_on = FALSE /\ platform = FALSE /\ uio = FALSE
  /\ info = "null" /\ pdev = FALSE /\ svm_vmem = None /\ svm_ram = FALSE
  /\ low = None
  /\ inited = FALSE /\ shmem_base = None
  /\ attached = FALSE /\ event = FALSE
  /\ loads = 0 /\ failed = FALSE /\ fault = FALSE

-----------------------------------------------------------------------------
(* aurora_init.  A negative result takes the module out again without calling *)
(* aurora_exit; what it had registered stays.                                *)

Goto(here, there) == ~fault /\ phase = here /\ phase' = there
Abort(here) == Goto(here, "out") /\ failed' = TRUE

insmod ==
  /\ Goto("out", "init_pci")
  /\ loads < MaxLoads /\ loads' = loads + 1
  /\ info' = "null" /\ pdev' = FALSE /\ svm_vmem' = None /\ svm_ram' = FALSE
  /\ UNCHANGED <<kernel, low, smm, client, failed, fault>>

\* pci_probe returns 1 without an interrupt, and the PCI core takes that for
\* success.  aurora_init too returns 1, and the kernel loads the module anyway.
init_pci ==
  /\ \/ /\ Goto("init_pci", "init_platform")
        /\ ~pci /\ pci' = TRUE
        /\ irq_on' \in BOOLEAN
        /\ failed' = (failed \/ ~irq_on')
     \/ /\ Goto("init_pci", "loaded")
        /\ failed' = TRUE
        /\ UNCHANGED <<pci, irq_on>>
  /\ UNCHANGED <<platform, uio, statics, low, smm, client, loads, fault>>

init_platform ==
  /\ \/ /\ Goto("init_platform", "init_info")
        /\ ~platform /\ platform' = TRUE /\ pdev' = TRUE
        /\ UNCHANGED failed
     \/ Abort("init_platform") /\ UNCHANGED <<platform, pdev>>
  /\ UNCHANGED <<pci, irq_on, uio, info, svm_vmem, svm_ram, low, smm, client, loads, fault>>

init_info ==
  /\ \/ Goto("init_info", "init_page") /\ info' = "live" /\ UNCHANGED failed
     \/ Abort("init_info") /\ UNCHANGED info
  /\ UNCHANGED <<kernel, pdev, svm_vmem, svm_ram, low, smm, client, loads, fault>>

init_page ==
  /\ \/ /\ Goto("init_page", "init_uio")
        /\ svm_vmem' \in Page
        /\ UNCHANGED <<info, failed>>
     \/ Abort("init_page") /\ info' = "freed" /\ svm_vmem' = None
  /\ UNCHANGED <<kernel, pdev, svm_ram, low, smm, client, loads, fault>>

init_uio ==
  /\ \/ Goto("init_uio", "init_taint") /\ uio' = TRUE /\ UNCHANGED <<info, failed>>
     \/ Abort("init_uio") /\ info' = "freed" /\ UNCHANGED uio
  /\ UNCHANGED <<pci, irq_on, platform, pdev, svm_vmem, svm_ram, low, smm, client, loads, fault>>

\* Mutant: the address is written without virt_to_phys.
MutantVirtualAddress == low' = <<svm_vmem>> /\ svm_ram' = TRUE

\* Mutant: the address is not written.
MutantNoTaint == UNCHANGED low /\ svm_ram' = TRUE

taint == low' = svm_vmem /\ svm_ram' = TRUE

init_taint ==
  /\ Goto("init_taint", "loaded")
  /\ taint
  /\ UNCHANGED <<kernel, info, pdev, svm_vmem, smm, client, loads, failed, fault>>

-----------------------------------------------------------------------------
(* aurora_exit.  The UIO core keeps the module while a client has it open. *)

\* Mutant: the interrupt is not given back.
MutantKeepIrq == UNCHANGED <<pci, irq_on>>

\* A module that pci_register_driver refused has no driver to take back.
pci_unregister_driver ==
  IF pdev THEN pci' = FALSE /\ irq_on' = FALSE ELSE UNCHANGED <<pci, irq_on>>

exit_pci ==
  /\ Goto("loaded", "exit_uio")
  /\ ~attached
  /\ pci_unregister_driver
  /\ UNCHANGED <<platform, uio, statics, low, smm, client, loads, failed, fault>>

exit_uio ==
  /\ Goto("exit_uio", "exit_free")
  /\ uio' = FALSE
  /\ UNCHANGED <<pci, irq_on, platform, statics, low, smm, client, loads, failed, fault>>

exit_free ==
  /\ Goto("exit_free", "exit_platform")
  /\ info' = "null"
  /\ UNCHANGED <<kernel, pdev, svm_vmem, svm_ram, low, smm, client, loads, failed, fault>>

exit_platform ==
  /\ Goto("exit_platform", "exit_sweep")
  /\ platform' = (platform /\ ~pdev)
  /\ UNCHANGED <<pci, irq_on, uio, statics, low, smm, client, loads, failed, fault>>

\* A module that never came to taint clears memory at the null pointer.
sweep ==
  /\ Goto("exit_sweep", "out")
  /\ fault' = ~svm_ram
  /\ low' = None /\ svm_ram' = FALSE /\ svm_vmem' = None
  /\ UNCHANGED <<kernel, info, pdev, smm, client, loads, failed>>

-----------------------------------------------------------------------------
(* The relay, the client and the supervisor. *)

\* uio_event_notify(info) goes through the UIO device of info; after a failed load
\* the handler itself is gone.
irq_handler ==
  /\ ~fault /\ irq_on
  /\ fault' = ~uio
  /\ event' = (event \/ uio)
  /\ UNCHANGED <<phase, kernel, statics, low, smm, attached, loads, failed>>

uio_irq_handler ==
  /\ ~fault /\ uio
  /\ event' = TRUE
  /\ UNCHANGED <<phase, kernel, statics, low, smm, attached, loads, failed, fault>>

\* The kernel lets a module that is being loaded be opened, but none that is being
\* taken out.
OpenDevice ==
  /\ ~fault /\ uio /\ ~attached
  /\ phase \in {"init_taint", "loaded"}
  /\ attached' = TRUE /\ event' = FALSE
  /\ UNCHANGED <<phase, kernel, statics, low, smm, loads, failed, fault>>

CloseDevice ==
  /\ ~fault /\ attached /\ attached' = FALSE
  /\ UNCHANGED <<phase, kernel, statics, low, smm, event, loads, failed, fault>>

\* The first SMI is a request of a client.  A page at the null pointer is still
\* formatted: SMM runs without paging.
init_ring_buffer ==
  /\ ~fault /\ attached
  /\ ~inited /\ inited' = TRUE
  /\ shmem_base' = low
  /\ UNCHANGED <<phase, kernel, statics, low, client, loads, failed, fault>>

aurora_init == init_pci \/ init_platform \/ init_info \/ init_page \/ init_uio \/ init_taint
aurora_exit == exit_pci \/ exit_uio \/ exit_free \/ exit_platform \/ sweep

Next ==
  \/ insmod \/ aurora_init \/ aurora_exit
  \/ irq_handler \/ uio_irq_handler
  \/ OpenDevice \/ CloseDevice \/ init_ring_buffer

Spec == Init /\ [][Next]_vars

-----------------------------------------------------------------------------
(* Properties. *)

\* Once every call of the loads has succeeded and insmod has returned, no interrupt
\* that meets the driver crashes the kernel, not even in the middle of rmmod or in a
\* later load that has got as far as the UIO device.
SafeOnceLoaded == fault => failed \/ phase \in Loading \ {"init_taint"}

\* The first SMI finds the page of the loaded driver in low memory, also when it
\* comes only after the driver was unloaded and loaded again; only a client that
\* opens the device before insmod has come to taint may make it miss.
FirstSmiFindsPage ==
  [][init_ring_buffer => phase = "init_taint" \/ (shmem_base' = svm_vmem /\ info = "live")]_vars
=============================================================================
