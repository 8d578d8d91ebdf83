---------------------------- MODULE UioDriverProofs ----------------------------
(***************************************************************************)
(* Proofs about UioDriver for every set of pages and any number of loads.  *)
(***************************************************************************)
EXTENDS UioDriver, TLAPS

\* SafeOnceLoaded is not inductive: it rests on which registrations exist in which
\* phase, and on a load without a failure having passed every one of them.
LifeInv ==
  /\ SafeOnceLoaded
  /\ phase \in Loading \cup Unloading \cup {"out", "loaded"}
  /\ uio <=> phase = "init_taint" \/ (phase \in {"loaded", "exit_uio"} /\ pdev)
  /\ phase \in {"init_pci", "init_platform"} => ~pdev
  /\ phase \in {"init_info", "init_page", "init_uio", "init_taint"} => pdev
  /\ ~failed /\ phase \in Unloading \cup {"loaded"} => pdev /\ svm_ram
  /\ ~failed /\ irq_on => phase \in (Loading \ {"init_pci"}) \cup {"loaded"}
  /\ attached => phase \in {"init_taint", "loaded"} /\ uio
  /\ phase \in {"init_page", "init_uio", "init_taint"} => info = "live"
  /\ phase = "loaded" /\ pdev => low = svm_vmem /\ info = "live"

LEMMA LifeInit == Init => LifeInv
BY DEF Init, LifeInv, SafeOnceLoaded, Loading, Unloading

\* One step per call of aurora_init and aurora_exit and per event in between.
LEMMA LifeStep == LifeInv /\ [Next]_vars => LifeInv'
<1> SUFFICES ASSUME LifeInv, [Next]_vars PROVE LifeInv'
  OBVIOUS
<1> USE DEF LifeInv, SafeOnceLoaded, Loading, Unloading, Goto, Abort, kernel, statics, smm, client
<1>1. CASE insmod
  BY <1>1 DEF insmod
<1>2. CASE init_pci
  BY <1>2 DEF init_pci
<1>3. CASE init_platform
  BY <1>3 DEF init_platform
<1>4. CASE init_info
  BY <1>4 DEF init_info
<1>5. CASE init_page
  BY <1>5 DEF init_page
<1>6. CASE init_uio
  BY <1>6 DEF init_uio
<1>7. CASE init_taint
  BY <1>7 DEF init_taint, taint
<1>8. CASE exit_pci
  BY <1>8 DEF exit_pci, pci_unregister_driver
<1>9. CASE exit_uio
  BY <1>9 DEF exit_uio
<1>10. CASE exit_free
  BY <1>10 DEF exit_free
<1>11. CASE exit_platform
  BY <1>11 DEF exit_platform
<1>12. CASE sweep
  BY <1>12 DEF sweep
<1>13. CASE irq_handler
  BY <1>13 DEF irq_handler
<1>14. CASE uio_irq_handler
  BY <1>14 DEF uio_irq_handler
<1>15. CASE OpenDevice
  BY <1>15 DEF OpenDevice
<1>16. CASE CloseDevice
  BY <1>16 DEF CloseDevice
<1>17. CASE init_ring_buffer
  BY <1>17 DEF init_ring_buffer
<1>18. CASE UNCHANGED vars
  BY <1>18 DEF vars
<1> QED BY <1>1, <1>2, <1>3, <1>4, <1>5, <1>6, <1>7, <1>8, <1>9, <1>10, <1>11, <1>12, <1>13,
           <1>14, <1>15, <1>16, <1>17, <1>18 DEF Next, aurora_init, aurora_exit

\* The registrations and flags, and the values of the other variables.
FlagsOK ==
  /\ pci \in BOOLEAN /\ irq_on \in BOOLEAN /\ platform \in BOOLEAN /\ uio \in BOOLEAN
  /\ pdev \in BOOLEAN /\ svm_ram \in BOOLEAN /\ inited \in BOOLEAN
  /\ attached \in BOOLEAN /\ event \in BOOLEAN /\ failed \in BOOLEAN /\ fault \in BOOLEAN
ValuesOK ==
  /\ phase \in Loading \cup Unloading \cup {"out", "loaded"}
  /\ info \in {"null", "live", "freed"}
  /\ svm_vmem \in Page \cup {None} /\ low \in Page \cup {None} /\ shmem_base \in Page \cup {None}
  /\ loads \in 0 .. MaxLoads

\* Every call keeps the flags Boolean...
LEMMA FlagsStep == FlagsOK /\ [Next]_vars => FlagsOK'
<1> SUFFICES ASSUME FlagsOK, [Next]_vars PROVE FlagsOK'
  OBVIOUS
<1> USE DEF FlagsOK, Abort, kernel, statics, smm, client
<1>1. CASE insmod
  BY <1>1, Zenon DEF insmod
<1>2. CASE init_pci
  BY <1>2, Zenon DEF init_pci
<1>3. CASE init_platform
  BY <1>3, Zenon DEF init_platform
<1>4. CASE init_info
  BY <1>4, Zenon DEF init_info
<1>5. CASE init_page
  BY <1>5, Zenon DEF init_page
<1>6. CASE init_uio
  BY <1>6, Zenon DEF init_uio
<1>7. CASE init_taint
  BY <1>7, Zenon DEF init_taint, taint
<1>8. CASE exit_pci
  BY <1>8, Zenon DEF exit_pci, pci_unregister_driver
<1>9. CASE exit_uio
  BY <1>9, Zenon DEF exit_uio
<1>10. CASE exit_free
  BY <1>10, Zenon DEF exit_free
<1>11. CASE exit_platform
  BY <1>11, Zenon DEF exit_platform
<1>12. CASE sweep
  BY <1>12, Zenon DEF sweep
<1>13. CASE irq_handler
  BY <1>13, Zenon DEF irq_handler
<1>14. CASE uio_irq_handler
  BY <1>14, Zenon DEF uio_irq_handler
<1>15. CASE OpenDevice
  BY <1>15, Zenon DEF OpenDevice
<1>16. CASE CloseDevice
  BY <1>16, Zenon DEF CloseDevice
<1>17. CASE init_ring_buffer
  BY <1>17, Zenon DEF init_ring_buffer
<1>18. CASE UNCHANGED vars
  BY <1>18, Zenon DEF vars
<1> QED BY <1>1, <1>2, <1>3, <1>4, <1>5, <1>6, <1>7, <1>8, <1>9, <1>10, <1>11, <1>12, <1>13,
           <1>14, <1>15, <1>16, <1>17, <1>18 DEF Next, aurora_init, aurora_exit

\* ... and the phases, pointers and counters in their sets.
LEMMA ValuesStep == ValuesOK /\ [Next]_vars => ValuesOK'
<1> SUFFICES ASSUME ValuesOK, [Next]_vars PROVE ValuesOK'
  OBVIOUS
<1> USE BoundsAssumption DEF ValuesOK, Loading, Unloading, Goto, Abort, kernel, statics, smm, client
<1>1. CASE insmod
  BY <1>1 DEF insmod
<1>2. CASE init_pci
  BY <1>2 DEF init_pci
<1>3. CASE init_platform
  BY <1>3 DEF init_platform
<1>4. CASE init_info
  BY <1>4 DEF init_info
<1>5. CASE init_page
  BY <1>5 DEF init_page
<1>6. CASE init_uio
  BY <1>6 DEF init_uio
<1>7. CASE init_taint
  BY <1>7 DEF init_taint, taint
<1>8. CASE exit_pci
  BY <1>8 DEF exit_pci, pci_unregister_driver
<1>9. CASE exit_uio
  BY <1>9 DEF exit_uio
<1>10. CASE exit_free
  BY <1>10 DEF exit_free
<1>11. CASE exit_platform
  BY <1>11 DEF exit_platform
<1>12. CASE sweep
  BY <1>12 DEF sweep
<1>13. CASE irq_handler
  BY <1>13 DEF irq_handler
<1>14. CASE uio_irq_handler
  BY <1>14 DEF uio_irq_handler
<1>15. CASE OpenDevice
  BY <1>15 DEF OpenDevice
<1>16. CASE CloseDevice
  BY <1>16 DEF CloseDevice
<1>17. CASE init_ring_buffer
  BY <1>17 DEF init_ring_buffer
<1>18. CASE UNCHANGED vars
  BY <1>18 DEF vars
<1> QED BY <1>1, <1>2, <1>3, <1>4, <1>5, <1>6, <1>7, <1>8, <1>9, <1>10, <1>11, <1>12, <1>13,
           <1>14, <1>15, <1>16, <1>17, <1>18 DEF Next, aurora_init, aurora_exit

\* The registrations, the statics of the module and the address in low memory keep their
\* types through every order of loads, failures, interrupts and unloads.
THEOREM TypeCorrect == Spec => []TypeOK
<1>1. Init => FlagsOK
  BY Zenon DEF Init, FlagsOK
<1>2. Init => ValuesOK
  BY BoundsAssumption DEF Init, ValuesOK, Loading, Unloading
<1>3. FlagsOK /\ ValuesOK => TypeOK
  BY Zenon DEF FlagsOK, ValuesOK, TypeOK
<1> QED BY <1>1, <1>2, <1>3, FlagsStep, ValuesStep, PTL DEF Spec

\* No interrupt crashes the kernel after insmod has returned without a failure,
\* through rmmod and any number of further loads.
THEOREM RelaySafe == Spec => []SafeOnceLoaded
<1>1. LifeInv => SafeOnceLoaded
  BY DEF LifeInv
<1> QED BY <1>1, LifeInit, LifeStep, PTL DEF Spec

\* The first SMI finds the page of the loaded driver in low memory, unless it comes
\* from a client that opened the device before taint.
THEOREM FirstSmiTheorem == Spec => FirstSmiFindsPage
<1>1. LifeInv /\ [Next]_vars
        => [init_ring_buffer => phase = "init_taint" \/ (shmem_base' = svm_vmem /\ info = "live")]_vars
  BY DEF LifeInv, init_ring_buffer
<1> QED BY <1>1, LifeInit, LifeStep, PTL DEF Spec, FirstSmiFindsPage
=============================================================================
