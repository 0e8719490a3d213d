---------------------------- MODULE MatrixDirect ----------------------------
(***************************************************************************)
(* The direct hardware ioctls of src/socwatchdk/src/src/pw_matrix.c, which *)
(* need no session: IOCTL_MSR (IOCTL_mtx_msr), IOCTL_SRAM (IOCTL_sram),    *)
(* IOCTL_GMCH / IOCTL_GMCH_RESET (IOCTL_gmch), IOCTL_READ_CONFIG_DB,       *)
(* IOCTL_WRITE_CONFIG_DB, IOCTL_READ_PCI_CONFIG, IOCTL_OPERATE_ON_MSR and *)
(* IOCTL_VERSION_INFO, as issued by one caller.                            *)
(*                                                                         *)
(* IOCTL_mtx_msr and IOCTL_sram hold a buffer and a mapping across several *)
(* calls that can fail, so they run as steps between the labels of their  *)
(* control flow (pc); the other handlers hold nothing and are one step.   *)
(* Inputs (a NULL user pointer, sizes, the operation) and the outcome of  *)
(* every call that can fail (copy_from_user, copy_to_user, vmalloc,       *)
(* ioremap_nocache, the MSR accesses) are chosen by \E.                    *)
(*                                                                         *)
(* State: the handler's buffer and data mapping (buf, dataMap), the       *)
(* pci_dev references taken by pci_get_bus_and_slot and not put           *)
(* (devRefs), what the MSR written by ENABLE_OP points to (msrPtr), the   *)
(* return value.                                                           *)
(***************************************************************************)
EXTENDS Naturals

CONSTANTS DoAndroid,   \* the DO_ANDROID build switch of matrix.h
          HostBridge,  \* pci_get_bus_and_slot(0, PCI_DEVFN(0, 0)) != NULL
          MaxDevRefs   \* handlers that touch PCI run while fewer leaked (a Nat)

Labels == {"idle", "msr_alloc", "msr_op", "msr_free", "sram_alloc",
           "sram_copy", "sram_error"}
MsrOps == {"WRITE_OP", "READ_OP", "ENABLE_OP", "other"}
HwPtr == {"none", "buffer", "freed", "zero"}
Returns == {"none", "OK", "EFAULT", "ENOMEM", "EINVAL", "PCIERR"}

VARIABLES pc, buf, dataMap, devRefs, msrPtr, ret

vars == <<pc, buf, dataMap, devRefs, msrPtr, ret>>

Init ==
  /\ pc = "idle" /\ buf = FALSE /\ dataMap = FALSE /\ devRefs = 0
  /\ msrPtr = "none" /\ ret = "none"

(***************************************************************************)
(* mt_platform_pci_read32 / mt_platform_pci_write32: each access looks up *)
(* the host bridge with pci_get_bus_and_slot, which takes a reference,    *)
(* and returns without pci_dev_put. n is the number of accesses.          *)
(***************************************************************************)
PlatformPci(n) == devRefs' = devRefs + (IF HostBridge THEN n ELSE 0)

PciBound == devRefs < MaxDevRefs

(* A handler returns r to matrix_ioctl.                                   *)
Return(r) == pc' = "idle" /\ ret' = r

(***************************************************************************)
(* IOCTL_mtx_msr, entry: a NULL pointer or a failed copy of the container *)
(* returns EFAULT; a nonzero length goes on to allocate, length 0 straight *)
(* to the operation with buffer == NULL.                                   *)
(***************************************************************************)
MsrStart ==
  /\ pc = "idle"
  /\ \E ok \in BOOLEAN, len \in 0 .. 1 :
       IF ~ok THEN Return("EFAULT")
       ELSE pc' = (IF len > 0 THEN "msr_alloc" ELSE "msr_op") /\ UNCHANGED ret
  /\ UNCHANGED <<buf, dataMap, devRefs, msrPtr>>

(* MATRIX_VMALLOC of length words, then copy_from_user into it; a failure *)
(* of either goes to ERROR.                                                *)
MsrAlloc ==
  /\ pc = "msr_alloc"
  /\ \/ buf' = TRUE /\ pc' = "msr_op" /\ UNCHANGED ret
     \/ buf' = TRUE /\ pc' = "msr_free" /\ ret' = "EFAULT"   \* copy fails
     \/ UNCHANGED buf /\ pc' = "msr_free" /\ ret' = "EFAULT" \* vmalloc fails
  /\ UNCHANGED <<dataMap, devRefs, msrPtr>>

(***************************************************************************)
(* The switch on msrType1.operation. ENABLE_OP writes &buffer[0] into the *)
(* MSR (0 when no buffer was allocated) and goes on to vfree and return 0. *)
(* WRITE_OP / READ_OP fail on an MSR error or a failed copy back; any     *)
(* other operation fails. Every path continues at the vfree.              *)
(***************************************************************************)
MsrOp ==
  /\ pc = "msr_op"
  /\ \E op \in MsrOps, accessOk, gotBack \in BOOLEAN :
       IF op = "ENABLE_OP"
         THEN msrPtr' = (IF buf THEN "buffer" ELSE "zero") /\ ret' = "OK"
         ELSE /\ ret' = IF op # "other" /\ accessOk /\ gotBack THEN "OK" ELSE "EFAULT"
              /\ UNCHANGED msrPtr
  /\ pc' = "msr_free"
  /\ UNCHANGED <<buf, dataMap, devRefs>>

(* vfree(buffer) on the success, ENABLE_OP and ERROR paths alike.         *)
MsrFree ==
  /\ pc = "msr_free"
  /\ buf' = FALSE
  /\ msrPtr' = IF buf /\ msrPtr = "buffer" THEN "freed" ELSE msrPtr
  /\ pc' = "idle"
  /\ UNCHANGED <<dataMap, devRefs, ret>>

(***************************************************************************)
(* IOCTL_sram, entry. Without DO_ANDROID it returns 0. A NULL pointer, a  *)
(* failed copy or a zero ctrl_addr return EFAULT; a failed one-word       *)
(* ioremap of ctrl_addr returns ENOMEM; otherwise ctrl_data is written    *)
(* and that mapping is unmapped at once.                                   *)
(***************************************************************************)
SramStart ==
  /\ pc = "idle"
  /\ IF ~DoAndroid THEN Return("OK")
     ELSE \E ok, ctrlMapOk \in BOOLEAN :
            IF ~ok THEN Return("EFAULT")
            ELSE IF ~ctrlMapOk THEN Return("ENOMEM")
            ELSE pc' = "sram_alloc" /\ UNCHANGED ret
  /\ UNCHANGED <<buf, dataMap, devRefs, msrPtr>>

(* MATRIX_VMALLOC(buffer, data_size) (no allocation for size 0), then    *)
(* ioremap_nocache of the data; a failure of either goes to ERROR.        *)
SramAlloc ==
  /\ pc = "sram_alloc"
  /\ \E size \in 0 .. 1, allocOk, mapOk \in BOOLEAN :
       IF size > 0 /\ ~allocOk
         THEN pc' = "sram_error" /\ UNCHANGED <<buf, dataMap>>
         ELSE /\ buf' = (size > 0)
              /\ dataMap' = mapOk
              /\ pc' = IF mapOk THEN "sram_copy" ELSE "sram_error"
  /\ UNCHANGED <<devRefs, msrPtr, ret>>

(* memcpy from the mapping, copy_to_user; the mapping is unmapped on both *)
(* outcomes, and success vfrees and returns 0.                             *)
SramCopy ==
  /\ pc = "sram_copy"
  /\ dataMap' = FALSE
  /\ \/ buf' = FALSE /\ Return("OK")
     \/ pc' = "sram_error" /\ UNCHANGED <<buf, ret>>
  /\ UNCHANGED <<devRefs, msrPtr>>

(* ERROR: vfree(buffer); return -EFAULT.                                   *)
SramError ==
  /\ pc = "sram_error"
  /\ buf' = FALSE
  /\ Return("EFAULT")
  /\ UNCHANGED <<dataMap, devRefs, msrPtr>>

(***************************************************************************)
(* mt_read_config: copy the address in, read it through                   *)
(* mt_platform_pci_read32, copy the value back. mt_write_config: copy the *)
(* port and data in, one mt_platform_pci_write32. Both are empty without  *)
(* DO_ANDROID.                                                             *)
(***************************************************************************)
ConfigDb ==
  /\ pc = "idle" /\ PciBound
  /\ IF ~DoAndroid THEN Return("OK") /\ UNCHANGED devRefs
     ELSE \E gotIn, gotBack \in BOOLEAN, write \in BOOLEAN :
             IF ~gotIn THEN Return("EFAULT") /\ UNCHANGED devRefs
             ELSE /\ PlatformPci(1)
                  /\ Return(IF write \/ gotBack THEN "OK" ELSE "EFAULT")
  /\ UNCHANGED <<buf, dataMap, msrPtr>>

(***************************************************************************)
(* mt_read_pci_config: pci_get_bus_and_slot(bus, devfn) takes a reference *)
(* on the device it finds (EINVAL when none), pci_read_config_dword's     *)
(* status is returned, a failed copy back returns EFAULT. The reference  *)
(* is never put.                                                           *)
(***************************************************************************)
ReadPciConfig ==
  /\ pc = "idle" /\ PciBound
  /\ IF ~DoAndroid THEN Return("OK") /\ UNCHANGED devRefs
     ELSE \E gotIn, found, readOk, gotBack \in BOOLEAN :
             IF ~gotIn THEN Return("EFAULT") /\ UNCHANGED devRefs
             ELSE IF ~found THEN Return("EINVAL") /\ UNCHANGED devRefs
             ELSE /\ devRefs' = devRefs + 1
                  /\ Return(IF ~gotBack THEN "EFAULT"
                            ELSE IF readOk THEN "OK" ELSE "PCIERR")
  /\ UNCHANGED <<buf, dataMap, msrPtr>>

(***************************************************************************)
(* IOCTL_gmch: NULL pointer or failed copy return EFAULT; the nine        *)
(* counter reads of mt_read_gmch_gen_pur_regs; for IOCTL_GMCH_RESET,      *)
(* mt_reset_gmch_gen_pur_regs (nothing when one of its arrays is NULL,    *)
(* else the disable write, ten register writes, one write per nonzero    *)
(* mcr entry, the enable write); then the copy back.                      *)
(***************************************************************************)
Gmch ==
  /\ pc = "idle" /\ PciBound
  /\ IF ~DoAndroid THEN Return("OK") /\ UNCHANGED devRefs
     ELSE \E ok, reset, arraysNull, gotBack \in BOOLEAN, mcrs \in 0 .. 12 :
             IF ~ok THEN Return("EFAULT") /\ UNCHANGED devRefs
             ELSE /\ PlatformPci(9 + (IF reset /\ ~arraysNull THEN 12 + mcrs ELSE 0))
                  /\ Return(IF gotBack THEN "OK" ELSE "EFAULT")
  /\ UNCHANGED <<buf, dataMap, msrPtr>>

(***************************************************************************)
(* mt_operate_on_msr (rdmsr / wrmsr on the calling CPU, EFAULT for any    *)
(* other operation or a failed copy) and IOCTL_VERSION_INFO (copy the    *)
(* version string out): neither holds anything.                           *)
(***************************************************************************)
OperateOnMsr ==
  /\ pc = "idle"
  /\ \E gotIn, knownOp, gotBack \in BOOLEAN :
       Return(IF gotIn /\ knownOp /\ gotBack THEN "OK" ELSE "EFAULT")
  /\ UNCHANGED <<buf, dataMap, devRefs, msrPtr>>

VersionInfo ==
  /\ pc = "idle"
  /\ \E gotBack \in BOOLEAN : Return(IF gotBack THEN "OK" ELSE "EFAULT")
  /\ UNCHANGED <<buf, dataMap, devRefs, msrPtr>>

Next ==
  \/ MsrStart \/ MsrAlloc \/ MsrOp \/ MsrFree
  \/ SramStart \/ SramAlloc \/ SramCopy \/ SramError
  \/ ConfigDb \/ ReadPciConfig \/ Gmch \/ OperateOnMsr \/ VersionInfo

Spec == Init /\ [][Next]_vars

-----------------------------------------------------------------------------
(* Every variable has its type.                                            *)
TypeOK ==
  /\ pc \in Labels
  /\ buf \in BOOLEAN /\ dataMap \in BOOLEAN
  /\ devRefs \in Nat
  /\ msrPtr \in HwPtr
  /\ ret \in Returns

(***************************************************************************)
(* The driver holds no pci_dev reference between calls: every             *)
(* pci_get_bus_and_slot of mt_platform_pci_read32/_write32 and of         *)
(* mt_read_pci_config is matched by a pci_dev_put.                        *)
(***************************************************************************)
NoPciDevRefLeak == pc = "idle" => devRefs = 0

(***************************************************************************)
(* The address that ENABLE_OP hands to the hardware through wrmsrl is the *)
(* address of memory the driver still owns.                                *)
(***************************************************************************)
NoHwDanglingPointer == msrPtr \in {"none", "buffer"}
=============================================================================
