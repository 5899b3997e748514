----------------------------- MODULE KernelMain -----------------------------
(***************************************************************************)
(* kernel_main() (kernel.c) from init_heap() to its endless loop: the self *)
(* test of the heap, on page tables and frames, then the ids of a device   *)
(* on the PCI bus, which iprint() (mem.c) prints in decimal.               *)
(***************************************************************************)
EXTENDS MappedHeap, SequencesExt

CONSTANTS
  Machines,    (* what may be on the bus: registers by bus, device, function *)
  Wanted       (* the <<bus, slot, func>> to read; kernel_main() has <<0, 0, 0>> *)

VARIABLES
  machine,     (* the devices of this machine                              *)
  wanted,      (* the one that is read                                     *)
  data,        (* struct pci_device_base, or nothing                       *)
  printed      (* the numbers printed, as sequences of digits              *)

pciVars  == <<machine, wanted, data, printed>>
mainVars == <<heap, owned, wild, step, block, vm, machine, wanted, data, printed>>

Bus == INSTANCE Pci

(* Bus numbers have 8 bits, slots 5, functions 3; a device that is there   *)
(* has registers of 32 bits, and not 0xFFFFFFFF for its ids.               *)
ASSUME MachinesAssumption ==
  /\ Wanted \subseteq (0 .. 255) \X (0 .. 31) \X (0 .. 7)
  /\ \A devices \in Machines : \A where \in DOMAIN devices :
       /\ {0, 8, 12} \subseteq DOMAIN devices[where]
       /\ \A reg \in {0, 8, 12} : devices[where][reg] \subseteq Bus!AllOnes
       /\ devices[where][0] # Bus!AllOnes

Nothing == << >>

MainInit ==
  /\ MappedInit
  /\ machine = Nothing /\ wanted = Nothing /\ data = Nothing /\ printed = << >>

(* iprint(): the digits it prints.                                         *)
Iprint(n) ==
  LET digits[m \in Nat] == IF m > 9 THEN Append(digits[m \div 10], m % 10) ELSE <<m>>
  IN  digits[n]

(* Lines 98-107.                                                           *)
ReadPci ==
  /\ step = LastCall + 1
  /\ machine' \in Machines
  /\ wanted' \in Wanted
  /\ IF Bus!Exists(machine', wanted')
     THEN /\ data' = Bus!DeviceBase(machine', wanted')
          /\ printed' = <<Iprint(Bus!NumberOf(data'.vendor_id)),
                          Iprint(Bus!NumberOf(data'.device_id))>>
     ELSE UNCHANGED <<data, printed>>
  /\ step' = step + 1
  /\ UNCHANGED <<heap, owned, wild, block, vm>>

(* while(1)                                                                *)
Loop == step > LastCall + 1 /\ UNCHANGED mainVars

MainNext ==
  \/ MappedStep /\ UNCHANGED pciVars
  \/ ReadPci
  \/ Loop

(* TLC's deadlock check shows that the test gets to its end: `step' grows  *)
(* with every call, and before the end no call is left without a next one. *)
MainSpec == MainInit /\ [][MainNext]_mainVars

-----------------------------------------------------------------------------
IsDecimalOf(digits, n) ==
  /\ \A i \in DOMAIN digits : digits[i] \in 0 .. 9
  /\ Len(digits) > 1 => digits[1] # 0
  /\ FoldLeft(LAMBDA value, digit : 10 * value + digit, 0, digits) = n

(* What kernel_main() prints are the vendor and the device id, in decimal, *)
(* of the device with the bus address that was asked for, whatever else is *)
(* on the bus, and the other fields are that device's as well; nothing is  *)
(* printed without such a device.  The registers of status and command are *)
(* another matter: see StatusAndCommand.                                   *)
PrintsTheDevice ==
  step > LastCall + 1 =>
    IF wanted \notin DOMAIN machine THEN printed = << >> /\ data = Nothing
    ELSE LET registers == machine[wanted]
         IN  /\ Len(printed) = 2
             /\ IsDecimalOf(printed[1], Bus!NumberOf(Bus!Field(registers[0], 0, 15)))
             /\ IsDecimalOf(printed[2], Bus!NumberOf(Bus!Field(registers[0], 16, 31)))
             /\ data.class = Bus!Field(registers[8], 24, 31)
             /\ data.header_type = Bus!Field(registers[12], 16, 23)
=============================================================================
