-------------------------------- MODULE Pci ---------------------------------
(***************************************************************************)
(* pci.c: the address pci_read_config() composes for the configuration     *)
(* space of the bus, and the fields pci_read_device_base() takes the words *)
(* apart into; and, external, how the host bridge reads an address.        *)
(***************************************************************************)
EXTENDS Words

DeviceAndVendor      == 0     \* PCI_DEVICE_AND_VENDOR
StatusAndCommand     == 0     \* PCI_STATUS_AND_COMMAND
ClassSubProgRevision == 8     \* PCI_CLASS_SUB_PROG_REVISION
BistHeadLatCache     == 12    \* PCI_BIST_HEAD_LAT_CACHE

Enable == {31}

(* Mutant: the device number is shifted into the function's bits.          *)
ConfigAddressSlotLow(bus, slot, func, reg) ==
  Enable \union ShiftedLeft(WordOf(bus), 16) \union ShiftedLeft(WordOf(slot), 10)
         \union ShiftedLeft(WordOf(func), 8) \union (WordOf(reg) \ {0, 1})

(* pci_read_config(): the address it writes to port PCI_CONFIG_ADDRESS.    *)
ConfigAddress(bus, slot, func, reg) ==
  Enable \union ShiftedLeft(WordOf(bus), 16) \union ShiftedLeft(WordOf(slot), 11)
         \union ShiftedLeft(WordOf(func), 8) \union (WordOf(reg) \ {0, 1})

(* What the host bridge answers at port PCI_CONFIG_DATA, given the devices *)
(* on the bus: their registers, by bus, device and function.               *)
Answer(devices, address) ==
  LET function == <<NumberOf(Field(address, 16, 23)), NumberOf(Field(address, 11, 15)),
                    NumberOf(Field(address, 8, 10))>>
  IN  IF 31 \in address /\ function \in DOMAIN devices
      THEN devices[function][NumberOf(Field(address, 0, 7))]
      ELSE AllOnes

ReadConfig(devices, where, reg) ==
  Answer(devices, ConfigAddress(where[1], where[2], where[3], reg))

(* struct pci_device_base of the device that answers, as                   *)
(* pci_read_device_base() fills it.                                        *)
DeviceBase(devices, where) ==
  LET ids     == ReadConfig(devices, where, DeviceAndVendor)
      status  == ReadConfig(devices, where, StatusAndCommand)
      classes == ReadConfig(devices, where, ClassSubProgRevision)
      bist    == ReadConfig(devices, where, BistHeadLatCache)
  IN  [vendor_id   |-> Field(ids, 0, 15),      device_id       |-> Field(ids, 16, 31),
       command     |-> Field(status, 0, 15),   status          |-> Field(status, 16, 31),
       revision_id |-> Field(classes, 0, 7),   prog_if         |-> Field(classes, 8, 15),
       subclass    |-> Field(classes, 16, 23), class           |-> Field(classes, 24, 31),
       header_type |-> Field(bist, 16, 23),    bist            |-> Field(bist, 24, 31),
       latency_timer |-> Field(bist, 8, 15),   cache_line_size |-> Field(bist, 0, 7)]

Exists(devices, where) == ReadConfig(devices, where, DeviceAndVendor) # AllOnes
=============================================================================
