-------------------------------- MODULE BringUp --------------------------------
(***************************************************************************)
(* From the firmware to the devices: the boot loader, and what the kernel  *)
(* does with the root pointer it hands over.  What the kernel does in      *)
(* between, with the memory map, is KernelMemory.                          *)
(***************************************************************************)
EXTENDS BootLoader, PCI

vars == <<loaderVars, pciVars>>

Init == LoaderInit /\ PCIInit

Next == \/ LoaderNext /\ UNCHANGED pciVars
        \/ Started /\ PrepareACPI(bootinfo.rsdp) /\ UNCHANGED loaderVars
        \/ PCINext /\ UNCHANGED loaderVars

Spec == Init /\ [][Next]_vars

-----------------------------------------------------------------------------
\* The kernel gets a map in which no page of it, of the font, or of the map
\* itself is free, and the firmware is gone: unless outdated names a reason why
\* not.  There are three, of which the code looks at none: the firmware
\* allocated once Map was read, the loader's own AllocatePool for Map
\* (main.c:220) failed, or it made the map too long for it (main.c:219-221).
HandedOverMapIsCurrent ==
  Started /\ ~outdated =>
    /\ exited
    /\ \A p \in MapPages : owner[p] # "conventional" => map[p] = owner[p]

\* If no call failed, the memory every segment needs is the kernel's, and what
\* the file holds of it is there (main.c:175-193).
ImageIsWhole ==
  Started /\ ~failed =>
    \A n \in DOMAIN Segments :
      /\ \A p \in PagesOf(n, Segments[n].memsz) : owner[p] = "kernel"
      /\ \A p \in PagesOf(n, Segments[n].filesz) : image[p] = n

\* The functions pci.c can find: not on the last bus of a range, on a bus with
\* a device 0, in a device with a function 0 (pci.c:46-48, 62-64 and 76).
Visited ==
  {x \in machine :
     \E n \in DOMAIN mcfg :
       LET There(d) == \E y \in machine : /\ y.at.base = x.at.base /\ y.at.bus = x.at.bus
                                          /\ y.at.device = d
                                          /\ y.at.function = 0 \/ y.aliased
       IN  Covers(mcfg[n], x.at.base, x.at.bus) /\ There(0) /\ There(x.at.device)}

\* Once PCI is enumerated every AHCI controller that can be found has one driver
\* and nothing else has any.  A controller that answers at every function of its
\* device has one for each (pci.c:51-53 do not look at HeaderType).
EveryControllerHasADriver ==
  reading = "done" =>
    \A x \in machine :
      drivers[x] = IF x.Class = "AHCI" /\ x \in Visited
                   THEN IF x.aliased THEN Functions ELSE 1
                   ELSE 0

-----------------------------------------------------------------------------
\* What Acpi2TableGuid in main.c:226 is for: of the tables the firmware
\* publishes, the kernel gets the root pointer of ACPI 2.0.
RootPointerIsOfACPI2 ==
  Started /\ "ACPI2" \in {tables[n] : n \in DOMAIN tables} => bootinfo.rsdp = "ACPI2"
=============================================================================
