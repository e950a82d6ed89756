---------------------------------- MODULE PCI ----------------------------------
(***************************************************************************)
(* PrepareACPI (kernel.c), FindTableACPI (acpi.c) and the enumeration of   *)
(* pci.c: from the root pointer the loader found to a driver for every     *)
(* AHCI controller.                                                        *)
(*                                                                         *)
(* A function is at [base, bus, device, function].  One header is one      *)
(* step: its page is mapped, read, and decides where the loops go on.      *)
(* Names are only printed.                                                 *)
(***************************************************************************)
EXTENDS Integers, Sequences, FiniteSets, SequencesExt

CONSTANTS
  Platforms, \* what the firmware describes and what there is: the signatures the XSDT
             \* lists, the MCFG's sequence of [BaseAddress, StartBus, EndBus], and
             \* a set of functions [at, Class, aliased]
  Devices,   \* 32
  Functions  \* 8

\* "AHCI" is class 1, subclass 6, interface 1; "beyond" is a class from 20 on.
Classes == {"AHCI", "other", "beyond"}

\* The entry of the MCFG covers the bus, for pci.c.
Covers(entry, base, b) ==
  base = entry.BaseAddress /\ b \in entry.StartBus .. entry.EndBus - 1

\* The firmware describes no bus twice.  The number of a device has 5 bits and
\* that of a function 3.
ASSUME PCIAssumption ==
  /\ Devices \in Nat \ {0} /\ Functions \in Nat \ {0}
  /\ \A p \in Platforms :
       /\ Len(p.mcfg) \in Nat /\ DOMAIN p.mcfg = 1 .. Len(p.mcfg)
       /\ \A n \in DOMAIN p.mcfg : {p.mcfg[n].StartBus, p.mcfg[n].EndBus} \subseteq Nat
       /\ \A x \in p.machine :
            /\ x.Class \in Classes /\ x.aliased \in BOOLEAN
            /\ x.at.bus \in Nat
            /\ x.at.device \in 0 .. Devices - 1 /\ x.at.function \in 0 .. Functions - 1
            /\ \A n, m \in DOMAIN p.mcfg :
                 /\ Covers(p.mcfg[n], x.at.base, x.at.bus)
                 /\ Covers(p.mcfg[m], x.at.base, x.at.bus)
                 => n = m

VARIABLES
  xsdt, mcfg,  \* tables of the firmware
  machine,     \* the functions there are
  reading,     \* which function of pci.c runs, or "idle" before, "done" and "wild" after
  t, bus, device, function,  \* the loops
  drivers      \* how often AHCIDriverConstructor was called for each function

loops   == <<t, bus, device, function>>
pciVars == <<xsdt, mcfg, machine, reading, loops, drivers>>

-----------------------------------------------------------------------------
(* Mutants: what the definitions of the same names, less the part behind   *)
(* the underscore, would be with a bug in the kernel.                      *)

\* A device without function 0 ends the bus, as a bus without device 0 does.
NextDevice_EndsBus == IF reading = "EnumerateDevice"
                      THEN reading' = "EnumerateBus" /\ bus' = bus + 1 /\ UNCHANGED device
                      ELSE reading' = "EnumerateDevice" /\ device' = device + 1 /\ UNCHANGED bus

-----------------------------------------------------------------------------
\* The first table with the signature, or 0 for NULL.
FindTableACPI(signature) ==
  IF \E i \in DOMAIN xsdt : xsdt[i] = signature THEN SelectInSeq(xsdt, LAMBDA s : s = signature)
                                                ELSE 0

\* The functions that answer at a configuration page: a device with one
\* function need not look at the number of the function.
Answering(b, d, f) ==
  {x \in machine : /\ x.at.base = mcfg[t].BaseAddress /\ x.at.bus = b /\ x.at.device = d
                   /\ x.at.function = f \/ x.aliased}

\* DeviceID is neither 0 nor 0xffff.
Present(b, d, f) == Answering(b, d, f) # {}

\* The three loops, each when its body has ended.
NextBus == reading' = "EnumerateBus" /\ bus' = bus + 1 /\ UNCHANGED device

NextDevice == reading' = "EnumerateDevice" /\ device' = device + 1 /\ UNCHANGED bus

NextFunction == function' = function + 1 /\ UNCHANGED reading

-----------------------------------------------------------------------------
\* With a root pointer that is not version 2, XSDTAddress is what lies behind
\* it, or in page 0; without an MCFG its length is read from page 0.
PrepareACPI(rsdp) ==
  /\ reading = "idle"
  /\ IF rsdp = "ACPI2" /\ FindTableACPI("MCFG") # 0
     THEN reading' = "EnumeratePCI"
     ELSE reading' = "wild"
  /\ UNCHANGED <<xsdt, mcfg, machine, loops, drivers>>

\* The next entry of the table.
EnumeratePCI ==
  /\ reading = "EnumeratePCI"
  /\ t' = t + 1
  /\ IF t' \in DOMAIN mcfg
     THEN reading' = "EnumerateBus" /\ bus' = mcfg[t'].StartBus
     ELSE reading' = "done" /\ UNCHANGED bus
  /\ UNCHANGED <<xsdt, mcfg, machine, device, function, drivers>>

EnumerateBus ==
  /\ reading = "EnumerateBus"
  /\ IF bus < mcfg[t].EndBus
     THEN IF Present(bus, 0, 0)
          THEN reading' = "EnumerateDevice" /\ device' = 0 /\ UNCHANGED bus
          ELSE NextBus
     ELSE reading' = "EnumeratePCI" /\ UNCHANGED <<bus, device>>
  /\ UNCHANGED <<xsdt, mcfg, machine, t, function, drivers>>

EnumerateDevice ==
  /\ reading = "EnumerateDevice"
  /\ IF device < Devices
     THEN IF Present(bus, device, 0)
          THEN reading' = "EnumerateFunction" /\ function' = 0 /\ UNCHANGED <<bus, device>>
          ELSE NextDevice /\ UNCHANGED function
     ELSE NextBus /\ UNCHANGED function
  /\ UNCHANGED <<xsdt, mcfg, machine, t, drivers>>

\* DeviceClasses has 20 names; what is behind them is printed as if it were a
\* name, and may be no address.
EnumerateFunction ==
  /\ reading = "EnumerateFunction"
  /\ IF function < Functions
     THEN /\ \/ NextFunction
             \/ /\ \E x \in Answering(bus, device, function) : x.Class = "beyond"
                /\ reading' = "wild" /\ UNCHANGED function
          /\ drivers' = [x \in machine |->
                           IF x \in Answering(bus, device, function) /\ x.Class = "AHCI"
                           THEN drivers[x] + 1 ELSE drivers[x]]
          /\ UNCHANGED <<bus, device>>
     ELSE NextDevice /\ UNCHANGED <<function, drivers>>
  /\ UNCHANGED <<xsdt, mcfg, machine, t>>

-----------------------------------------------------------------------------
PCIInit == /\ \E p \in Platforms : xsdt = p.xsdt /\ mcfg = p.mcfg /\ machine = p.machine
           /\ reading = "idle"
           /\ t = 0 /\ bus = 0 /\ device = 0 /\ function = 0
           /\ drivers = [x \in machine |-> 0]

PCINext == EnumeratePCI \/ EnumerateBus \/ EnumerateDevice \/ EnumerateFunction
=============================================================================
