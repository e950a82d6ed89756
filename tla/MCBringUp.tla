------------------------------- MODULE MCBringUp -------------------------------
EXTENDS BringUp

\* Pages of 4 bytes.  As in kernel.elf the second segment begins in the page
\* behind the first, neither ends with a page, and the second is longer in
\* memory than in the file.
KernelSegments == << [paddr |-> 0, memsz |-> 5, filesz |-> 5],
                     [paddr |-> 8, memsz |-> 7, filesz |-> 3] >>

\* The firmware is out of the way, or in the last page of the kernel.
FirmwareIn == {{5}, {3}}

At4(b, n, d, f) == [base |-> b, bus |-> n, device |-> d, function |-> f]
Function(b, n, d, f, c) == [at |-> At4(b, n, d, f), Class |-> c, aliased |-> FALSE]

\* A host bridge with a function of another class and controllers, one behind a
\* gap in devices and functions; buses without device 0, the last of the range.
Usual == { Function("A", 0, 0, 0, "other"), Function("A", 0, 2, 0, "other"),
           Function("A", 0, 2, 1, "AHCI"),  Function("A", 1, 0, 0, "AHCI"),
           Function("A", 1, 1, 1, "AHCI"),  Function("A", 2, 1, 0, "AHCI"),
           Function("A", 3, 0, 0, "AHCI"),  Function("B", 0, 0, 1, "other"),
           Function("B", 0, 1, 0, "AHCI") }

\* A controller that does not decode its function, and a class without a name.
Odd == { Function("A", 0, 0, 0, "other"), Function("A", 0, 2, 0, "beyond"),
         [at |-> At4("A", 0, 1, 0), Class |-> "AHCI", aliased |-> TRUE] }

OneRange  == << [BaseAddress |-> "A", StartBus |-> 0, EndBus |-> 3] >>
TwoRanges == << [BaseAddress |-> "A", StartBus |-> 0, EndBus |-> 2],
                [BaseAddress |-> "B", StartBus |-> 0, EndBus |-> 1] >>

PlatformsThere ==
  { [xsdt |-> << "FACP" >>,         mcfg |-> << >>,     machine |-> {}],
    [xsdt |-> << "FACP", "MCFG" >>, mcfg |-> OneRange,  machine |-> Usual],
    [xsdt |-> << "MCFG", "FACP" >>, mcfg |-> TwoRanges, machine |-> Usual],
    [xsdt |-> << "FACP", "MCFG" >>, mcfg |-> OneRange,  machine |-> Odd] }

TablesFound == { << "ACPI1", "ACPI2" >>, << "other", "ACPI2", "R" >> }
TablesMoved == { << "ACPI1", "ACPI2" >>, << "ACPI2", "ACPI1" >> }
=============================================================================
