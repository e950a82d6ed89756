------------------------------ MODULE BootLoader ------------------------------
(***************************************************************************)
(* The boot loader, gnu-efi/bootloader/main.c: the order of its calls to   *)
(* the firmware and what it hands over to the kernel when one of them      *)
(* fails, or when the firmware changes the memory map between two of them. *)
(*                                                                         *)
(* efi_main prints its failures and goes on.  Where it follows a pointer   *)
(* no call has set, or NULL, the model ends (lost): what happens then is   *)
(* up to what lies there.                                                  *)
(***************************************************************************)
EXTENDS Integers, FiniteSets, Sequences

CONSTANTS
  MemoryPages,   \* the pages are 0 .. MemoryPages - 1
  FirmwarePages, \* sets of pages that may be the firmware's at the start
  PageSize,      \* 0x1000
  Segments,      \* the PT_LOAD headers: sequence of [paddr, memsz, filesz]
  TableLists,    \* configuration tables there may be, in their order
  EventBound     \* allocations of the firmware's own while the loader runs

MapPages == 0 .. MemoryPages - 1

\* What a configuration table points to: a root pointer of either version, a
\* table of another kind that begins with the letter R, or another one.
Tables == {"ACPI1", "ACPI2", "R", "other"}

ASSUME BootLoaderAssumption ==
  /\ MemoryPages \in Nat \ {0} /\ PageSize \in Nat \ {0} /\ EventBound \in Nat
  /\ \A pages \in FirmwarePages : pages \subseteq MapPages
  /\ Len(Segments) \in Nat \ {0} /\ DOMAIN Segments = 1 .. Len(Segments)
  /\ \A n \in DOMAIN Segments :
       /\ Segments[n].paddr \in Nat /\ Segments[n].memsz \in Nat \ {0}
       /\ Segments[n].paddr % PageSize = 0
       /\ Segments[n].paddr \div PageSize \in MapPages
       /\ Segments[n].filesz \in 0 .. Segments[n].memsz
  /\ \A list \in TableLists : list \in Seq(Tables)

VARIABLES
  todo,        \* what efi_main has still to do
  lost,        \* it followed a pointer to nowhere
  owner,       \* whose each page is
  events,      \* allocations of the firmware's own so far
  tables,      \* SystemTable->ConfigurationTable
  file,        \* what was read of kernel.elf: parts of it
  phdr,        \* the segment the loop is at
  image,       \* for each page, the segment whose content was read into it
  mapSize,     \* MapSize, in descriptors
  map,         \* Map: owners of the pages, Garbage or NoMap for NULL
  mapKey,      \* MapKey
  bootinfo,    \* the rest of what the kernel gets
  exited,      \* ExitBootServices succeeded
  key,         \* the firmware's key of the current map
  failed,      \* history: a call failed
  outdated     \* history: Map was not read, or the firmware allocated after it was

loaderVars == <<todo, lost, owner, events, tables, file, phdr, image, mapSize,
                map, mapKey, bootinfo, exited, key, failed, outdated>>

NULL    == "NULL"
NoMap   == [p \in {} |-> NULL]
Garbage == [p \in MapPages |-> "garbage"]

-----------------------------------------------------------------------------
(* Mutants: what the definitions of the same names, less the part behind   *)
(* the underscore, would be with a bug in the loader.                      *)

\* The font is loaded once the map is read.
EfiMain_FontLast ==
  << "OpenKernel", "GetInfo", "ReadHeader", "ReadProgramHeaders",
     "LoadSegments", "InitializeGOP", "GetMapSize", "AllocateMap", "GetMap", "LoadFont",
     "FindRSDP", "ExitBootServices", "KernelStart" >>

\* The last page of a segment is forgotten if it is not full.
SegmentPages_Truncated(n) ==
  LET first == Segments[n].paddr \div PageSize
  IN  first .. first + Segments[n].memsz \div PageSize - 1

-----------------------------------------------------------------------------
EfiMain ==
  << "OpenKernel", "GetInfo", "ReadHeader", "ReadProgramHeaders",
     "LoadSegments", "LoadFont", "InitializeGOP", "GetMapSize", "AllocateMap", "GetMap",
     "FindRSDP", "ExitBootServices", "KernelStart" >>

At(step) == todo # <<>> /\ Head(todo) = step /\ ~lost
Return   == todo' = Tail(todo)

\* A call fails or succeeds; both are possible at each.
Fails    == failed' = TRUE
Succeeds == UNCHANGED failed

\* A descriptor of the map covers neighbours with one owner.
Descriptors(o) == Cardinality({p \in MapPages : p = 0 \/ o[p - 1] # o[p]})

\* n calls of AllocatePool take a page each, or find room in one the firmware
\* has for pools.
AllocatePools(who, n) ==
  \E taken \in SUBSET {p \in MapPages : owner[p] = "conventional"} :
    /\ Cardinality(taken) <= n
    /\ owner' = [p \in MapPages |-> IF p \in taken THEN who ELSE owner[p]]
    /\ key' = IF taken = {} THEN key ELSE key + 1

AllocatePool(who) == AllocatePools(who, 1)

\* The firmware allocates on its own, from a timer event for example.
FirmwareEvent ==
  /\ ~lost /\ todo # <<>> /\ ~exited /\ events < EventBound
  /\ events' = events + 1
  /\ AllocatePool("firmware") /\ key' # key
  /\ outdated' = (outdated \/ map # NoMap)
  /\ UNCHANGED <<todo, lost, tables, file, phdr, image, mapSize, map, mapKey, bootinfo,
                 exited, failed>>

-----------------------------------------------------------------------------
memory == <<owner, events, key>>
kernel == <<phdr, image>>
theMap == <<mapSize, map, mapKey, outdated>>

\* LoadFile: HandleProtocol and OpenVolume leave their pointers unset if they
\* fail, Open is tested; without a file efi_main prints and goes on.
LoadFile(found, notFound) ==
  \/ Succeeds /\ found /\ UNCHANGED lost
  \/ Fails /\ notFound /\ UNCHANGED lost
  \/ Fails /\ lost' = TRUE /\ notFound

OpenKernel ==
  /\ At("OpenKernel") /\ Return
  /\ LoadFile(file' = {"open"}, file' = {})
  /\ UNCHANGED <<memory, theMap, tables, kernel, bootinfo, exited>>

\* Kernel->GetInfo is called through Kernel, NULL or not.  Nothing uses what it
\* returns; the second call stores it over FileInfo and what lies behind, which
\* in the build is nothing that is used.
GetInfo ==
  /\ At("GetInfo") /\ Return
  /\ lost' = ("open" \notin file)
  /\ (Succeeds \/ Fails)
  /\ AllocatePool("loader")
  /\ UNCHANGED <<events, theMap, tables, file, kernel, bootinfo, exited>>

\* The test of the header prints and no more, so that "header" is what a good
\* header gives to the rest: the number of segments and the entry point.
ReadHeader ==
  /\ At("ReadHeader") /\ Return
  /\ \/ Succeeds /\ file' = file \cup {"header"}
     \/ Fails /\ UNCHANGED file
  /\ UNCHANGED <<memory, theMap, lost, tables, kernel, bootinfo, exited>>

\* With the header on the stack as it was, or no pool, the loop goes through
\* memory of any content.
ReadProgramHeaders ==
  /\ At("ReadProgramHeaders") /\ Return
  /\ \/ Succeeds /\ lost' = ("header" \notin file) /\ AllocatePool("loader")
     \/ Fails /\ lost' = TRUE /\ UNCHANGED <<owner, key>>
  /\ UNCHANGED <<events, theMap, tables, file, kernel, bootinfo, exited>>

\* pages = (p_memsz + 0x1000 - 1) / 0x1000
SegmentPages(n) ==
  LET first == Segments[n].paddr \div PageSize
  IN  first .. first + (Segments[n].memsz + PageSize - 1) \div PageSize - 1

\* The pages of a segment's first bytes.
PagesOf(n, bytes) ==
  {p \in MapPages : /\ Segments[n].paddr < (p + 1) * PageSize
                    /\ p * PageSize < Segments[n].paddr + bytes}

\* One round of the loop.  AllocatePages fails if somebody has
\* one of the pages; Read stores into them all the same, and the firmware or
\* the loader may not survive that.  What is behind p_filesz stays as it was.
LoadSegments ==
  /\ At("LoadSegments")
  /\ phdr' = phdr + 1
  /\ IF phdr < Len(Segments) THEN UNCHANGED todo ELSE Return
  /\ LET n     == phdr
         free  == \A p \in SegmentPages(n) : p \in MapPages /\ owner[p] = "conventional"
         pages == PagesOf(n, Segments[n].filesz)
     IN  /\ IF free THEN /\ owner' = [p \in MapPages |-> IF p \in SegmentPages(n)
                                                         THEN "kernel" ELSE owner[p]]
                         /\ key' = key + 1
                    ELSE UNCHANGED <<owner, key>>
         /\ \/ /\ image' = [p \in MapPages |-> IF p \in pages THEN n ELSE image[p]]
               /\ IF free THEN Succeeds ELSE Fails
               /\ lost' \in IF \E p \in pages : owner[p] \in {"firmware", "loader"}
                            THEN BOOLEAN ELSE {FALSE}
            \/ Fails /\ UNCHANGED <<image, lost>>
  /\ UNCHANGED <<events, theMap, tables, file, bootinfo, exited>>

\* LoadPSF1Font: three pools and two reads.  A wrong magic number, as after a
\* failed first Read, gives NULL, which is handed on; without its glyphs the
\* font is handed on too; without a pool its header or its glyphs are read to
\* where a pointer nobody set leads.
LoadFont ==
  /\ At("LoadFont") /\ Return
  /\ LET font == bootinfo' = [bootinfo EXCEPT !.psf1_font = "font"]
     IN  \/ LoadFile(font, UNCHANGED bootinfo)
         \/ Fails /\ font /\ UNCHANGED lost
  /\ AllocatePools("loader", 3)
  /\ UNCHANGED <<events, theMap, tables, file, kernel, exited>>

\* Without GOP the result is NULL, and what is printed then is read from page 0.
InitializeGOP ==
  /\ At("InitializeGOP") /\ Return
  /\ \/ Succeeds /\ bootinfo' = [bootinfo EXCEPT !.framebuffer = "framebuffer"]
     \/ Fails /\ UNCHANGED bootinfo
  /\ UNCHANGED <<memory, theMap, lost, tables, file, kernel, exited>>

\* The first GetMemoryMap fails as it should.  MapSize is whatever the stack
\* holds: if that is large enough, Map = NULL is the error and MapSize stays.
GetMapSize ==
  /\ At("GetMapSize") /\ Return
  /\ mapSize' \in {Descriptors(owner), MemoryPages}
  /\ UNCHANGED <<memory, map, mapKey, outdated, lost, tables, file, kernel, bootinfo, exited, failed>>

\* A pool for exactly that size may be what makes the map longer.
AllocateMap ==
  /\ At("AllocateMap") /\ Return
  /\ \/ Succeeds /\ map' = Garbage /\ AllocatePool("loader")
     \/ Fails /\ map' = NoMap /\ UNCHANGED <<owner, key>>
  /\ UNCHANGED <<events, mapSize, mapKey, outdated, lost, tables, file, kernel, bootinfo, exited>>

\* If the map does not fit, or has no room, MapSize and perhaps the key are set
\* and the map is not.
GetMap ==
  /\ At("GetMap") /\ Return
  /\ IF map # NoMap /\ Descriptors(owner) <= mapSize
     THEN map' = owner /\ mapKey' = key /\ outdated' = FALSE
     ELSE map' = map /\ mapKey' \in {mapKey, key} /\ outdated' = TRUE
  /\ mapSize' = Descriptors(owner)
  /\ UNCHANGED <<memory, lost, tables, file, kernel, bootinfo, exited, failed>>

-----------------------------------------------------------------------------
(* The search for the root pointer of the ACPI tables.  configTable moves  *)
(* on while index counts too: round i looks at the GUID of entry 2i and at *)
(* the table of entry i.  CompareGuid returns 0 for equal GUIDs, and       *)
(* strcmp, which moves neither pointer, looks at the first character.      *)

\* What lies behind the array is no GUID of a table.
GuidDiffers(n) == n > Len(tables) \/ tables[n] # "ACPI2"

\* Both versions of the root pointer begin with "RSD PTR ", but so far as the
\* loader looks so does every table that begins with R.
IsRSDP(n) == tables[n] # "other"

Accepted(i) == GuidDiffers(2 * i - 1) /\ IsRSDP(i)

\* The last table that is accepted.
RSDP == LET found == {i \in DOMAIN tables : Accepted(i)}
        IN  IF found = {} THEN NULL
                          ELSE tables[CHOOSE i \in found : \A j \in found : j <= i]

FindRSDP ==
  /\ At("FindRSDP") /\ Return
  /\ bootinfo' = [bootinfo EXCEPT !.rsdp = RSDP]
  /\ UNCHANGED <<memory, theMap, lost, tables, file, kernel, exited, failed>>

\* The status is not looked at and the call not repeated.
ExitBootServices ==
  /\ At("ExitBootServices") /\ Return
  /\ exited' = (mapKey = key)
  /\ UNCHANGED <<memory, theMap, lost, tables, file, kernel, bootinfo, failed>>

\* The kernel is called, whether its first segment was loaded or not.
KernelStart ==
  /\ At("KernelStart") /\ Return
  /\ lost' = (image[Segments[1].paddr \div PageSize] # 1)
  /\ UNCHANGED <<memory, theMap, tables, file, kernel, bootinfo, exited, failed>>

-----------------------------------------------------------------------------
LoaderInit ==
  /\ todo = EfiMain /\ lost = FALSE
  /\ \E pages \in FirmwarePages :
       owner = [p \in MapPages |-> IF p \in pages THEN "firmware" ELSE "conventional"]
  /\ events = 0
  /\ tables \in TableLists
  /\ file = {} /\ phdr = 1 /\ image = [p \in MapPages |-> 0]
  /\ mapSize = 0 /\ map = NoMap /\ mapKey = 0 /\ key = 1
  /\ bootinfo = [framebuffer |-> NULL, psf1_font |-> NULL, rsdp |-> NULL]
  /\ exited = FALSE /\ failed = FALSE /\ outdated = FALSE

LoaderNext ==
  \/ OpenKernel \/ GetInfo \/ ReadHeader \/ ReadProgramHeaders
  \/ LoadSegments \/ LoadFont \/ InitializeGOP
  \/ GetMapSize \/ AllocateMap \/ GetMap
  \/ FindRSDP \/ ExitBootServices \/ KernelStart
  \/ FirmwareEvent

Started == todo = <<>> /\ ~lost
=============================================================================
