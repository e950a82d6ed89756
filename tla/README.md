# ErrorOS: a TLA+ model of the kernel

ErrorOS is a small x86-64 kernel started by a UEFI boot loader. This directory
holds TLA+ modules that model parts of it, the TLC configurations that check
them on small instances, and proofs, checked by TLAPS, that hold for all
instances. Paths below are relative to `src/kernel/src/` unless they begin
with `src/`.

    tlasany M.tla                       parse a module
    tlc -workers 2 -config X.cfg M      check a configuration
    tlapm M.tla                         check the proofs of a module

`PROJECT.json` lists the components, the runs, the source lines of every
definition, the mutants that show that a property can fail, the hazards the
properties are for, and the theorems.

## The system

| Component | State | Operations | Used by |
|---|---|---|---|
| Page frame allocator (`paging/PageFrameAllocator.c`, `Bitmap.c`, `memory.c`) | bitmap, three counters, cursor `pageBitmapIndex` | `ReadEFIMemoryMap`, `RequestPage`, `FreePage(s)`, `LockPage(s)`, `ReservePage(s)`, `UnreservePage(s)` | `kernel.c`, `MapMemory`, heap, AHCI |
| Page tables (`paging/PageTableManager.c`, `PageMapIndexer.c`, `paging.c`) | four levels of tables in frames of the allocator, `cr3` | `MapMemory` | `kernel.c`, heap, PCI, AHCI |
| Heap (`memory/heap.c`) | list of segment headers, `LastHdr`, `heapEnd` | `malloc`, `free` and their helpers | PCI, AHCI |
| PS/2 mouse (`userinput/mouse.c`) | `MousePacket`, `MouseCycle`, `MousePacketReady`, position | `HandlePS2Mouse` (interrupt), `ProcessMousePacket` (main loop), `InitPS2Mouse` | interrupt 0x2c, `_start` |
| PS/2 keyboard (`userinput/keyboard.c`, `kbScancodeTranslation.c`) | shift keys | `HandleKeyboard` (interrupt) | interrupt 0x21 |
| Renderer (`BasicRenderer.c`) | text cursor, pixels under the mouse pointer | `PutCharS`, `Print`, `Next`, `ClearChar`, pointer drawing | main thread, keyboard interrupt, panic |
| PIT (`scheduling/pit/pit.c`) | `Divisor`, `TimeSinceBoot` | `Tick` (interrupt), `SetFrequency`, `Sleep` (nothing calls these two) | interrupt 0x20 |
| Interrupts (`interrupts/`, `gdt/`, `panic.c`) | IDT, PIC masks, requests and in-service bits; the keyboard controller's one output buffer | `RemapPIC`, end of interrupt, `InitPS2Mouse`, fault handlers | everything |
| PCI and ACPI (`pci.c`, `acpi.c`) | none of their own | enumeration, table search | `_start` |
| AHCI (`ahci/ahci.c`) | command lists, port registers | configure, read, write by polling | PCI |
| Boot loader (`src/gnu-efi/bootloader/main.c`) | what it hands over in `BootInfo` | firmware calls, ELF and font loading, memory map, search for the root pointer | firmware |

`_start` (`kernel.c:48-139`) runs once and alone: it sets up memory, then
devices, then enables interrupts (line 120) and ends in a loop that polls
`ProcessMousePacket`. From then on there are two kinds of actors: the main
loop, and interrupt handlers that run to their end between two of its
instructions. There are no threads and no locks.

What is hard in this code:

- **Long sequences of legal calls.** The allocator's cursor and counters and
  the heap's doubly linked list are correct only if every one of many paths
  keeps them so.
- **Composition.** Page tables, heap pages and driver buffers come from the
  same allocator, are used by physical address, and must be reachable through
  the tables they are part of.
- **Interrupts.** The mouse handler and the main loop share a buffer, a flag
  that is not volatile, and nothing else; the compiler reorders the accesses.
  The keyboard handler draws text while the main thread prints, and while it
  moves the mouse pointer over the same pixels.
- **Devices.** The AHCI controller runs beside its driver, fetches commands from
  memory when it likes, and may fail or not answer. Keyboard, mouse and the
  keyboard controller's own replies share one buffer behind port 0x60.
- **The firmware.** Every call of the boot loader may fail, none is repeated, and
  the memory map may change between reading it and leaving the firmware.
- **Exhaustion.** No caller of `RequestPage` tests for `NULL`, and page 0 is
  mapped, so that nothing faults.
- **Boundaries.** The bitmap has one bit too many in its bound test and up to 7
  too many in its size; a heap segment's header comes out of the pages
  requested for its contents.

## The modules

| Module | Models | |
|---|---|---|
| `PageFrames` | the functions of the allocator, on a record | operators |
| `PageFrameAllocator` | the allocator in the life of the kernel | state machine |
| `FramePool` | what an allocator of frames promises | abstract |
| `PageFrameAllocatorProofs` | lemmas about `PageFrames`, the theorems about both | proofs |
| `PageTables` | `MapMemory`, and the processor's walk | operators, on `PageFrames` |
| `KernelMemory` | `kernel.c:64-100` and what extends the address space later | state machine, on `PageTables` |
| `AddressSpace` | what page tables promise | abstract |
| `KernelMemoryProofs` | lemmas about `PageTables`, the theorems about both | proofs |
| `Heap` | the heap | state machine |
| `BlockStore` | what `malloc` and `free` promise | abstract |
| `HeapProofs` | the theorems about both | proofs |
| `PS2Mouse` | mouse interrupt and main loop | state machine |
| `MouseCursor` | the mouse pointer on the screen, and text written under it | state machine |
| `MouseProofs` | the theorems about both | proofs |
| `Console` | text cursor, keyboard, the last line of `_start`, panic | state machine |
| `ConsoleProofs` | the theorems about it | proofs |
| `Interrupts` | `RemapPIC`, `InitPS2Mouse`, masks, handlers, a sleeping thread; PICs, keyboard controller, devices | state machine, on `PIT` |
| `InterruptsProofs` | the theorems about it and about `PIT` | proofs |
| `PIT` | divisor and frequency | operators |
| `AHCI` | the AHCI driver on one port, and the controller | state machine |
| `Disk` | what `AHCIPortRead` and `AHCIPortWrite` promise | abstract |
| `AHCIProofs` | the theorems about both | proofs |
| `BootLoader` | `efi_main` and the firmware | actions |
| `PCI` | `PrepareACPI`, `FindTableACPI`, the enumeration | actions |
| `BringUp` | both, one after the other | state machine |
| `BringUpProofs` | the theorems about the three | proofs |
| `MCPageFrameAllocator`, `MCKernelMemory`, `MCHeap`, `MCMouseCursor`, `MCBringUp` | instances for TLC | |

Definitions whose names end in `_Something` are mutants: what the definition
named before the underscore would be with a plausible bug. No specification
uses them.

### PageFrames and PageFrameAllocator

An address is a page number and the counters count pages. `bits` is the set
of indices whose bit is 1. `InBitmap` has the bound of `Bitmap.c` as it is
(`index > Size * 8` is refused, so index `Size * 8` is not), and `stale` is the
content of that one bit, in a byte that `InitBitmap` does not clear. A function
on a range of pages is one set operation; single-page calls on different
pages commute, and `LowerCursor` takes the least page, which is where a
sequence of them leaves the cursor. `RequestPage` moves the cursor up to the
page it finds.

The state machine goes through the stages of `_start`: `ReadMap`
(`ReadEFIMemoryMap`, the whole function), `LockKernel`, requests,
`LockFramebuffer`, requests and frees in any order. `client` is the set of
pages that were handed out and not freed. No code in the kernel calls
`FreePage` yet; the model frees any range of pages a client holds, which is
what the function is for.

The counters are integers here. In the code they are `uint64_t`; a negative
number of pages stands for the wrapped value. `i * 4096` in the loops is `int`
arithmetic and undefined for ranges above 2 GiB; the model has no such
overflow.

`MCPageFrameAllocator` uses pages of 2 bytes, so that the bitmap has more than
one page, and three memory maps: `FullMap`, where the bitmap has no bit that
stands for nothing; `SpareMap`, where 5 bits do; `HoleMap`, whose conventional
memory reaches the stray bit and a page behind the bitmap. The framebuffer
(12, 13 and 30) is partly in the bitmap and partly behind it.

### PageTables and KernelMemory

A table is a function from indices to a frame or `NotPresent`. `MapMemory` sets
`Present` and `ReadWrite` and no other flag, so no flag is kept. `Descend` is
one of its three identical levels. `Translate` is the walk of the processor,
written with the same index arithmetic but apart from `PageMapIndexer`.

`KernelMemory` is `kernel.c:64-100` step by step, one call of `MapMemory` a
step, then `ExpandHeap`, `RequestData` (IDT page and AHCI buffers) and
`MapDevice` (PCI and AHCI registers) in any order until no frame is left. When
`RequestPage` returns `NULL` the kernel goes on and clears page 0, its own first
page; the model stops at the stage `wrecked` and claims nothing of it. `itself`
is a history variable: the pages `MapMemory` was asked to map to themselves.

`MCKernelMemory` has tables of 4 entries (256 virtual pages in four levels, the
heap under a PML4 entry of its own as in the code) and five maps of 29 or 31 pages:
with room to spare, exhausted while running, exhausted while booting, with spare bits
(`SpareMap`) and with a hole (`HoleMap`). The identity map ends at the sum of the
descriptors' sizes. On the last two maps `RequestPage` returns pages behind it, the
one's because there is no memory where it has bits, the other's because memory does not
end where the sum does. `BehindTheSum` names them, and
`UsedFramesAreMappedToThemselves` excepts them; that they really come to be used as
tables and buffers is what `kernel_memory_holes` shows. The processor would then fault, or use
what is no memory, where the model goes on; the other properties are claimed of these
steps too. `DevicesAreApart` is where the framebuffer and the device registers may be.

### Heap

`heap.hdr` maps the address of each live header to its four fields. `malloc`
walks one segment a step; `Split`, `CombineForward`, `CombineBackward` and `ExpandHeap` are operators on the list
in the order of their assignments, and part of the step that calls them.
`given` is what callers hold, and how many bytes they asked for: `request` before it is
rounded up. `BlockStore` promises a block at least that long, which overlaps no other and
stays as it is until it is freed. `frames` is the number of pages the allocator
still grants: what `RequestPage` and `MapMemory` do is in `KernelMemory`. With
frames left every request succeeds; without, page 0 is mapped into the heap
(`pageZero`) and the model stops, because two heap pages may then be one.

Header size (32) and granularity (16) are the code's. `MCHeap.cfg` has pages of
128 bytes and up to 4 of them, which is enough for blocks on both sides of a
free one, for frees in every order, for an expansion with the tail free and one
with it in use. A request of 112 bytes rounds to one page, which is 16 bytes too
short once it has its header: it is what takes two expansions, as requests of
just under 4096 bytes do in the code. `malloc` ends because it walks a list of
finitely many segments (`SegmentsTileTheHeap`) and calls itself at most twice.

### PS2Mouse

The interrupt handler is one step; the main loop is one step for each access to
shared data, in the order of the source or in the order of an -O3 build, which
loads bytes 0 and 1 before it clears `MousePacketReady` and byte 2 after. A byte
is its number in the stream, so that "these three belong together" can be said.
Bit 3 is set in the first byte of a packet and is arbitrary in the others. The
mouse sends 3 bytes a packet, its default, or 4, if the firmware left it in
wheel mode: `InitPS2Mouse` sends only 0xf6 and 0xf4, which change neither.
Bytes are numbered modulo one packet: that tells consecutive bytes from others
except when exactly a multiple of a packet was lost in between, and a shorter
gap is reachable wherever a longer one is, because bytes are dropped one by one.
`Acks` is the number of acknowledgements left unread because `MouseRead` gives
up waiting.

`overlap` and `overtaken` are history variables. They name the interleavings in
which the handler stores bytes while `ProcessMousePacket` is between its two
assignments to the flag; `DrawnPacketIsWhole` is false in those and holds in all
others. What is drawn then is three consecutive bytes of the mouse. With packets of 4
bytes, until one is missed, they are the first three of one packet; with packets of 3
they may be of two, which is the code's own mistake (see below). `missed` says that the handler dropped a byte because the main loop was
late; from then on the place of a packet's first byte is guessed from bit 3.

### MouseCursor

`ProcessMousePacket` computes the new position from the packet's bytes
(`Movement`, with the 8-bit arithmetic of the code, and `Clamped`), and then
visits the pixels of the pointer one by one, at its old place to restore them
and at its new one to save and cover them. Each access to the screen is a step,
and the keyboard interrupt may draw or erase any pixel between two of them. A
character drawn at once is several such steps in a row, so the model has every
interleaving of whole characters too.

`text` is a history variable: what each pixel would be if there were no
pointer. It becomes `Unknown` in the two situations in which the driver may lose
text: the main loop is in the middle of a move where the text is drawn, or text
under the resting pointer looks like the pointer does (both are white). The
properties hold for everything else. `MouseDrawn`, `ClearColor` and the saved
pixels start with any value, because `kernel.c:52` has the renderer on the stack
and its constructor sets none of them; the pixels a garbage `MouseDrawn` would
"restore" are `Unknown` as well.

`MCMouseCursor` has a pointer of three pixels on a screen of 2 by 2: it is
clipped at both edges, overlaps its old place or not, and moves by 0, 1 and
far more than the screen in either direction (bytes 0, 1 and 255). `CursorTypeOK`,
`StaysOnItsLines` and `PointerLeavesNoTrace` have a state to fail in for every
pixel of it, which is why the instance is small and its state space is not.

### Console

X counts pixels and Y rows of 16 scan lines. `Print` keeps the cursor in registers while it
prints and writes it back after each character: that is what -O3 makes of it,
and it widens the window in which a key's movement of the cursor is lost from
one assignment to the whole line. `Next`'s two assignments come in the order of
the source or of the build. `drawn` is the set of pixel columns that have a character or
a part of one; `overprinted` is a history variable, because `PutChar` erases nothing.
Drawing behind the last row is a page fault (the framebuffer is mapped with less than one
more scan line of 4 KiB, and a character has 16).

`ClearChar` is `EraseBefore`, after it has gone up a row from X = 0. On a screen whose
width is no multiple of 8 pixels a row ends with less than a character. Erasing begins at
`Width` - 8 there, which is not where a character was drawn, and if it is repeated up to the left edge X
becomes negative: the unsigned `xOff - 8` (BasicRenderer.c:72-77) is a huge number, nothing is
erased, and lines 80-84 set the cursor to X = `Width` in the row above. `stranded` is a history
variable that names this case, in which the cursor is in no row and the rest of a character stays on the
screen; `NeverStranded` proves that it takes such a width. A character drawn at the
end of a scan line goes on at the beginning of the next (`Columns`).

`Panic` prints with the actions of `Print`, in the thread that faulted and with
interrupts off; if one of its characters faults, `Panic` is called again (`panics`).
`PanicIsShown` says that this does not happen, wherever the cursor was at the first fault.

`interleaved` is a history variable: a key was handled while the main thread was
printing. `NothingIsOverprinted` is false then, `CursorIsInRow` holds even so.
The interrupt reads any code of `Scancodes` at any time: shift keys, letters, a
key without a character (15), Caps Lock (58), Enter, Space, Backspace and releases; `MaxKeys`
bounds how many, 6 in `Console.cfg`. There a character has 2 pixel columns and the screen 5, so
that a row has 2 characters and one column more, and 3 rows: lines wrap within the
message of 3, the message may run past the last row, and three times Backspace strands the
cursor.

### AHCI and Disk

Every access of the driver to a register (`PxCMD`, `PxIS`, `PxCI`, `PxTFD`) and
to the header and table the controller fetches is a step. Reading and writing
are the same code but for the direction, and the same actions here. The
controller is external: its engines (`CR`, `FR`) follow their switches (`ST`,
`FRE`) after a while, it fetches a command that is issued once it is running,
and completes or fails it. A failure leaves the command issued and the
controller halted, as the AHCI specification has it, or takes the command back,
as line 170 ("be sure that we dont jump last check") allows for; `restarts`
says which. A SATAPI device knows none of the driver's commands and fails them
all, and a port may have no device, for which the probe is there.

`answer` is a history variable: what the controller did with a caller's
request. With it `AHCI` implements `Disk`: a call that returns true has moved its
sector once, in the right direction, during the call; nothing else is written.

The port is one of up to 32, which the driver handles one after the other
without shared state. Sectors and their contents are abstract; there are two
of each. `SpinBound` is 2 for 1000000. A port may be busy for
ever, and then the driver gives up on it; what it does not give up on is a
controller that waits for a restart, the exception in `DriverGoesOn`.
`Callers` has one element in `AHCI.cfg`, as the kernel has one thread. With two of them `ImplementsDisk` is false, whatever
the comment in line 121 says of thread safety: the spin loop waits for an idle
device, and two callers pass it together.

### PIT and Interrupts

A function of the code is a sequence of port accesses (`RemapPIC`,
`InitPS2Mouse`, `Handler`), written in their order; one access is one step, and
between two of them the devices act. A handler runs to its `iret` before the
kernel's thread goes on. External are the PICs (edges, requests, in-service bits,
priorities, the four initialisation words), the keyboard controller (one output
buffer, the configuration byte, its input buffer that a second `outb` overwrites)
and the devices behind it.

- `MouseWait` and `MouseWaitInput` give up after 100,000 rounds. Whether the
  controller answers before that is its own affair: both outcomes are there, and
  `disturbed` notes where the wait ended without its cause. A key during
  `InitPS2Mouse` is read in place of the configuration byte and written back as
  one, so `status` may become any byte; `InitIsComplete` claims nothing then.
- Polling takes a byte away whose interrupt is requested. On PICs that keep the
  request (`keeps`, as some emulators do) an interrupt is delivered for a byte that
  is gone, and from then on the handlers may read one another's bytes:
  `HandlersReadTheirOwn` and `StraysAreFew` are about PICs that do not.
- ICW1 in `RemapPIC` forgets pending edges. A byte already in the buffer will not
  raise its line again, but `InitPS2Mouse` reads at least one byte, which empties the
  buffer; `BytesAreTaken` rests on it.
- `StraysAreFew` is what `PS2Mouse` assumes when it has at most 2 unread
  acknowledgements (`Acks`): the one module's bound is the other's property. The
  bound is tight. `StrayBound` is one above it.
- `EveryInterruptIsEnded` is the safety half of `BytesAreTaken` and `SleepEnds`: an
  interrupt of the slave is in service at both PICs, and one left behind at either holds back
  every later one of its priority or less.
- The thread that sleeps is in the model although nothing calls `Sleepd` yet: it
  tests the time (`Test`) and halts (`Halt`) in two steps, and interrupts are delivered
  between them: a tick that comes there does not end the halt that follows. The next interrupt does.

`PIT` has the arithmetic of the 16-bit divisor. Outside 19 to 11931 Hz
`SetFrequency` gives something else altogether (18 Hz become 1588); inside, as
`FrequencyIsTheNextPossible` says, the next possible frequency.

### BootLoader, PCI and BringUp

`BootLoader` is `efi_main` call by call. Every call to the firmware may fail.
`lost` is the end of the model: the loader followed a pointer that no call had set, or
NULL. Memory is a few pages with an owner each; a descriptor covers neighbours with
one owner, so that an allocation may lengthen the map by two entries, one or none.
`AllocatePool` takes a page or finds room in one; `LoadFont` asks for up to three pools, and
hands on a font whose glyphs were not read if that call fails. `FirmwareEvent` is an
allocation of the firmware's own between any two steps (at most `EventBound`).
`failed` and `outdated` are history variables: a call failed; the memory map was not
read, because its pool was refused or made the map longer than the pool
(main.c:219-221), or the firmware changed it after it was read. `HandedOverMapIsCurrent`
and `ImageIsWhole` name them as their exceptions, because the code neither looks
at a status nor repeats `GetMemoryMap` or `ExitBootServices`.

The second `GetInfo` stores a file's information over a variable on the stack that is
too small for it; in the shipped build nothing that is used lies behind it, and the
model assumes so. What a segment has beyond its bytes in the file is not cleared.

The search for the root pointer moves on by two entries while it counts one, takes
unequal GUIDs for equal ones, and compares one character of a signature: any table that
begins with R passes (`"R"` in `Tables`). OVMF lists the
ACPI 1.0 table first, and there the errors happen to cancel; with the 2.0 table first
they do not, which `root_pointer` shows.

`PCI` goes from the root pointer to the drivers: one header a step, the three
nested loops with their early ends. `wild` is where the kernel uses what is no table (no
MCFG, the wrong root pointer) or prints a name behind the end of a table (class 20 and
above). `drivers` counts the calls of the driver's constructor for each function, and
`EveryControllerHasADriver` compares the counts with what is in the machine;
`Visited` names the functions the loops cannot find: those on the last bus of a range, on
a bus without device 0, in a device without function 0. `PCIAssumption` has what the
hardware and the firmware give: numbers of devices of 5 bits and of functions of 3, and
an MCFG that describes no bus twice. With a bus described twice every driver on it would
be constructed twice.

`MCBringUp` has 7 pages of memory, a kernel of two segments of which neither fills its
last page, and four machines: no MCFG; one range of buses and one with two, over a
machine with gaps at every level; a controller that answers at every function
number, and a device of a class without a name.

## The runs

| Run | Shows | Distinct states |
|---|---|---|
| `pfa` | types; no free page below the cursor; pages handed out are safe; counters exact; implements `FramePool` | 40,330 |
| `pfa_spare` | **violated**: pages outside the memory map are handed out | |
| `kernel_memory` | tables form a tree; frames have one use; used frames are mapped to themselves unless they lie behind the sum; no translation is replaced after `cr3`; implements `AddressSpace` | 14,460 |
| `kernel_memory_holes` | **violated**: with a hole in the memory map, frames are used that nothing maps | |
| `heap` | segments tile the heap (types included); free segments are merged; at most two expansions; implements `BlockStore`: each block is as long as was asked for | 298,806 |
| `mouse` | types; what is drawn is consecutive bytes, of one packet while in sync; in sync until a byte is missed; the cursor of a moving mouse keeps moving | 848,999 |
| `ahci` | types; structures move only while the controller is stopped; a command that may be fetched stays as it is; implements `Disk`; configuration ends and calls return unless the controller waits for a restart | 29,252 |
| `mouse_cursor` | types; the pointer stays on its lines and leaves no trace | 1,914,053 |
| `console` | types; the cursor is in a row; nothing is overprinted; panic shows its message without a second fault | 1,269,374 |
| `interrupts` | types; handlers read bytes of their own device and end their interrupts; the mouse is set up if nothing came in the way; at most two strays; bytes are taken; a sleeper wakes up | 355,722 |
| `bring_up` | the memory map handed over is current; the image is whole; every controller that can be found has a driver | 5,712,956 |
| `root_pointer` | **violated**: the ACPI 1.0 root pointer is handed over although there is one of 2.0 | |

Deadlock is checked in `pfa`, `mouse`, `mouse_cursor` and `interrupts`. In `heap` and in
`kernel_memory` the model ends on purpose when memory has run out, in `console` with
`Panic`'s endless loop, in `ahci` where a port without a device is left alone, and in
`bring_up` and `root_pointer` when the enumeration is done or the loader or the kernel is
lost.

**Fairness.** `PS2Mouse` assumes that the main loop goes on (weak fairness): it never
waits and is interrupted by handlers that return. Only `MovingSpec` assumes
anything of the mouse: that it keeps sending, which `CursorKeepsMoving` needs. `AHCI`
assumes that the thread that configures or calls goes on, that the controller obeys
its switches, and that it answers what it fetched, if only by failing; it does not
assume that a busy device ever becomes ready, because the driver gives up on one.
`Interrupts` assumes that code runs (weak fairness of `Code`) and that the timer ticks;
interrupt 0 has the highest priority and is delivered once it stays requested (weak
fairness). The others, and both steps of the sleeping thread, have strong fairness: the
timer's handler and whatever interrupts the thread take turns with them, and the
timer's handler is shorter than its period, so that they are not shut out for ever.
Nothing is assumed of keyboard and mouse. `Heap`, `Console`, `MouseCursor`,
`KernelMemory`, `PageFrameAllocator` and `BringUp` have safety properties only.

## What the findings are

1. `RequestPage` goes through `Size * 8` bits; `ReadEFIMemoryMap` reserves
   `memorySize / 4096 + 1`. The rest are handed out as if they were memory.
2. `GetMemorySize` adds up the descriptors, and `kernel.c:79` takes the sum for the end of
   memory. On a map with a hole there is conventional memory behind it; for the part of
   it that the bitmap has bits for, `RequestPage` returns frames that no table maps.
3. The boot loader takes a configuration table if its GUID is *not* that of ACPI 2.0
   (`CompareGuid` returns 0 for equal ones), and compares the GUID of a different
   entry from the one whose table it takes.

The models contain more that no run asks about, because the code claims nothing
of it, says itself that it is open, or because one call is enough to see it:

- `RequestPage`'s `NULL` is used as page 0 (`KernelMemory`'s `wrecked`, `Heap`'s
  `pageZero`).
- `Split` (`memory/heap.c:69`) writes to `next->last` when `next` is `NULL`, which it is in the
  first `malloc` already (`Heap`'s `nullHit`; `CombineForward` has the test). Page 0 is mapped, so the
  write succeeds silently.
- `InitPS2Mouse` sends only 0xf6 and 0xf4, which leaves most mice in 3-byte mode, while
  the handler collects packets of four: three of four packets are out of phase, the
  "sink problem" of `kernel.c:129` and the FIXME at `userinput/mouse.c:55`. This is why
  `InSyncUntilAByteIsMissed` is about mice of 4 bytes.
- After a failed command the AHCI controller waits to be restarted; nothing
  restarts it, and the next call polls for ever (`DriverGoesOn`'s exception).
- `Translate` reads one entry behind its table for scan code 58, Caps Lock.
- White text drawn under the white pointer is erased when the pointer leaves
  (`MouseCursor`, `Endangered`), and typing past the last row is a page fault
  (`Console`, `Draw`).
- On a screen whose width is no multiple of 8, Backspace leaves a part of a character and the
  cursor at X = `Width` (`Console`, `stranded`).
- A key during `InitPS2Mouse` may be written back as the controller's configuration.
- The enumeration leaves out the last bus of a range, and gives a device that answers
  at all function numbers eight drivers.

## What is proved

Every theorem is for all values of the constants that the named assumptions of its
module allow: any screen, any memory map, any page and header sizes, any disk.

| Module | Theorem | Statement |
|---|---|---|
| `PageFrameAllocatorProofs` | `TypeCorrect` | `Spec => []TypeOK` |
| | `CursorIsSafe` | `Spec => []NothingFreeBelowCursor` |
| | `HandsOutSafePages` | `Spec => []HandedOutPagesAreSafe` |
| | `CountersAreExact` | `Spec => []CountersMatchBitmap` |
| | `Refinement` | `Spec => ImplementsFramePool` |
| `KernelMemoryProofs` | `TreeAlways` | `Spec => []TablesFormATree` |
| | `OneUse` | `Spec => []FramesHaveOneUse` |
| | `UsedFramesMapped` | `Spec => []UsedFramesAreMappedToThemselves` |
| | `NoTranslationReplaced` | `Spec => NoTranslationIsReplaced` |
| | `AddressSpaceRefinement` | `Spec => ImplementsAddressSpace` |
| `HeapProofs` | `TilesTheHeap` | `Spec => []SegmentsTileTheHeap` (with `TypeOK`) |
| | `MergesFreeSegments` | `Spec => []FreeSegmentsAreMerged` |
| | `NeedsTwoExpansions` | `Spec => []TwoExpansionsAreEnough` |
| | `Refinement` | `Spec => ImplementsBlockStore` |
| `AHCIProofs` | `TypeCorrect` | `Spec => []TypeOK` |
| | `MovesWhileStopped` | `Spec => StructuresMoveWhileStopped` |
| | `StableCommands` | `Spec => CommandIsStable`, for one caller |
| | `Refinement` | `Spec => ImplementsDisk`, for one caller |
| `MouseProofs` | `TypeCorrect` | `MovingSpec => []TypeOK` |
| | `KeepsItsPlace` | `MovingSpec => []InSyncUntilAByteIsMissed` |
| | `DrawsWholePackets` | `MovingSpec => []DrawnPacketIsWhole` |
| | `CursorTypeCorrect` | `CursorSpec => []CursorTypeOK` |
| | `StaysOnScreen` | `CursorSpec => []StaysOnItsLines` |
| | `NoTrace` | `CursorSpec => []PointerLeavesNoTrace` |
| `ConsoleProofs` | `TypeCorrect` | `Spec => []TypeOK` |
| | `StaysInRow` | `Spec => []CursorIsInRow` |
| | `OverprintsNothing` | `Spec => []NothingIsOverprinted` |
| | `NeverStranded` | with a width that is a multiple of a character, `Spec => []~stranded` |
| | `ShowsPanic` | `Spec => []PanicIsShown` |
| `InterruptsProofs` | `Types` | `Spec => []TypeOK` |
| | `OwnBytes` | `Spec => []HandlersReadTheirOwn` |
| | `InterruptsEnd` | `Spec => []EveryInterruptIsEnded` |
| | `CompleteInit` | `Spec => []InitIsComplete` |
| | `FewStrays` | `Spec => []StraysAreFew` |
| | `FrequencyIsTheNextPossible` | an order from 19 to 11931 Hz is met by the next possible frequency |
| `BringUpProofs` | `MapIsCurrent` | `Spec => []HandedOverMapIsCurrent` |
| | `KernelIsLoaded` | `Spec => []ImageIsWhole` |
| | `ControllersHaveDrivers` | `Spec => []EveryControllerHasADriver` |

None of the invariants is inductive by itself. How they are strengthened:

**The allocator.** The assumptions are `PageFramesAssumption` and
`PageFrameAllocatorAssumption`: the constants are natural numbers, and a memory map
has at least one page, addresses that are natural numbers, and a largest conventional
segment. `IInv` adds what the stages guarantee: before `ReadMap` the allocator is
empty and nobody holds a page; after it the bitmap's size and place are those of the
map and never change, and BIOS pages and the bitmap's pages are marked; after
`LockKernel` the kernel's are. `HandedOutPagesAreSafe` needs those marks, because it is
`RequestPage`'s search for a clear bit that keeps it; the marks need
`HandedOutPagesAreSafe`, because it is what keeps `FreePages` away from them.
`CountersMatchBitmap` needs the set of bits to be finite, and that used and
reserved pages are counted apart. The proof has one lemma per action; the
lemmas about `PageFrames` say once what locking, freeing, reserving and
unreserving do to the bits, the counters and the cursor. Sums over a memory map
(`GetMemorySize`) are recursive; the proofs use only that they are positive, by
assumption.

**The page tables** (`PageTablesAssumption`: a table has entries; `KernelMemoryAssumption`:
memory maps as the allocator's, memory that ends below the heap's virtual addresses,
a framebuffer and devices with virtual addresses of their own; `DevicesAreApart`: no device register and no
framebuffer page lies in the region from `HeapStart` on, where the heap may grow, and
the framebuffer is no memory of the map that `RequestPage` hands out). The lemmas about
`PageTables` give every frame of the tables a level, say that `Descend` keeps a tree of four
levels and adds at most one frame, zeroed and not in the tree before, and that
`MapMemory` changes the translation of its page alone. `TablesFormATree` is inductive
only with the frames: what is in the tree, in the heap or in a buffer is in use in the
bitmap, so that the frame `RequestPage` finds is none of it, and no two of these sets
meet (`FramesHaveOneUse`). `NoTranslationIsReplaced` needs that the heap has as many pages as frames:
it stays shorter than memory, and its next page is in no part of the address space that
was mapped before; the identity map ends below `HeapStart`, and devices map their pages
to themselves however often. `UsedFramesAreMappedToThemselves` needs the stages: what
the identity map has reached, and that afterwards every frame `RequestPage` can find is
inside it or in `BehindTheSum`. The page at the sum itself is one of these only if it is
conventional memory (`EndIsNoMemory` is the other case), because `ReservePages` reserves one more
than the sum has. After `RequestPage` returned `NULL` the invariant keeps nothing but the
types, as the model does.

**The heap** (`HeapAssumption`: sizes are positive, aligned, and a page holds more than
a header). `SegmentsTileTheHeap` says nothing that keeps a new header from landing
inside another segment. `List`, of any state of the memory, adds that segments
do not overlap and that `last` is right too. Then each function of `heap.c` is a lemma
of its own: `Split`, `CombineForward` with and without something to merge, and
`ExpandHeap` lead from a list to a list (`SplitKeepsList`, `MergeKeepsList`,
`AppendKeepsList`), keep the segments in use (`Kept`), and leave no free neighbours
(`Apart`). `Grown` is why two expansions are enough: after the first the
tail is free and at most a header too short. Blocks never overlap because they are
segments in use (`Blocks`) of a list. `Asked` ties the size `malloc` looks for to the
request it was rounded from, so that a segment that `Fits` is long enough.

**AHCI** (`AHCIAssumption`; `OneCaller` where said, as the kernel starts no second
thread, and without it the refinement is false). `Stopping` is what the driver knows of
both engines at each step of stopping and starting them. `Calling` is what may have
become of the call before at each step of a call: a command is issued and not halted
only while its caller polls. `Answering` ties the caller's request, the command in the
controller and the history of its answer together; the refinement of `Disk` follows.

**The mouse** (`PS2MouseAssumption`: packets of 3 or 4 bytes). `Placed` is
`InSyncUntilAByteIsMissed` with acknowledgements counted as missed. `Whole` splits the
packet in the buffer by who began it: while the main loop waits the handler appends each byte
to the one before; what it begins while the main loop is at work is marked by `overlap`,
and what it stores into the packet that is being read, by `overtaken`. `Begins` says that the
first byte in the buffer is the first of a packet, with packets of 4 bytes and until one is missed.

**The console** (`ConsoleAssumption`: a screen of at least two characters and three rows, on
which the two lines of a panic fit). `Typed` bounds how far the registers of `Print` may
have moved. `Ahead` says that the registers and the cursor agree and that all columns from
the cursor on are blank, wherever Enter and Backspace took it, while no key came in between and
nothing was stranded. `Panicking` is the panic character by character: where the cursor is, and
that the text so far is all that is drawn. `NeverStranded` rests on X being a
multiple of a character's width.

**The pointer** (`MouseCursorAssumption`). `IInv` adds that there is a pixel to go on with
between two accesses; that the next one is on the same lines is arithmetic on rows
and widths, and that one of those left comes first, a well-founded order.
`PointerLeavesNoTrace` needs `TextInv`, pixel by pixel: one that is covered has its text
in the pixel saved for it, any other shows its text, and while the pointer moves the
pixels still to visit are told from those done. No two covered pixels share a saved
one (`Pix`), or restoring one would undo the other. What the keyboard interrupt draws
under a pointer that moves is `Unknown` and stays so until it is drawn again.

**Interrupts** (`InterruptsAssumption`: any set of configuration bytes a firmware may leave
with the keyboard on, and any lengths of a sleep). What `_start` has still to do is `Rest(n)`,
the 34 accesses from the `n`th on (`StartIs` lists them); `Before(n)` is what holds then.
`Chips(n)` says which word each PIC expects and which vectors it has, so that the first
interrupt after `sti` is delivered through the gate of its own device. `Mine` says that a request has
its byte in the output buffer, and so has a handler until it reads: this, not the handlers'
own code, keeps `HandlersReadTheirOwn`. `Served` says that one interrupt is in service while its
handler runs. `Acks(n)` counts: commands `InitPS2Mouse` has not sent, commands
on the way, acknowledgements owed, in the buffer, and read by the handler are together at
most 2, because only two commands are ever sent; a time limit that ran out moves one from one
place to the next. `Undisturbed(n)` is the whole conversation, access by access: what the controller
has been sent and has not taken, whom the next byte is for, which byte may be in the
buffer. It holds before each access as long as `disturbed` is false, and before the last
one it is `InitIsComplete`.

**From the firmware to the devices** (`BootLoaderAssumption`: segments of at least one
byte that begin with a page, and no more bytes in the file than in memory; `PCIAssumption`).
What `efi_main` has still to do is `Rest(n)`, as above. `Memory` says that the
segments before the loop's place are loaded if no call failed: a segment is
loaded only into conventional pages, so it meets none before it, and pools come from such
pages too. Its link to the property is `PagesAreAllocated`: the pages with a byte of a segment
are among those that main.c:183 counts, because the division rounds up. `Current(n)` says
that the map is what the memory is like from `GetMap` on, where only the firmware still
allocates, and that after `ExitBootServices` it does not. For the enumeration the counts
must be known wherever the loops are: `Ahead` and `Under` place a function before the
loops or in the device they are at, `Counted` gives each controller's count there.
That the loops pass no controller by rests on `Present` where a bus or device is left out, and
that none is counted twice on the entry of the MCFG being the only one with its bus.

Model-checked only: all liveness (`CursorKeepsMoving`, `DriverGoesOn`, `BytesAreTaken`,
`SleepEnds`), because fairness and ENABLED are out of the prover's reach. `GetMemorySize`
and what else is recursive over data is out of its reach too, as induction over data is.
Every other property of a passing run is the statement of a theorem. `KernelMemoryProofs`
and `AHCIProofs` need assumptions of their own where the tables above say so.

## The plan

In this order; what is first is what most of the kernel rests on.

1. Done: allocator, page tables and address space, heap, mouse, mouse pointer,
   console, AHCI port, interrupts and the keyboard controller, PIT, boot loader, PCI.
2. Done: the theorems of the table above.
3. Left: several AHCI ports in turn, for which the code has no shared state; the GDT and
   the constructor of the renderer, which nothing changes later.

## Not modelled

- `src/gnu-efi` but for `bootloader/main.c`: the vendored UEFI library, its headers and
  start-up code, which is nearly all of the repository's text. The boot loader's calls are
  modelled from how `main.c` uses them; the firmware behind them is external.
- `src/OVMFbin` and the object files: binaries. The objects of the shipped build were
  consulted for the order of loads and stores in `ProcessMousePacket`, `Print` and `Next`.
- Glyph drawing, the names of PCI devices, number formatting (`cstr.c`, which nothing
  calls): wording and layout.
- The GDT and how an IDT entry splits an address: constant tables and bit fields without
  later changes. `DoubleFault_Handler` and `GPFault_Handler` are `PageFault_Handler` with
  another text, and that one is modelled.
- `BasicRendererConstructor`'s assignments; what it leaves unset is modelled as any value.
- Several sectors in one AHCI command, several ports, and the layout of command tables in
  memory.
