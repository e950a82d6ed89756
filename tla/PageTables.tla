------------------------------ MODULE PageTables ------------------------------
(***************************************************************************)
(* The page tables of kernel/src/paging/PageTableManager.c, with           *)
(* PageMapIndexer.c and paging.c: MapMemory as an operator from memory to  *)
(* memory, and the walk the processor makes through what MapMemory built.  *)
(*                                                                         *)
(* Virtual addresses too are page numbers.  A page directory entry is the  *)
(* frame it holds, or NotPresent: MapMemory sets the flags Present and     *)
(* ReadWrite together and never another one or none.                       *)
(*                                                                         *)
(* Memory is a record of                                                   *)
(*   pfa       the frame allocator                                         *)
(*   PML4      the frame of the top table (ptm->PML4)                      *)
(*   tables    the contents of the frames in use as tables                 *)
(***************************************************************************)
EXTENDS PageFrames

CONSTANT Entries      \* of a table: 512 in the code

ASSUME PageTablesAssumption == Entries \in Nat \ {0}

NotPresent == -1

VirtualPages == 0 .. (Entries * Entries * Entries * Entries - 1)

-----------------------------------------------------------------------------
(* Mutants: what the definitions of the same names, less the part behind   *)
(* the underscore, would be with a bug in the page tables.                 *)

\* A new table keeps what the frame held: entries for some other table, say.
ClearedTable_Stale(mem, frame) ==
  [mem EXCEPT !.tables = [x \in DOMAIN @ \cup {frame} |->
                            IF x = frame THEN [i \in 0 .. Entries - 1 |-> mem.PML4]
                            ELSE @[x]]]

\* A present entry is not used: each mapping gets tables of its own.
Present_Never(entry) == FALSE

-----------------------------------------------------------------------------
\* PageMapIndexerConst: the index into the table of each level, 9 bits each.
\* What is above the fourth index is cut off.
PageMapIndexer(v) ==
  [P_i   |-> v % Entries,
   PT_i  |-> (v \div Entries) % Entries,
   PD_i  |-> (v \div (Entries * Entries)) % Entries,
   PDP_i |-> (v \div (Entries * Entries * Entries)) % Entries]

\* GetFlagPDE of Present.
Present(entry) == entry # NotPresent

\* memset of a page to 0 makes it a table without an entry.
ClearedTable(mem, frame) ==
  [mem EXCEPT !.tables = [t \in DOMAIN @ \cup {frame} |->
                            IF t = frame THEN [i \in 0 .. Entries - 1 |-> NotPresent]
                            ELSE @[t]]]

SetEntry(mem, table, i, frame) == [mem EXCEPT !.tables[table][i] = frame]

\* One level of MapMemory: entry i of table leads to a table, which is
\* requested if it is missing.  RequestPage's NULL is taken for a frame.
Descend(mem, table, i) ==
  LET frame == RequestedPage(mem.pfa)
  IN  IF Present(mem.tables[table][i]) THEN mem
      ELSE SetEntry(ClearedTable([mem EXCEPT !.pfa = RequestPage(@)], frame),
                    table, i, frame)

MapMemory(mem, virtual, physical) ==
  LET at       == PageMapIndexer(virtual)
      withPDP  == Descend(mem, mem.PML4, at.PDP_i)
      PDP      == withPDP.tables[mem.PML4][at.PDP_i]
      withPD   == Descend(withPDP, PDP, at.PD_i)
      PD       == withPD.tables[PDP][at.PD_i]
      withPT   == Descend(withPD, PD, at.PT_i)
      PT       == withPT.tables[PD][at.PT_i]
  IN  SetEntry(withPT, PT, at.P_i, physical)

-----------------------------------------------------------------------------
\* The processor's walk, by the same indices: the frame, or NotPresent.
Translate(mem, v) ==
  LET Step(table, i) == IF Present(table) THEN mem.tables[table][i] ELSE NotPresent
      PDP == Step(mem.PML4, (v \div (Entries * Entries * Entries)) % Entries)
      PD  == Step(PDP, (v \div (Entries * Entries)) % Entries)
      PT  == Step(PD, (v \div Entries) % Entries)
  IN  Step(PT, v % Entries)

\* The frames that the present entries of a set of tables hold.
Targets(mem, T) ==
  {mem.tables[e[1]][e[2]] :
     e \in {x \in T \X (0 .. Entries - 1) : Present(mem.tables[x[1]][x[2]])}}

\* The tables of each level below the PML4.
PDPs(mem) == Targets(mem, {mem.PML4})
PDs(mem)  == Targets(mem, PDPs(mem))
PTs(mem)  == Targets(mem, PDs(mem))
=============================================================================
