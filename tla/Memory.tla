------------------------------- MODULE Memory -------------------------------
(***************************************************************************)
(* Physical and virtual memory, from boot_init_mem to the running kernel:  *)
(* boot_memory_init.c, memory/kernel_kalloc.c, physical_memory_stack.c,    *)
(* physical_memory_bitmap.c, virtual_memory_manager.c, and the callers in  *)
(* kernel_heap.c and vga.c.                                                *)
(*                                                                         *)
(* Addresses count pages.  Every page table exists from the start, one     *)
(* behind the other, so that the tables are one array indexed by the       *)
(* virtual page; only the directory says which of them are in use.  Once   *)
(* paging is on the kernel writes the tables through the pages at          *)
(* StructuresSpace, and the processor caches translations.                 *)
(***************************************************************************)
EXTENDS Integers, Sequences, FiniteSets

CONSTANTS Entries,          \* entries of a table, tables, and words of a page: 1024
          BootVMA,          \* KERNEL_BOOT_VMA, where the kernel is loaded
          KernelStart,      \* the first page that runs at HighVMA
          KernelEnd,        \* the first page after the kernel's image
          HighVMA,          \* KERNEL_HIGH_VMA
          HeapSpace, HeapSize,
          StructuresSpace,  \* KERNEL_STRUCTURES_SPACE
          Drivers,          \* virtual pages of drivers, the terminal's among them
          Terminal,         \* TERMINAL_VIDEO_MEMORY_ADDRESS
          Video,            \* 0xb8000, the frame of the video memory
          Maps,             \* the memory maps a boot loader may pass
          Mbis,             \* the frames in which it may pass them
          TopFrame,         \* bound: no map goes beyond it
          Cached,           \* bound: the virtual pages whose caching is modelled
          MaxOwn,           \* bound: the pages drivers hold at a time
          NULL

VARIABLES mmap,       \* the memory map: areas, in order
          mbi,        \* the frame of the multiboot information
          at,         \* how far the boot is
          area, page, \* the loops of init_kalloc: area, and page in it
          heap,       \* how many pages of the heap init_heap has mapped
          directory,  \* which tables are present
          entries,    \* the frame of every virtual page, NULL if not present
          tlb,        \* the translations the processor has cached
          stack,      \* the stack of free frames
          status,     \* the bitmap
          given       \* the frames k_alloc has returned and kfree not taken back

loops == <<area, page, heap>>
tables == <<directory, entries, tlb>>
frames == <<stack, status, given>>
vars == <<mmap, mbi, at, loops, tables, frames>>

Pages == 0..(Entries * Entries - 1)
Frames == 0..TopFrame
Statuses == {"FREE", "ALLOCATED", "SYSTEM"}
Areas == [type : {"free", "reserved", "other"},
          high : BOOLEAN,          \* above 4 GiB: basehigh # 0
          first : Frames,          \* the page of baselow
          pages : 0..(TopFrame + 1),  \* iterations of a loop over it
          whole : BOOLEAN]         \* does its last page belong to it entirely?

IsFree(a) == a.type = "free" /\ ~a.high

\* get_highest_adrress takes the last free area of the map.
FrameCount(m) ==
    LET free == {i \in DOMAIN m : IsFree(m[i])}
        last == CHOOSE i \in free : \A j \in free : j <= i
    IN  m[last].first + m[last].pages - IF m[last].whole THEN 0 ELSE 1

\* What boot_init_mem reserves behind the kernel, with one status per 2 bits and a
\* stack of FrameCount + 1 words.
RoundUp(n, unit) == (n + unit - 1) \div unit
BitmapPages(m) == RoundUp(FrameCount(m) \div 4, 4 * Entries)
StackPages(m) == RoundUp(FrameCount(m) + 1, Entries)
StackPagesMapped(m) == (FrameCount(m) + 1) \div Entries
BitmapStart == KernelEnd + 1 + Entries
StackStart(m) == BitmapStart + BitmapPages(m)
AllocSpace(m) == StackStart(m) + StackPages(m)

\* Slip: only the image is kept, not what boot_init_mem has reserved behind it.
KernelFramesOfImage(m) == BootVMA..(KernelEnd - 1)

\* The frames that init_kalloc keeps off the stack.
KernelFrames(m) == BootVMA..(AllocSpace(m) - 1)

-----------------------------------------------------------------------------
\* boot_init_mem: the tables.  A region maps consecutive pages to consecutive frames.
Region(v, f, n) == [at |-> v, from |-> f, pages |-> n]

\* Slip: the window is not advanced by the directory's page.
KernelRegionsOverlapping(m) ==
    LET space == StructuresSpace + Entries
    IN  { Region(HighVMA + KernelStart, KernelStart, KernelEnd - KernelStart),
          Region(StructuresSpace, KernelEnd, 1),
          Region(StructuresSpace, KernelEnd + 1, Entries),
          Region(space, BitmapStart, BitmapPages(m)),
          Region(space + BitmapPages(m), StackStart(m), StackPagesMapped(m)) }

KernelRegions(m) ==
    LET space == StructuresSpace + 1 + Entries
    IN  { Region(HighVMA + KernelStart, KernelStart, KernelEnd - KernelStart),
          Region(StructuresSpace, KernelEnd, 1),
          Region(StructuresSpace + 1, KernelEnd + 1, Entries),
          Region(space, BitmapStart, BitmapPages(m)),
          Region(space + BitmapPages(m), StackStart(m), StackPagesMapped(m)) }

\* Mapped at their own addresses: the kernel, the multiboot information and the
\* reserved areas that start below it.
BootRegions(m, info) ==
    {Region(BootVMA, BootVMA, KernelEnd - BootVMA), Region(info, info, 1)}
    \cup {Region(m[i].first, m[i].first, m[i].pages) :
             i \in {j \in DOMAIN m : m[j].type = "reserved" /\ m[j].first < BootVMA}}

BootEntry(v) ==
    LET covers == {r \in KernelRegions(mmap) \cup BootRegions(mmap, mbi) :
                      r.at <= v /\ v < r.at + r.pages}
        r == CHOOSE r \in covers : TRUE
    IN  IF covers = {} THEN NULL ELSE r.from + (v - r.at)

Dir(v) == v \div Entries

ASSUME LayoutAssumption ==
    /\ Entries \in Nat /\ Entries > 0
    /\ TopFrame \in Nat /\ Mbis \subseteq Frames /\ NULL \notin Frames
    /\ {BootVMA, KernelStart, KernelEnd, HighVMA, StructuresSpace, HeapSpace, HeapSize} \subseteq Nat
    /\ BootVMA <= KernelStart /\ KernelStart <= KernelEnd
    /\ HeapSpace + HeapSize <= Entries * Entries
    /\ Drivers \subseteq Pages /\ Terminal \in Pages /\ Cached \subseteq Pages
    /\ Video \in Pages \cap Frames

\* Memory maps list memory once and in order, there is enough of it for what
\* boot_init_mem reserves, and it ends below TopFrame.
ASSUME MapsAssumption ==
    \A m \in Maps :
        /\ m \in Seq(Areas) /\ FrameCount(m) \in Frames
        /\ AllocSpace(m) <= FrameCount(m)
        /\ \A i \in DOMAIN m :
               /\ m[i].pages > 0 => m[i].first + m[i].pages - 1 \in Frames
               /\ IsFree(m[i]) =>
                      /\ m[i].first + m[i].pages <= FrameCount(m) + 1
                      /\ \A j \in DOMAIN m : IsFree(m[j]) /\ i < j =>
                             m[i].first + m[i].pages <= m[j].first

Init ==
    /\ mmap \in Maps
    /\ mbi \in Mbis
    /\ at = "boot"
    /\ area = 1 /\ page = 0 /\ heap = 0
    /\ directory = [d \in 0..(Entries - 1) |-> FALSE]
    /\ entries = [v \in Pages |-> NULL]
    /\ tlb = [v \in Cached |-> NULL]
    /\ stack = <<>>
    /\ status = [f \in Frames |-> "FREE"]
    /\ given = {}

BootInitMem ==
    /\ at = "boot"
    /\ at' = "mapped"
    /\ entries' = [v \in Pages |-> BootEntry(v)]
    /\ directory' = [d \in DOMAIN directory |-> \E v \in Pages : Dir(v) = d /\ entries'[v] # NULL]
    /\ UNCHANGED <<mmap, mbi, loops, tlb, frames>>

-----------------------------------------------------------------------------
\* init_kalloc marks the page of the multiboot information and walks the areas.
InitKalloc ==
    /\ at = "mapped"
    /\ at' = "kalloc"
    /\ status' = [status EXCEPT ![mbi] = "SYSTEM"]
    /\ UNCHANGED <<mmap, mbi, loops, tables, stack, given>>

\* Slip: the last page of an area is left out.
VisitsButLast(a) ==
    IF ~a.high /\ (a.type = "free" \/ (a.type = "reserved" /\ a.first < BootVMA))
    THEN a.pages - 1 ELSE 0

\* How many pages of an area init_kalloc walks.
Visits(a) ==
    IF ~a.high /\ (a.type = "free" \/ (a.type = "reserved" /\ a.first < BootVMA))
    THEN a.pages ELSE 0

\* ms_push
Push(f) == stack' = Append(stack, f)

VisitPage ==
    /\ at = "kalloc" /\ area <= Len(mmap)
    /\ page < Visits(mmap[area])
    /\ page' = page + 1
    /\ LET f == mmap[area].first + page
       IN  IF mmap[area].type = "free" /\ f \notin KernelFrames(mmap)
           THEN Push(f) /\ UNCHANGED status
           ELSE status' = [status EXCEPT ![f] = "SYSTEM"] /\ UNCHANGED stack
    /\ UNCHANGED <<mmap, mbi, at, area, heap, tables, given>>

NextArea ==
    /\ at = "kalloc" /\ area <= Len(mmap)
    /\ page >= Visits(mmap[area])
    /\ area' = area + 1 /\ page' = 0
    /\ UNCHANGED <<mmap, mbi, at, heap, tables, frames>>

KallocDone ==
    /\ at = "kalloc" /\ area > Len(mmap)
    /\ at' = "paging"
    /\ UNCHANGED <<mmap, mbi, loops, tables, frames>>

-----------------------------------------------------------------------------
\* Where a virtual page leads, by the tables and as the processor sees it.
Translate(v) == IF directory[Dir(v)] THEN entries[v] ELSE NULL
Lookup(v) == IF v \in Cached /\ tlb[v] # NULL THEN tlb[v] ELSE Translate(v)

\* Does a write through the window change the directory and table d?
Reaches(d) ==
    /\ Lookup(StructuresSpace) = KernelEnd
    /\ Lookup(StructuresSpace + 1 + d) = KernelEnd + 1 + d

\* Slip: the translation the processor has cached is not dropped.
MapWithoutInvlpg(v, f) ==
    IF Reaches(Dir(v))
    THEN /\ directory' = [directory EXCEPT ![Dir(v)] = TRUE]
         /\ entries' = [entries EXCEPT ![v] = f]
         /\ UNCHANGED tlb
    ELSE UNCHANGED tables

\* map.  A write that leads elsewhere changes no table.
Map(v, f) ==
    IF Reaches(Dir(v))
    THEN /\ directory' = [directory EXCEPT ![Dir(v)] = TRUE]
         /\ entries' = [entries EXCEPT ![v] = f]
         /\ tlb' = [w \in Cached |-> IF w = v THEN NULL ELSE tlb[w]]
    ELSE UNCHANGED tables

\* Slip: the first table is taken out of use but not cleared.
InitPagingKeepsTable ==
    /\ at = "paging"
    /\ at' = "heap"
    /\ directory' = [directory EXCEPT ![0] = FALSE]
    /\ tlb' = [v \in Cached |-> NULL]
    /\ UNCHANGED <<mmap, mbi, loops, entries, frames>>

\* init_paging empties the first table, takes it out of use and reloads the directory.
InitPaging ==
    /\ at = "paging"
    /\ at' = "heap"
    /\ IF Reaches(0)
       THEN /\ entries' = [v \in Pages |-> IF Dir(v) = 0 THEN NULL ELSE entries[v]]
            /\ directory' = [directory EXCEPT ![0] = FALSE]
       ELSE UNCHANGED <<entries, directory>>
    /\ tlb' = [v \in Cached |-> NULL]
    /\ UNCHANGED <<mmap, mbi, loops, frames>>

\* The processor fills its cache while it uses a page.
Access(v) ==
    /\ at \notin {"boot", "panicked"}
    /\ Translate(v) # NULL
    /\ tlb' = [tlb EXCEPT ![v] = Translate(v)]
    /\ UNCHANGED <<mmap, mbi, at, loops, directory, entries, frames>>

-----------------------------------------------------------------------------
Top == stack[Len(stack)]

\* k_alloc, from a stack that is not empty.
KAlloc(s) ==
    /\ stack # <<>>
    /\ stack' = SubSeq(stack, 1, Len(stack) - 1)
    /\ status' = [status EXCEPT ![Top] = s]
    /\ given' = given \cup {Top}

\* k_panic
Panic ==
    /\ at' = "panicked"
    /\ Map(Video, Video)
    /\ UNCHANGED <<mmap, mbi, loops, frames>>

\* One round of init_heap's loop.
InitHeap ==
    /\ at = "heap" /\ heap < HeapSize
    /\ KAlloc("SYSTEM")
    /\ Map(HeapSpace + heap, Top)
    /\ heap' = heap + 1
    /\ UNCHANGED <<mmap, mbi, at, area, page>>

InitTerminal ==
    /\ at = "heap" /\ heap = HeapSize
    /\ at' = "running"
    /\ Map(Terminal, Video)
    /\ UNCHANGED <<mmap, mbi, loops, frames>>

\* ms_pop finds no page: for the heap or for a driver.
OutOfMemory ==
    /\ at = "running" \/ (at = "heap" /\ heap < HeapSize)
    /\ stack = <<>>
    /\ Panic

\* A driver's calls: pages for itself, mapped among the drivers' pages and given
\* back once no page leads to them.
Own == {f \in given : status[f] = "ALLOCATED"}

DriverAlloc ==
    /\ at = "running" /\ Cardinality(Own) < MaxOwn
    /\ KAlloc("ALLOCATED")
    /\ UNCHANGED <<mmap, mbi, at, loops, tables>>

\* kfree
DriverFree(f) ==
    /\ at = "running"
    /\ f \in Own
    /\ \A v \in Pages : Translate(v) # f
    /\ Push(f)
    /\ status' = [status EXCEPT ![f] = "FREE"]
    /\ given' = given \ {f}
    /\ UNCHANGED <<mmap, mbi, at, loops, tables>>

DriverMap(v, f) ==
    /\ at = "running"
    /\ f \in Own
    /\ Map(v, f)
    /\ UNCHANGED <<mmap, mbi, at, loops, frames>>

\* remap, which panics if the old page leads nowhere.
Remap(old, new) ==
    /\ at = "running"
    /\ Translate(old) # NULL
    /\ Map(new, Translate(old))
    /\ UNCHANGED <<mmap, mbi, at, loops, frames>>

RemapPanics(old) ==
    /\ at = "running"
    /\ Translate(old) = NULL
    /\ Panic

Next ==
    \/ BootInitMem \/ InitKalloc \/ VisitPage \/ NextArea \/ KallocDone
    \/ InitPaging \/ InitHeap \/ InitTerminal \/ OutOfMemory
    \/ DriverAlloc
    \/ \E f \in Frames : DriverFree(f) \/ \E v \in Drivers : DriverMap(v, f)
    \/ \E old \in Drivers : RemapPanics(old) \/ \E new \in Drivers : Remap(old, new)
    \/ \E v \in Cached : Access(v)

Spec == Init /\ [][Next]_vars

-----------------------------------------------------------------------------
TypeOK ==
    /\ mmap \in Maps /\ mbi \in Mbis
    /\ at \in {"boot", "mapped", "kalloc", "paging", "heap", "running", "panicked"}
    /\ area \in 1..(Len(mmap) + 1) /\ page \in Nat /\ heap \in 0..HeapSize
    /\ directory \in [0..(Entries - 1) -> BOOLEAN]
    /\ entries \in [Pages -> Frames \cup {NULL}]
    /\ tlb \in [Cached -> Frames \cup {NULL}]
    /\ stack \in Seq(Frames)
    /\ status \in [Frames -> Statuses]
    /\ given \in SUBSET Frames

Stacked(f) == \E i \in 1..Len(stack) : stack[i] = f

\* The frames of free memory that the kernel does not keep for itself.
Spare(m) ==
    {f \in Frames \ KernelFrames(m) :
        \E i \in DOMAIN m :
            IsFree(m[i]) /\ m[i].first <= f /\ f < m[i].first + m[i].pages}

\* mem_map.h: the kernel, the heap, the drivers' pages and the tables have spaces of
\* their own, and what is mapped at its own address lies in the first table.  The
\* frame of the video memory is not memory.
ASSUME SpacesAssumption ==
    /\ KernelEnd <= Entries /\ Entries <= HighVMA /\ HighVMA + KernelEnd <= HeapSpace
    /\ HeapSpace + HeapSize <= StructuresSpace
    /\ \A v \in Drivers \cup {Terminal} : v \in (HeapSpace + HeapSize)..(StructuresSpace - 1)
    /\ Video < Entries /\ Mbis \subseteq 0..(Entries - 1)
    /\ \A m \in Maps :
           /\ StructuresSpace + 1 + Entries + BitmapPages(m) + StackPagesMapped(m) <= Entries * Entries
           /\ Video \notin Spare(m)
           /\ \A i \in DOMAIN m : m[i].type = "reserved" /\ m[i].first < BootVMA =>
                  m[i].first + m[i].pages <= Entries

\* No frame is handed out twice: it is on the stack once or given away, never both,
\* and never one that the kernel, its tables, the bitmap or the stack are in
\* (kernel_kalloc.c:16-21, 35-51; boot_memory_init.c:109).
FramesKeptApart ==
    /\ \A i, j \in 1..Len(stack) : stack[i] = stack[j] => i = j
    /\ \A f \in given : ~Stacked(f)
    /\ \A r \in KernelRegions(mmap) : \A i \in 0..(r.pages - 1) :
           ~Stacked(r.from + i) /\ r.from + i \notin given

\* No memory is lost: what is free and not the kernel's is on the stack or given
\* away (kernel_kalloc.c:10-28).
NoFrameIsLost ==
    at \in {"paging", "heap", "running", "panicked"} =>
        \A f \in Spare(mmap) : Stacked(f) \/ f \in given

\* Every frame that is free and not the kernel's is in exactly one place, from the end of
\* init_kalloc on (kernel_kalloc.c:10-51).
EveryFrameOnce == FramesKeptApart /\ NoFrameIsLost

\* The stack never grows out of the pages mapped for it, although boot_init_mem
\* maps one page less than it reserves; its first word is not used
\* (boot_memory_init.c:32, 84; physical_memory_stack.c:13-16).
StackFits == Len(stack) < Entries * StackPagesMapped(mmap)

\* The kernel, the directory, the tables, the bitmap and the stack stay where the
\* kernel looks for them, whatever is mapped and unmapped
\* (boot_memory_init.c:52-88; virtual_memory_manager.c:46-62, 110-124).
KernelStaysMapped ==
    at # "boot" =>
        \A r \in KernelRegions(mmap) : \A i \in 0..(r.pages - 1) :
            Translate(r.at + i) = r.from + i

\* Every page of the heap has a frame of its own, to which no other page leads, and
\* every field keeps its type (kernel_heap.c:22-25).
HeapIsPrivate ==
    TypeOK /\ (at \in {"heap", "running", "panicked"} =>
        \A i \in 0..(heap - 1) :
            /\ Translate(HeapSpace + i) \in given
            /\ \A v \in Pages : Translate(v) = Translate(HeapSpace + i) => v = HeapSpace + i)

\* The processor never goes on using a translation that the tables no longer have
\* (virtual_memory_manager.c:56-59, 107, 123).
TlbIsCurrent == \A v \in Cached : tlb[v] # NULL => tlb[v] = Translate(v)

\* A call of map or remap changes where one page leads and no other: putting a table
\* back into use does not bring old mappings back
\* (virtual_memory_manager.c:50-54, 101-106, 117-122).
PagesChangeAlone ==
    [][at \notin {"boot", "paging"} =>
          \E v \in Pages : \A w \in Pages \ {v} : Translate(w)' = Translate(w)]_vars

=============================================================================
