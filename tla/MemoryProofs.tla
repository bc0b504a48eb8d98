---------------------------- MODULE MemoryProofs ----------------------------
(***************************************************************************)
(* For any memory map, and tables of any size: no frame is handed out      *)
(* twice, none is lost, the stack of free frames stays inside what is      *)
(* mapped for it, the kernel and the heap keep their pages, and neither    *)
(* the processor's cache nor old table entries ever give a page a mapping  *)
(* that nobody asked for.                                                  *)
(***************************************************************************)
EXTENDS Memory, FiniteSetTheorems, TLAPS

-----------------------------------------------------------------------------
(* Division by Entries.                                                    *)

LEMMA DivBounds ==
    ASSUME NEW a \in Nat, NEW b \in Nat, b > 0
    PROVE  /\ a \div b \in Nat
           /\ b * (a \div b) <= a
           /\ a < b * (a \div b) + b
OBVIOUS

\* A page is in one of the tables.
LEMMA DirInRange == ASSUME NEW v \in Pages PROVE Dir(v) \in 0..(Entries - 1)
<1>1. Entries \in Nat /\ Entries > 0 /\ v \in Nat /\ v < Entries * Entries
  BY LayoutAssumption DEF Pages
<1>2. Dir(v) \in Nat /\ Entries * Dir(v) <= v
  BY <1>1, DivBounds DEF Dir
<1>3. ASSUME Dir(v) >= Entries PROVE FALSE
  <2>1. Entries * Dir(v) >= Entries * Entries
    BY <1>1, <1>2, <1>3
  <2>. QED BY <1>1, <1>2, <2>1
<1>. QED BY <1>1, <1>2, <1>3

\* Rounded up, a quotient is as long as rounded down at least.
LEMMA RoundUpBounds ==
    ASSUME NEW a \in Nat, NEW b \in Nat, b > 0
    PROVE  RoundUp(a, b) \in Nat /\ a \div b <= RoundUp(a, b)
<1> DEFINE q == a \div b
           p == (a + b - 1) \div b
<1>1. q \in Nat /\ b * q <= a
  BY DivBounds
<1>2. a + b - 1 \in Nat
  OBVIOUS
<1>3. p \in Nat /\ a + b - 1 < b * p + b
  BY <1>2, DivBounds
<1>4. ASSUME q > p PROVE FALSE
  <2> HIDE DEF q, p
  <2>1. b * q >= b * p + b
    <3>1. PICK d \in Nat : q = p + 1 + d
      BY <1>1, <1>3, <1>4
    <3>2. b * q = b * p + b + b * d
      BY <1>1, <1>3, <3>1
    <3>3. b * d >= 0
      BY <3>1
    <3>. QED BY <1>1, <1>3, <3>2, <3>3
  <2>. QED BY <1>1, <1>3, <2>1
<1> HIDE DEF q, p
<1>5. q <= p
  BY <1>1, <1>3, <1>4
<1>. QED BY <1>3, <1>5 DEF q, p, RoundUp

\* Where boot_init_mem puts what it reserves.
LEMMA Layout ==
    ASSUME NEW m \in Maps
    PROVE  /\ FrameCount(m) \in Nat /\ FrameCount(m) <= TopFrame
           /\ BitmapPages(m) \in Nat /\ StackPages(m) \in Nat /\ StackPagesMapped(m) \in Nat
           /\ StackPagesMapped(m) <= StackPages(m)
           /\ FrameCount(m) + 1 < Entries * StackPagesMapped(m) + Entries
           /\ Entries \in Nat /\ BootVMA \in Nat /\ KernelEnd \in Nat /\ BootVMA <= KernelEnd
           /\ AllocSpace(m) = KernelEnd + 1 + Entries + BitmapPages(m) + StackPages(m)
           /\ AllocSpace(m) <= FrameCount(m)
<1>1. /\ Entries \in Nat /\ Entries > 0 /\ KernelEnd \in Nat /\ BootVMA \in Nat
      /\ KernelStart \in Nat /\ BootVMA <= KernelStart /\ KernelStart <= KernelEnd /\ TopFrame \in Nat
  BY LayoutAssumption
<1>2. FrameCount(m) \in Nat /\ FrameCount(m) <= TopFrame /\ AllocSpace(m) <= FrameCount(m)
  BY <1>1, MapsAssumption DEF Frames
<1> DEFINE n == FrameCount(m)
<1>3. n \div 4 \in Nat
  BY <1>2, DivBounds
<1>4. BitmapPages(m) \in Nat
  <2>1. 4 * Entries \in Nat /\ 4 * Entries > 0
    BY <1>1
  <2>. QED BY <1>3, <2>1, RoundUpBounds DEF BitmapPages
<1>5. /\ StackPages(m) \in Nat /\ StackPagesMapped(m) <= StackPages(m)
  BY <1>1, <1>2, RoundUpBounds DEF StackPages, StackPagesMapped
<1>6. StackPagesMapped(m) \in Nat /\ n + 1 < Entries * StackPagesMapped(m) + Entries
  BY <1>1, <1>2, DivBounds DEF StackPagesMapped
<1>7. AllocSpace(m) = KernelEnd + 1 + Entries + BitmapPages(m) + StackPages(m)
  BY <1>1, <1>4, <1>5 DEF AllocSpace, StackStart, BitmapStart
<1>. QED BY <1>1, <1>2, <1>4, <1>5, <1>6, <1>7

-----------------------------------------------------------------------------
(* The frames: the stack, what k_alloc has given, and the loop that fills  *)
(* the stack.                                                              *)

Booting == {"boot", "mapped", "kalloc"}
Booted == {"paging", "heap", "running", "panicked"}

Types ==
    /\ mmap \in Maps /\ mbi \in Mbis
    /\ at \in Booting \cup Booted
    /\ area \in Nat \ {0} /\ page \in Nat
    /\ stack \in Seq(Frames)
    /\ given \in SUBSET Frames

\* Does area j hold frame f for allocation?
Holds(j, f) ==
    /\ j \in DOMAIN mmap /\ IsFree(mmap[j])
    /\ mmap[j].first <= f /\ f < mmap[j].first + mmap[j].pages

\* Has the loop of init_kalloc come past frame f?
Passed(f) == \E j \in DOMAIN mmap :
                Holds(j, f) /\ (j < area \/ (j = area /\ f < mmap[j].first + page))

\* What the loop has pushed, and that afterwards nothing is added or lost.
StackFilled ==
    /\ at \in {"boot", "mapped"} => stack = <<>> /\ area = 1 /\ page = 0
    /\ at \in Booting => given = {} /\ \A f \in Frames : Stacked(f) <=> f \notin KernelFrames(mmap) /\ Passed(f)
    /\ at = "kalloc" /\ area <= Len(mmap) => page <= Visits(mmap[area])
    /\ at \in Booted => \A f \in Frames : Stacked(f) \/ f \in given <=> f \in Spare(mmap)

StackedOnce ==
    /\ \A i, j \in 1..Len(stack) : stack[i] = stack[j] => i = j
    /\ \A f \in given : ~Stacked(f)

FrameInv == Types /\ StackFilled /\ StackedOnce

LEMMA SpareHolds ==
    ASSUME NEW f \in Frames
    PROVE  f \in Spare(mmap) <=> f \notin KernelFrames(mmap) /\ \E j \in DOMAIN mmap : Holds(j, f)
BY DEF Spare, Holds

\* The maps are sequences of areas.
LEMMA MapTypes ==
    ASSUME mmap \in Maps
    PROVE  /\ mmap \in Seq(Areas) /\ Len(mmap) \in Nat /\ DOMAIN mmap = 1..Len(mmap)
           /\ \A j \in DOMAIN mmap : mmap[j] \in Areas /\ mmap[j].first \in Nat /\ mmap[j].pages \in Nat
           /\ TopFrame \in Nat
<1>1. mmap \in Seq(Areas) /\ TopFrame \in Nat
  BY MapsAssumption, LayoutAssumption
<1>2. \A a \in Areas : a.first \in Nat /\ a.pages \in Nat
  BY <1>1 DEF Areas, Frames
<1>. QED BY <1>1, <1>2

\* Two areas hold no frame in common.
LEMMA HoldsOnce ==
    ASSUME mmap \in Maps, NEW f \in Frames, NEW i \in DOMAIN mmap, NEW j \in DOMAIN mmap,
           Holds(i, f), Holds(j, f)
    PROVE  i = j
<1>1. \A k, l \in DOMAIN mmap : IsFree(mmap[k]) /\ IsFree(mmap[l]) /\ k < l =>
          mmap[k].first + mmap[k].pages <= mmap[l].first
  BY MapsAssumption
<1>2. f \in Nat
  BY LayoutAssumption DEF Frames
<1>3. /\ i \in Nat /\ j \in Nat
      /\ mmap[i].first \in Nat /\ mmap[i].pages \in Nat
      /\ mmap[j].first \in Nat /\ mmap[j].pages \in Nat
  <2>1. DOMAIN mmap \subseteq Nat
    BY MapTypes
  <2>. QED BY <2>1, MapTypes
<1>4. /\ IsFree(mmap[i]) /\ mmap[i].first <= f /\ f < mmap[i].first + mmap[i].pages
      /\ IsFree(mmap[j]) /\ mmap[j].first <= f /\ f < mmap[j].first + mmap[j].pages
  BY DEF Holds
<1>5. ~(i < j)
  <2>1. i < j => mmap[i].first + mmap[i].pages <= mmap[j].first
    BY <1>1, <1>4
  <2>. QED BY <1>2, <1>3, <1>4, <2>1
<1>6. ~(j < i)
  <2>1. j < i => mmap[j].first + mmap[j].pages <= mmap[i].first
    BY <1>1, <1>4
  <2>. QED BY <1>2, <1>3, <1>4, <2>1
<1>. QED BY <1>3, <1>5, <1>6

LEMMA InitFrames == Init => FrameInv
<1> SUFFICES ASSUME Init PROVE FrameInv
  OBVIOUS
<1>1. Types
  BY DEF Init, Types, Booting, Booted
<1>2. \A f : ~Stacked(f)
  BY DEF Init, Stacked
<1>3. \A f \in Frames : ~Passed(f)
  <2>1. area = 1 /\ page = 0 /\ mmap \in Maps
    BY <1>1 DEF Init, Types
  <2>2. SUFFICES ASSUME NEW f \in Frames, NEW j \in DOMAIN mmap, Holds(j, f),
                        j < area \/ (j = area /\ f < mmap[j].first + page)
                 PROVE  FALSE
    BY DEF Passed
  <2>3. j \in Nat /\ j >= 1 /\ mmap[j].first \in Nat /\ f \in Nat
    <3>1. DOMAIN mmap = 1..Len(mmap) /\ Len(mmap) \in Nat /\ mmap[j].first \in Nat
      BY <2>1, MapTypes
    <3>2. f \in Nat
      BY LayoutAssumption DEF Frames
    <3>. QED BY <3>1, <3>2
  <2>4. mmap[j].first <= f
    BY <2>2 DEF Holds
  <2>. QED BY <2>1, <2>2, <2>3, <2>4
<1>4. StackFilled
  BY <1>2, <1>3 DEF Init, StackFilled, Booting, Booted
<1>5. StackedOnce
  BY <1>2 DEF Init, StackedOnce
<1>. QED BY <1>1, <1>4, <1>5 DEF FrameInv

\* ms_push puts one frame more on the stack.
LEMMA Pushed ==
    ASSUME stack \in Seq(Frames), NEW f \in Frames, Push(f), ~Stacked(f),
           \A i, j \in 1..Len(stack) : stack[i] = stack[j] => i = j
    PROVE  /\ stack' \in Seq(Frames)
           /\ \A g : Stacked(g)' <=> Stacked(g) \/ g = f
           /\ \A i, j \in 1..Len(stack') : stack'[i] = stack'[j] => i = j
<1>1. /\ stack' \in Seq(Frames) /\ Len(stack') = Len(stack) + 1 /\ Len(stack) \in Nat
      /\ \A i \in 1..Len(stack) : stack'[i] = stack[i]
      /\ stack'[Len(stack) + 1] = f
  BY DEF Push
<1>2. \A g : Stacked(g)' <=> Stacked(g) \/ g = f
  BY <1>1 DEF Stacked
<1>3. \A i, j \in 1..Len(stack') : stack'[i] = stack'[j] => i = j
  BY <1>1 DEF Stacked
<1>. QED BY <1>1, <1>2, <1>3

\* ms_pop takes one off.
LEMMA Popped ==
    ASSUME stack \in Seq(Frames), stack # <<>>, stack' = SubSeq(stack, 1, Len(stack) - 1),
           \A i, j \in 1..Len(stack) : stack[i] = stack[j] => i = j
    PROVE  /\ Top \in Frames /\ Stacked(Top)
           /\ stack' \in Seq(Frames)
           /\ \A g : Stacked(g)' <=> Stacked(g) /\ g # Top
           /\ \A i, j \in 1..Len(stack') : stack'[i] = stack'[j] => i = j
<1>1. /\ stack' \in Seq(Frames) /\ Len(stack') = Len(stack) - 1 /\ Len(stack) \in Nat /\ Len(stack) > 0
      /\ \A i \in 1..(Len(stack) - 1) : stack'[i] = stack[i]
  <2>1. Len(stack) \in Nat /\ Len(stack) > 0 /\ \A i \in 1..Len(stack) : stack[i] \in Frames
    OBVIOUS
  <2> DEFINE n == Len(stack) - 1
  <2>2. n \in Nat /\ stack' = SubSeq(stack, 1, n) /\ \A i \in 1..n : i \in 1..Len(stack)
    BY <2>1
  <2> HIDE DEF n
  <2>3. Len(stack') = n /\ \A i \in 1..n : stack'[i] = stack[i]
    BY <2>2
  <2>4. stack' \in Seq(Frames)
    BY <2>1, <2>2
  <2>. QED BY <2>1, <2>3, <2>4 DEF n
<1>2. Top \in Frames /\ Stacked(Top)
  BY <1>1 DEF Top, Stacked
<1>3. \A g : Stacked(g)' <=> Stacked(g) /\ g # Top
  BY <1>1 DEF Stacked, Top
<1>. QED BY <1>1, <1>2, <1>3

\* A step that leaves stack, loop and gifts alone.
LEMMA FramesUntouched ==
    ASSUME FrameInv, UNCHANGED <<mmap, mbi, area, page, stack, given>>,
           at' = at \/ (at \in Booted /\ at' \in Booted)
    PROVE  FrameInv'
<1>1. \A f : (Stacked(f)' <=> Stacked(f)) /\ (Passed(f)' <=> Passed(f))
  BY DEF Stacked, Passed, Holds
<1>2. Types'
  BY DEF FrameInv, Types
<1>3. StackedOnce'
  BY <1>1 DEF FrameInv, StackedOnce
<1>4. StackFilled'
  BY <1>1 DEF FrameInv, StackFilled, Booting, Booted
<1>. QED BY <1>2, <1>3, <1>4 DEF FrameInv

\* boot_init_mem and the start of init_kalloc: nothing is on the stack yet.
LEMMA StartFrames == ASSUME FrameInv, BootInitMem \/ InitKalloc PROVE FrameInv'
<1>1. UNCHANGED <<mmap, mbi, area, page, stack, given>> /\ at \in {"boot", "mapped"}
      /\ at' \in {"mapped", "kalloc"}
  BY DEF BootInitMem, InitKalloc, loops, frames
<1>2. \A f : (Stacked(f)' <=> Stacked(f)) /\ (Passed(f)' <=> Passed(f))
  BY <1>1 DEF Stacked, Passed, Holds
<1>3. Types'
  BY <1>1 DEF FrameInv, Types, Booting
<1>4. StackedOnce'
  BY <1>1, <1>2 DEF FrameInv, StackedOnce
<1>5. page = 0 /\ area = 1 /\ (area <= Len(mmap) => 0 <= Visits(mmap[area]))
  <2>1. page = 0 /\ area = 1
    BY <1>1 DEF FrameInv, StackFilled
  <2>2. area <= Len(mmap) => mmap[area].pages \in Nat
    BY <2>1, MapTypes DEF FrameInv, Types
  <2>. QED BY <2>1, <2>2 DEF Visits
<1>6. StackFilled'
  BY <1>1, <1>2, <1>5 DEF FrameInv, StackFilled, Booting, Booted
<1>. QED BY <1>3, <1>4, <1>6 DEF FrameInv

\* init_kalloc comes past one more page and pushes its frame unless it is the kernel's.
LEMMA VisitPageFrames == ASSUME FrameInv, VisitPage PROVE FrameInv'
<1> DEFINE f == mmap[area].first + page
<1>1. /\ Types /\ StackedOnce /\ given = {} /\ at = "kalloc"
      /\ \A g \in Frames : Stacked(g) <=> g \notin KernelFrames(mmap) /\ Passed(g)
  BY DEF FrameInv, StackFilled, VisitPage, Booting
<1>2. /\ area \in DOMAIN mmap /\ mmap[area] \in Areas
      /\ mmap[area].first \in Nat /\ mmap[area].pages \in Nat
      /\ page \in Nat /\ area \in Nat
  BY <1>1, MapTypes DEF Types, VisitPage
<1>3. page < Visits(mmap[area]) /\ page < mmap[area].pages
  BY <1>2 DEF VisitPage, Visits
<1>4. f \in Frames
  <2>1. mmap[area].first + mmap[area].pages - 1 \in Frames
    BY <1>1, <1>2, <1>3, MapsAssumption DEF Types
  <2>. QED BY <1>2, <1>3, <2>1, MapTypes, <1>1 DEF Frames, Types
<1>5. UNCHANGED <<mmap, mbi, at, area, given>> /\ page' = page + 1
  BY DEF VisitPage
<1>6. ASSUME mmap[area].type = "free" PROVE IsFree(mmap[area]) /\ Holds(area, f)
  <2>1. ~mmap[area].high
    BY <1>2, <1>3 DEF Visits
  <2>. QED BY <1>2, <1>3, <1>6, <2>1 DEF IsFree, Holds
<1>7. \A g \in Frames : Passed(g)' <=> Passed(g) \/ (mmap[area].type = "free" /\ g = f)
  <2> TAKE g \in Frames
  <2>1. g \in Nat
    BY LayoutAssumption DEF Frames
  <2>2. Passed(g)' <=> \E j \in DOMAIN mmap :
           Holds(j, g) /\ (j < area \/ (j = area /\ g < mmap[j].first + page + 1))
    BY <1>2, <1>5 DEF Passed, Holds
  <2>3. Passed(g) => Passed(g)'
    BY <1>2, <2>1, <2>2 DEF Passed
  <2>4. mmap[area].type = "free" /\ g = f => Passed(g)'
    BY <1>2, <1>6, <2>1, <2>2
  <2>5. ASSUME Passed(g)', ~Passed(g) PROVE mmap[area].type = "free" /\ g = f
    <3>1. PICK j \in DOMAIN mmap :
             Holds(j, g) /\ (j < area \/ (j = area /\ g < mmap[j].first + page + 1))
      BY <2>2, <2>5
    <3>2. j = area /\ g < mmap[area].first + page + 1 /\ ~(g < mmap[area].first + page)
      BY <2>5, <3>1 DEF Passed
    <3>3. mmap[area].type = "free"
      BY <3>1, <3>2 DEF Holds, IsFree
    <3>. QED BY <1>2, <2>1, <3>2, <3>3
  <2>. QED BY <2>3, <2>4, <2>5
<1>8. mmap[area].type = "free" => ~Passed(f)
  <2> SUFFICES ASSUME mmap[area].type = "free", Passed(f) PROVE FALSE
    OBVIOUS
  <2>1. PICK j \in DOMAIN mmap : Holds(j, f) /\ (j < area \/ (j = area /\ f < mmap[j].first + page))
    BY DEF Passed
  <2>2. j = area
    BY <1>1, <1>2, <1>4, <1>6, <2>1, HoldsOnce DEF Types
  <2>. QED BY <1>2, <2>1, <2>2
<1>9. page' <= Visits(mmap[area])
  BY <1>2, <1>3, <1>5 DEF Visits
<1> HIDE DEF f
<1>10. CASE mmap[area].type = "free" /\ f \notin KernelFrames(mmap)
  <2>1. Push(f)
    BY <1>10 DEF VisitPage, f
  <2>2. ~Stacked(f)
    BY <1>1, <1>4, <1>8, <1>10
  <2>3. /\ stack' \in Seq(Frames)
        /\ \A g : Stacked(g)' <=> Stacked(g) \/ g = f
        /\ \A i, j \in 1..Len(stack') : stack'[i] = stack'[j] => i = j
    BY <1>1, <1>4, <2>1, <2>2, Pushed DEF Types, StackedOnce
  <2>4. \A g \in Frames : Stacked(g)' <=> g \notin KernelFrames(mmap) /\ Passed(g)'
    BY <1>1, <1>4, <1>7, <1>10, <2>3
  <2>. QED BY <1>1, <1>2, <1>5, <1>9, <2>3, <2>4
           DEF FrameInv, Types, StackFilled, StackedOnce, Booting, Booted
<1>11. CASE ~(mmap[area].type = "free" /\ f \notin KernelFrames(mmap))
  <2>1. stack' = stack
    BY <1>11 DEF VisitPage, f
  <2>2. \A g : Stacked(g)' <=> Stacked(g)
    BY <2>1 DEF Stacked
  <2>3. \A g \in Frames : Stacked(g)' <=> g \notin KernelFrames(mmap) /\ Passed(g)'
    BY <1>1, <1>4, <1>7, <1>11, <2>2
  <2>. QED BY <1>1, <1>2, <1>5, <1>9, <2>1, <2>2, <2>3
           DEF FrameInv, Types, StackFilled, StackedOnce, Booting, Booted
<1>. QED BY <1>10, <1>11

\* The loop goes on with the next area.
LEMMA NextAreaFrames == ASSUME FrameInv, NextArea PROVE FrameInv'
<1>1. /\ Types /\ StackedOnce /\ given = {} /\ at = "kalloc"
      /\ area <= Len(mmap) => page <= Visits(mmap[area])
      /\ \A g \in Frames : Stacked(g) <=> g \notin KernelFrames(mmap) /\ Passed(g)
  BY DEF FrameInv, StackFilled, NextArea, Booting
<1>2. UNCHANGED <<mmap, mbi, at, stack, given>> /\ area' = area + 1 /\ page' = 0
  BY DEF NextArea, frames
<1>3. /\ area \in DOMAIN mmap /\ page = Visits(mmap[area]) /\ area \in Nat
      /\ \A j \in DOMAIN mmap : mmap[j].first \in Nat /\ mmap[j].pages \in Nat /\ j \in Nat
      /\ DOMAIN mmap = 1..Len(mmap) /\ Len(mmap) \in Nat
  <2>1. /\ area \in DOMAIN mmap /\ area \in Nat /\ page \in Nat
        /\ \A j \in DOMAIN mmap : mmap[j].first \in Nat /\ mmap[j].pages \in Nat /\ j \in Nat
        /\ DOMAIN mmap = 1..Len(mmap) /\ Len(mmap) \in Nat
    BY <1>1, MapTypes DEF NextArea, Types
  <2>2. Visits(mmap[area]) \in Nat
    BY <2>1 DEF Visits
  <2>. QED BY <1>1, <2>1, <2>2 DEF NextArea
<1>4. \A g \in Frames : Passed(g)' <=> Passed(g)
  <2> TAKE g \in Frames
  <2>1. g \in Nat
    BY LayoutAssumption DEF Frames
  <2>2. Passed(g)' <=> \E j \in DOMAIN mmap :
           Holds(j, g) /\ (j < area + 1 \/ (j = area + 1 /\ g < mmap[j].first))
    BY <1>2, <1>3 DEF Passed, Holds
  <2>3. \A j \in DOMAIN mmap : Holds(j, g) => g >= mmap[j].first
    BY <1>3, <2>1 DEF Holds
  <2>4. Holds(area, g) => g < mmap[area].first + page
    BY <1>3 DEF Holds, Visits, IsFree
  <2>. QED BY <1>3, <2>1, <2>2, <2>3, <2>4 DEF Passed
<1>5. \A g : Stacked(g)' <=> Stacked(g)
  BY <1>2 DEF Stacked
<1>6. Types'
  BY <1>1, <1>2, <1>3 DEF Types
<1>7. StackedOnce'
  BY <1>1, <1>2, <1>5 DEF StackedOnce
<1>8. area' <= Len(mmap) => 0 <= Visits(mmap[area'])
  BY <1>2, <1>3 DEF Visits
<1>9. StackFilled'
  BY <1>1, <1>2, <1>4, <1>5, <1>8 DEF StackFilled, Booting, Booted
<1>. QED BY <1>6, <1>7, <1>9 DEF FrameInv

\* After the last area the loop has come past every frame of free memory.
LEMMA KallocDoneFrames == ASSUME FrameInv, KallocDone PROVE FrameInv'
<1>1. /\ Types /\ StackedOnce /\ given = {}
      /\ \A g \in Frames : Stacked(g) <=> g \notin KernelFrames(mmap) /\ Passed(g)
  BY DEF FrameInv, StackFilled, KallocDone, Booting
<1>2. UNCHANGED <<mmap, mbi, area, page, stack, given>> /\ at' = "paging"
  BY DEF KallocDone, loops, frames
<1>3. \A g \in Frames : Passed(g) <=> \E j \in DOMAIN mmap : Holds(j, g)
  <2>1. area \in Nat /\ area > Len(mmap) /\ DOMAIN mmap = 1..Len(mmap) /\ Len(mmap) \in Nat
    BY <1>1, MapTypes DEF Types, KallocDone
  <2>. QED BY <2>1 DEF Passed
<1>4. \A g \in Frames : Stacked(g)' \/ g \in given' <=> g \in Spare(mmap)
  BY <1>1, <1>2, <1>3, SpareHolds DEF Stacked
<1>5. Types' /\ StackedOnce'
  BY <1>1, <1>2 DEF Types, StackedOnce, Stacked, Booted
<1>6. StackFilled'
  BY <1>2, <1>4 DEF StackFilled, Booting, Booted
<1>. QED BY <1>5, <1>6 DEF FrameInv

\* k_alloc moves the top of the stack to those who hold pages.
LEMMA KAllocFrames ==
    ASSUME FrameInv, NEW s, KAlloc(s), at \in Booted, UNCHANGED <<mmap, mbi, at, area, page>>
    PROVE  FrameInv'
<1>1. /\ Types /\ StackedOnce
      /\ \A g \in Frames : Stacked(g) \/ g \in given <=> g \in Spare(mmap)
  BY DEF FrameInv, StackFilled
<1>2. given' = given \cup {Top}
  BY DEF KAlloc
<1>3. /\ Top \in Frames /\ Stacked(Top)
      /\ stack' \in Seq(Frames)
      /\ \A g : Stacked(g)' <=> Stacked(g) /\ g # Top
      /\ \A i, j \in 1..Len(stack') : stack'[i] = stack'[j] => i = j
  BY <1>1, Popped DEF KAlloc, Types, StackedOnce
<1> DEFINE f == Top
<1> HIDE DEF f
<1>4. Types'
  BY <1>1, <1>2, <1>3 DEF Types
<1>5. StackedOnce'
  BY <1>1, <1>2, <1>3 DEF StackedOnce
<1>6. \A g \in Frames : Stacked(g)' \/ g \in given' <=> g \in Spare(mmap)
  BY <1>1, <1>2, <1>3
<1>7. StackFilled'
  BY <1>6 DEF StackFilled, Booting, Booted
<1>. QED BY <1>4, <1>5, <1>7 DEF FrameInv

\* kfree moves a frame back.
LEMMA DriverFreeFrames == ASSUME FrameInv, NEW f \in Frames, DriverFree(f) PROVE FrameInv'
<1>1. UNCHANGED <<mmap, mbi, at, area, page>> /\ at = "running" /\ Push(f)
      /\ f \in given /\ given' = given \ {f}
  BY DEF DriverFree, loops, Own
<1>2. /\ Types /\ StackedOnce /\ ~Stacked(f)
      /\ \A g \in Frames : Stacked(g) \/ g \in given <=> g \in Spare(mmap)
  BY <1>1 DEF FrameInv, StackFilled, StackedOnce, Booted
<1>3. /\ stack' \in Seq(Frames)
      /\ \A g : Stacked(g)' <=> Stacked(g) \/ g = f
      /\ \A i, j \in 1..Len(stack') : stack'[i] = stack'[j] => i = j
  BY <1>1, <1>2, Pushed DEF Types, StackedOnce
<1>4. Types'
  BY <1>1, <1>2, <1>3 DEF Types
<1>5. StackedOnce'
  BY <1>1, <1>2, <1>3 DEF StackedOnce
<1>6. \A g \in Frames : Stacked(g)' \/ g \in given' <=> g \in Spare(mmap)
  BY <1>1, <1>2, <1>3
<1>7. StackFilled'
  BY <1>1, <1>6 DEF StackFilled, Booting, Booted
<1>. QED BY <1>4, <1>5, <1>7 DEF FrameInv

\* Every step keeps the frames' invariant.
LEMMA NextFrames == FrameInv /\ [Next]_vars => FrameInv'
<1> SUFFICES ASSUME FrameInv, [Next]_vars PROVE FrameInv'
  OBVIOUS
<1> USE DEF Booted, loops, tables, frames
<1>1. CASE BootInitMem \/ InitKalloc
  BY <1>1, StartFrames
<1>2. CASE VisitPage
  BY <1>2, VisitPageFrames
<1>3. CASE NextArea
  BY <1>3, NextAreaFrames
<1>4. CASE KallocDone
  BY <1>4, KallocDoneFrames
<1>5. CASE InitPaging \/ InitTerminal
  BY <1>5, FramesUntouched DEF InitPaging, InitTerminal
<1>6. CASE InitHeap
  BY <1>6, KAllocFrames DEF InitHeap
<1>7. CASE OutOfMemory
  BY <1>7, FramesUntouched DEF OutOfMemory, Panic
<1>8. CASE DriverAlloc
  BY <1>8, KAllocFrames DEF DriverAlloc
<1>9. ASSUME NEW f \in Frames, DriverFree(f) PROVE FrameInv'
  BY <1>9, DriverFreeFrames
<1>10. ASSUME NEW f \in Frames, NEW v \in Drivers, DriverMap(v, f) PROVE FrameInv'
  BY <1>10, FramesUntouched DEF DriverMap
<1>11. ASSUME NEW old \in Drivers, RemapPanics(old) PROVE FrameInv'
  BY <1>11, FramesUntouched DEF RemapPanics, Panic
<1>12. ASSUME NEW old \in Drivers, NEW new \in Drivers, Remap(old, new) PROVE FrameInv'
  BY <1>12, FramesUntouched DEF Remap
<1>13. ASSUME NEW v \in Cached, Access(v) PROVE FrameInv'
  BY <1>13, FramesUntouched DEF Access
<1>14. CASE UNCHANGED vars
  BY <1>14, FramesUntouched DEF vars
<1>. QED BY <1>1, <1>2, <1>3, <1>4, <1>5, <1>6, <1>7, <1>8, <1>9, <1>10, <1>11, <1>12,
            <1>13, <1>14 DEF Next

LEMMA FramesInvariant == Spec => []FrameInv
BY InitFrames, NextFrames, PTL DEF Spec

\* A frame on the stack or given away is free memory below FrameCount, and not the kernel's.
LEMMA AvailableFrames ==
    ASSUME FrameInv, NEW f, Stacked(f) \/ f \in given
    PROVE  f \in Frames /\ f \in Nat /\ f \notin KernelFrames(mmap) /\ f <= FrameCount(mmap)
<1>1. Types /\ StackFilled
  BY DEF FrameInv
<1>2. f \in Frames /\ f \in Nat
  <2>1. f \in Frames
    BY <1>1 DEF Types, Stacked
  <2>. QED BY <2>1, LayoutAssumption DEF Frames
<1>3. f \notin KernelFrames(mmap) /\ \E j \in DOMAIN mmap : Holds(j, f)
  <2>1. CASE at \in Booting
    BY <1>1, <1>2, <2>1 DEF StackFilled, Passed
  <2>2. CASE at \in Booted
    BY <1>1, <1>2, <2>2, SpareHolds DEF StackFilled
  <2>. QED BY <1>1, <2>1, <2>2 DEF Types
<1>4. PICK j \in DOMAIN mmap : Holds(j, f)
  BY <1>3
<1>5. /\ mmap \in Maps /\ mmap[j].first \in Nat /\ mmap[j].pages \in Nat
      /\ FrameCount(mmap) \in Nat
  BY <1>1, MapTypes, Layout DEF Types
<1>6. mmap[j].first + mmap[j].pages <= FrameCount(mmap) + 1
  BY <1>4, <1>5, MapsAssumption DEF Holds
<1>. QED BY <1>2, <1>3, <1>4, <1>5, <1>6 DEF Holds

\* The frames to which the kernel's regions lead are kept off the stack.
LEMMA RegionsInKernelFrames ==
    ASSUME NEW m \in Maps, NEW r \in KernelRegions(m), NEW i \in 0..(r.pages - 1)
    PROVE  r.from + i \in KernelFrames(m)
<1>1. /\ KernelStart \in Nat /\ BootVMA <= KernelStart /\ KernelStart <= KernelEnd
  BY LayoutAssumption
<1>2. /\ BitmapPages(m) \in Nat /\ StackPages(m) \in Nat /\ StackPagesMapped(m) \in Nat
      /\ StackPagesMapped(m) <= StackPages(m)
      /\ Entries \in Nat /\ BootVMA \in Nat /\ KernelEnd \in Nat /\ BootVMA <= KernelEnd
      /\ AllocSpace(m) = KernelEnd + 1 + Entries + BitmapPages(m) + StackPages(m)
  BY Layout
<1>3. /\ BitmapStart = KernelEnd + 1 + Entries
      /\ StackStart(m) = KernelEnd + 1 + Entries + BitmapPages(m)
  BY DEF BitmapStart, StackStart
<1>4. \/ r.from = KernelStart /\ r.pages = KernelEnd - KernelStart
      \/ r.from = KernelEnd /\ r.pages = 1
      \/ r.from = KernelEnd + 1 /\ r.pages = Entries
      \/ r.from = BitmapStart /\ r.pages = BitmapPages(m)
      \/ r.from = StackStart(m) /\ r.pages = StackPagesMapped(m)
  BY DEF KernelRegions, Region
<1>5. i \in Int /\ 0 <= i /\ i <= r.pages - 1
  BY <1>1, <1>2, <1>4
<1>6. BootVMA <= r.from + i /\ r.from + i < AllocSpace(m) /\ r.from + i \in Int
  BY <1>1, <1>2, <1>3, <1>4, <1>5
<1>. QED BY <1>2, <1>6 DEF KernelFrames

\* No frame is handed out twice, and none that the kernel, the page tables, the bitmap
\* or the stack itself are in, whatever the memory map and however pages are allocated
\* and freed (kernel_kalloc.c:8-51).
THEOREM NoFrameTwice == Spec => []FramesKeptApart
<1>1. ASSUME FrameInv PROVE FramesKeptApart
  <2>1. StackedOnce /\ mmap \in Maps
    BY <1>1 DEF FrameInv, Types
  <2>2. \A r \in KernelRegions(mmap) : \A i \in 0..(r.pages - 1) :
           ~Stacked(r.from + i) /\ r.from + i \notin given
    BY <1>1, <2>1, RegionsInKernelFrames, AvailableFrames
  <2>. QED BY <2>1, <2>2 DEF StackedOnce, FramesKeptApart
<1>. QED BY <1>1, FramesInvariant, PTL

\* All free memory but the kernel's stays available: the loop of init_kalloc misses no
\* frame, and k_alloc and kfree lose none (kernel_kalloc.c:8-51).
THEOREM NoFrameLost == Spec => []NoFrameIsLost
<1>1. FrameInv => NoFrameIsLost
  BY DEF FrameInv, StackFilled, NoFrameIsLost, Booted, Spare
<1>. QED BY <1>1, FramesInvariant, PTL

\* Every free frame is in one place, the stack or its owner's hands.
THEOREM FramesAreKept == Spec => []EveryFrameOnce
<1>1. FramesKeptApart /\ NoFrameIsLost => EveryFrameOnce
  BY DEF EveryFrameOnce
<1>. QED BY <1>1, NoFrameTwice, NoFrameLost, PTL

\* There are at most as many frames on the stack as lie outside the kernel's.
LEMMA StackCount ==
    ASSUME FrameInv
    PROVE  Len(stack) <= FrameCount(mmap) + 1 - (AllocSpace(mmap) - BootVMA)
<1> DEFINE kept == AllocSpace(mmap) - BootVMA
           last == FrameCount(mmap) - kept
           Slot(f) == IF f < BootVMA THEN f ELSE f - kept
           slots == [i \in 1..Len(stack) |-> Slot(stack[i])]
<1>1. /\ StackedOnce /\ stack \in Seq(Frames) /\ Len(stack) \in Nat /\ mmap \in Maps
  BY DEF FrameInv, Types
<1>2. /\ AllocSpace(mmap) \in Nat /\ BootVMA \in Nat /\ FrameCount(mmap) \in Nat
      /\ BootVMA <= AllocSpace(mmap) /\ AllocSpace(mmap) <= FrameCount(mmap)
  BY <1>1, Layout
<1>3. \A i \in 1..Len(stack) :
         /\ stack[i] \in Nat /\ stack[i] <= FrameCount(mmap)
         /\ stack[i] < BootVMA \/ stack[i] >= AllocSpace(mmap)
  <2> TAKE i \in 1..Len(stack)
  <2>1. Stacked(stack[i])
    BY DEF Stacked
  <2>2. stack[i] \in Nat /\ stack[i] <= FrameCount(mmap) /\ stack[i] \notin KernelFrames(mmap)
    BY <2>1, AvailableFrames
  <2>. QED BY <1>2, <2>2 DEF KernelFrames
<1>4. kept \in Nat /\ last \in Nat
  BY <1>2
<1>5. slots \in [1..Len(stack) -> 0..last]
  BY <1>2, <1>3
<1>6. \A i, j \in 1..Len(stack) : slots[i] = slots[j] => i = j
  <2> TAKE i, j \in 1..Len(stack)
  <2>1. Slot(stack[i]) = Slot(stack[j]) => stack[i] = stack[j]
    BY <1>2, <1>3
  <2>. QED BY <1>1, <2>1 DEF StackedOnce
<1>7. /\ IsFiniteSet(1..Len(stack)) /\ Cardinality(1..Len(stack)) = Len(stack)
      /\ IsFiniteSet(0..last) /\ Cardinality(0..last) = last + 1
  <2> HIDE DEF last
  <2>1. 0 \in Int /\ 1 \in Int /\ last \in Int /\ Len(stack) \in Int
    BY <1>1, <1>4
  <2>2. /\ IsFiniteSet(1..Len(stack))
        /\ Cardinality(1..Len(stack)) = IF 1 > Len(stack) THEN 0 ELSE Len(stack) - 1 + 1
    BY <2>1, FS_Interval
  <2>3. /\ IsFiniteSet(0..last)
        /\ Cardinality(0..last) = IF 0 > last THEN 0 ELSE last - 0 + 1
    BY <2>1, FS_Interval
  <2>. QED BY <1>1, <1>4, <2>2, <2>3
<1> HIDE DEF last, slots
<1>8. ~(last + 1 < Len(stack))
  <2>1. SUFFICES ASSUME Cardinality(0..last) < Cardinality(1..Len(stack)) PROVE FALSE
    BY <1>7
  <2>2. \E i, j \in 1..Len(stack) : i # j /\ slots[i] = slots[j]
    BY <1>5, <1>7, <2>1, FS_PigeonHole
  <2>. QED BY <1>6, <2>2
<1>. QED BY <1>1, <1>2, <1>4, <1>8 DEF last

\* boot_init_mem maps one page less for the stack than it may need, but as many frames
\* as page tables, and one for the directory, never get on it: the words of the missing
\* page are never used (boot_memory_init.c:32, 84; physical_memory_stack.c:13-16).
THEOREM StackStaysMapped == Spec => []StackFits
<1>1. ASSUME FrameInv PROVE StackFits
  <2> DEFINE n == FrameCount(mmap)
             q == StackPagesMapped(mmap)
             top == Entries * q
  <2>1. mmap \in Maps /\ Len(stack) \in Nat
    BY <1>1 DEF FrameInv, Types
  <2>2. /\ n \in Nat /\ q \in Nat /\ Entries \in Nat /\ n + 1 < top + Entries
        /\ BitmapPages(mmap) \in Nat /\ StackPages(mmap) \in Nat
        /\ BootVMA \in Nat /\ KernelEnd \in Nat /\ BootVMA <= KernelEnd
        /\ AllocSpace(mmap) = KernelEnd + 1 + Entries + BitmapPages(mmap) + StackPages(mmap)
    BY <2>1, Layout
  <2>3. top \in Nat
    BY <2>2
  <2>4. Len(stack) <= n + 1 - (AllocSpace(mmap) - BootVMA)
    BY <1>1, StackCount
  <2> HIDE DEF n, top, q
  <2>5. Len(stack) < top
    BY <2>1, <2>2, <2>3, <2>4
  <2>. QED BY <2>5 DEF StackFits, top, q
<1>. QED BY <1>1, FramesInvariant, PTL

-----------------------------------------------------------------------------
(* The tables and the processor's cache.                                   *)

\* A table that is out of use is empty, so that Translate only reads entries.
NoOldEntries == \A v \in Pages : entries[v] # NULL => directory[Dir(v)]

TableTypes ==
    /\ directory \in [0..(Entries - 1) -> BOOLEAN]
    /\ entries = [v \in Pages |-> entries[v]]
    /\ tlb = [v \in Cached |-> tlb[v]]
    /\ heap \in 0..HeapSize
    /\ at = "boot" => \A v \in Cached : tlb[v] = NULL

TableInv == TableTypes /\ NoOldEntries /\ TlbIsCurrent

LEMMA TranslateIsEntry ==
    ASSUME NoOldEntries, NEW v \in Pages
    PROVE  Translate(v) = entries[v]
BY DEF NoOldEntries, Translate

\* Only page v may lead elsewhere after the step.
Alone(v) == \A w \in Pages \ {v} : Translate(w)' = Translate(w)

LEMMA InitTables == Init => TableInv
BY LayoutAssumption DEF Init, TableInv, TableTypes, NoOldEntries, TlbIsCurrent

\* map puts one table into use, which is empty or already in use, and sets one entry.
LEMMA MapStep ==
    ASSUME TableInv, NEW v \in Pages, NEW f, Map(v, f),
           heap' \in 0..HeapSize, at' # "boot"
    PROVE  TableInv' /\ Alone(v)
<1>1. TableTypes /\ NoOldEntries /\ TlbIsCurrent
  BY DEF TableInv
<1>2. CASE Reaches(Dir(v))
  <2>1. /\ directory' = [directory EXCEPT ![Dir(v)] = TRUE]
        /\ entries' = [entries EXCEPT ![v] = f]
        /\ tlb' = [w \in Cached |-> IF w = v THEN NULL ELSE tlb[w]]
    BY <1>2 DEF Map
  <2>2. \A w \in Pages : Dir(w) \in 0..(Entries - 1)
    BY DirInRange
  <2>3. TableTypes'
    BY <1>1, <2>1, <2>2 DEF TableTypes
  <2>4. /\ entries'[v] = f /\ directory'[Dir(v)]
        /\ \A w \in Pages \ {v} : entries'[w] = entries[w]
        /\ \A w \in Pages : directory[Dir(w)] => directory'[Dir(w)]
    BY <1>1, <2>1, <2>2 DEF TableTypes
  <2>5. NoOldEntries'
    BY <1>1, <2>4 DEF NoOldEntries
  <2>6. \A w \in Pages : Translate(w)' = entries'[w]
    BY <2>5 DEF NoOldEntries, Translate
  <2>7. Alone(v)
    BY <1>1, <2>4, <2>6, TranslateIsEntry DEF Alone
  <2>8. TlbIsCurrent'
    BY <1>1, <2>1, <2>7, LayoutAssumption DEF TlbIsCurrent, Alone
  <2>. QED BY <2>3, <2>5, <2>7, <2>8 DEF TableInv
<1>3. CASE ~Reaches(Dir(v))
  <2>1. UNCHANGED <<directory, entries, tlb>>
    BY <1>3 DEF Map, tables
  <2>. QED BY <1>1, <2>1 DEF TableInv, TableTypes, NoOldEntries, TlbIsCurrent, Alone, Translate
<1>. QED BY <1>2, <1>3

\* A step that leaves tables and cache alone.
LEMMA TablesUntouched ==
    ASSUME TableInv, UNCHANGED <<directory, entries, tlb, heap>>,
           at' = at \/ at' # "boot"
    PROVE  TableInv' /\ \A v \in Pages : Alone(v)
BY DEF TableInv, TableTypes, NoOldEntries, TlbIsCurrent, Alone, Translate

LEMMA BootTables == ASSUME TableInv, BootInitMem PROVE TableInv'
<1>1. /\ entries' = [v \in Pages |-> BootEntry(v)]
      /\ directory' = [d \in DOMAIN directory |-> \E v \in Pages : Dir(v) = d /\ entries'[v] # NULL]
      /\ tlb' = tlb /\ heap' = heap /\ at = "boot" /\ at' # "boot"
      /\ DOMAIN directory = 0..(Entries - 1)
  BY DEF BootInitMem, loops, TableInv, TableTypes
<1>2. NoOldEntries'
  BY <1>1, DirInRange DEF NoOldEntries
<1>3. \A v \in Cached : tlb'[v] = NULL
  BY <1>1 DEF TableInv, TableTypes
<1>4. TlbIsCurrent'
  BY <1>3 DEF TlbIsCurrent
<1>5. TableTypes'
  BY <1>1 DEF TableInv, TableTypes
<1>. QED BY <1>2, <1>4, <1>5 DEF TableInv

\* init_paging empties the table that it takes out of use.
LEMMA InitPagingTables == ASSUME TableInv, InitPaging PROVE TableInv'
<1>1. TableTypes /\ NoOldEntries
  BY DEF TableInv
<1>2. tlb' = [v \in Cached |-> NULL] /\ heap' = heap /\ at' # "boot"
  BY DEF InitPaging, loops
<1>3. TlbIsCurrent'
  BY <1>2 DEF TlbIsCurrent
<1>4. TableTypes' /\ NoOldEntries'
  <2>1. CASE Reaches(0)
    <3>1. /\ entries' = [v \in Pages |-> IF Dir(v) = 0 THEN NULL ELSE entries[v]]
          /\ directory' = [directory EXCEPT ![0] = FALSE]
      BY <2>1 DEF InitPaging
    <3>2. \A v \in Pages : Dir(v) \in 0..(Entries - 1)
      BY DirInRange
    <3>3. TableTypes'
      BY <1>1, <1>2, <3>1 DEF TableTypes
    <3>4. NoOldEntries'
      BY <1>1, <3>1, <3>2 DEF NoOldEntries, TableTypes
    <3>. QED BY <3>3, <3>4
  <2>2. CASE ~Reaches(0)
    <3>1. UNCHANGED <<entries, directory>>
      BY <2>2 DEF InitPaging
    <3>. QED BY <1>1, <1>2, <3>1 DEF TableTypes, NoOldEntries
  <2>. QED BY <2>1, <2>2
<1>. QED BY <1>3, <1>4 DEF TableInv

\* The processor caches what the tables say.
LEMMA AccessTables ==
    ASSUME TableInv, NEW v \in Cached, Access(v)
    PROVE  TableInv' /\ \A w \in Pages : Alone(w)
<1>1. TableTypes /\ NoOldEntries /\ TlbIsCurrent
  BY DEF TableInv
<1>2. /\ tlb' = [tlb EXCEPT ![v] = Translate(v)]
      /\ UNCHANGED <<directory, entries, heap, at>> /\ at # "boot"
  BY DEF Access, loops
<1>3. TlbIsCurrent'
  BY <1>1, <1>2 DEF TlbIsCurrent, TableTypes, Translate
<1>. QED BY <1>1, <1>2, <1>3 DEF TableInv, TableTypes, NoOldEntries, Alone, Translate

\* Every step keeps the invariant, and but for boot_init_mem and init_paging changes
\* at most one page.
LEMMA NextTables ==
    ASSUME TableInv, [Next]_vars
    PROVE  TableInv' /\ (at \notin {"boot", "paging"} => \E v \in Pages : Alone(v))
<1> USE DEF loops, tables, frames
<1>1. \E v : v \in Pages
  BY LayoutAssumption
<1>2. CASE BootInitMem
  BY <1>2, BootTables DEF BootInitMem
<1>3. CASE InitPaging
  BY <1>3, InitPagingTables DEF InitPaging
<1>4. CASE InitKalloc \/ VisitPage \/ NextArea \/ KallocDone \/ DriverAlloc
  <2>1. UNCHANGED <<directory, entries, tlb, heap>> /\ (at' = at \/ at' # "boot")
    BY <1>4 DEF InitKalloc, VisitPage, NextArea, KallocDone, DriverAlloc
  <2>. QED BY <1>1, <2>1, TablesUntouched
<1>5. CASE InitHeap
  <2>1. heap \in Nat /\ HeapSize \in Nat /\ heap < HeapSize /\ heap' = heap + 1
    BY <1>5, LayoutAssumption DEF InitHeap, TableInv, TableTypes
  <2>2. HeapSpace + heap \in Pages
    BY <2>1, LayoutAssumption DEF Pages
  <2>3. heap' \in 0..HeapSize
    BY <2>1
  <2>4. at' # "boot"
    BY <1>5 DEF InitHeap
  <2>. QED BY <1>5, <2>2, <2>3, <2>4, MapStep DEF InitHeap
<1>6. heap \in 0..HeapSize
  BY DEF TableInv, TableTypes
<1>7. CASE InitTerminal
  BY <1>6, <1>7, MapStep, LayoutAssumption DEF InitTerminal
<1>8. CASE Panic
  BY <1>6, <1>8, MapStep, LayoutAssumption DEF Panic
<1>9. ASSUME NEW f \in Frames, DriverFree(f) PROVE TableInv' /\ \E v \in Pages : Alone(v)
  <2>1. UNCHANGED <<directory, entries, tlb, heap, at>>
    BY <1>9 DEF DriverFree
  <2>. QED BY <1>1, <2>1, TablesUntouched
<1>10. ASSUME NEW f \in Frames, NEW v \in Drivers, DriverMap(v, f)
       PROVE  TableInv' /\ \E w \in Pages : Alone(w)
  BY <1>6, <1>10, MapStep, LayoutAssumption DEF DriverMap
<1>11. ASSUME NEW old \in Drivers, NEW new \in Drivers, Remap(old, new)
       PROVE  TableInv' /\ \E v \in Pages : Alone(v)
  BY <1>6, <1>11, MapStep, LayoutAssumption DEF Remap
<1>12. ASSUME NEW v \in Cached, Access(v) PROVE TableInv' /\ \E w \in Pages : Alone(w)
  BY <1>1, <1>12, AccessTables
<1>13. CASE UNCHANGED vars
  BY <1>1, <1>13, TablesUntouched DEF vars
<1>14. CASE OutOfMemory \/ \E old \in Drivers : RemapPanics(old)
  BY <1>8, <1>14 DEF OutOfMemory, RemapPanics
<1>. QED BY <1>2, <1>3, <1>4, <1>5, <1>7, <1>9, <1>10, <1>11, <1>12, <1>13, <1>14 DEF Next

LEMMA TablesInvariant == Spec => []TableInv
<1>1. TableInv /\ [Next]_vars => TableInv'
  BY NextTables
<1>. QED BY <1>1, InitTables, PTL DEF Spec

\* The processor never uses a translation that the tables have given up: every change of
\* an entry is followed by invlpg or a reload of the directory
\* (virtual_memory_manager.c:56-59, 107, 123).
THEOREM CacheIsCurrent == Spec => []TlbIsCurrent
<1>1. TableInv => TlbIsCurrent
  BY DEF TableInv
<1>. QED BY <1>1, TablesInvariant, PTL

\* map, remap and k_panic change where one page leads and no other, also when they put
\* the first table back into use (virtual_memory_manager.c:50-54, 101-106, 117-122).
THEOREM MappingsAreIndependent == Spec => PagesChangeAlone
<1>1. TableInv /\ [Next]_vars =>
        [at \notin {"boot", "paging"} =>
            \E v \in Pages : \A w \in Pages \ {v} : Translate(w)' = Translate(w)]_vars
  BY NextTables DEF Alone
<1>. QED BY <1>1, TablesInvariant, PTL DEF Spec, PagesChangeAlone

-----------------------------------------------------------------------------
(* Who may be mapped where.                                                *)

\* A page at which the kernel looks for itself, the directory, the tables, the
\* bitmap or the stack.
KernelPage(v) == \E r \in KernelRegions(mmap) : r.at <= v /\ v < r.at + r.pages

\* A page that init_heap has mapped.
HeapPage(v) == \E i \in 0..(heap - 1) : v = HeapSpace + i

Starting == {"mapped", "kalloc", "paging"}
Started == {"heap", "running", "panicked"}

KernelKept ==
    at # "boot" =>
        \A r \in KernelRegions(mmap) : \A i \in 0..(r.pages - 1) : entries[r.at + i] = r.from + i

\* Until init_paging the kernel's pages and the first table are mapped; then the
\* kernel's, the heap's, and what drivers map: own pages and the video memory.
OthersApart ==
    /\ at \in Starting => \A v \in Pages : entries[v] # NULL => KernelPage(v) \/ v < Entries
    /\ at \in Started => \A v \in Pages : entries[v] # NULL =>
           \/ KernelPage(v) \/ HeapPage(v)
           \/ /\ at # "heap" /\ v \in Drivers \cup {Terminal, Video}
              /\ entries[v] \in Own \cup {Video}

HeapKept ==
    /\ at \notin Started => heap = 0
    /\ \A i \in 0..(heap - 1) :
           entries[HeapSpace + i] \in given /\ status[entries[HeapSpace + i]] = "SYSTEM"
    /\ \A i, j \in 0..(heap - 1) : entries[HeapSpace + i] = entries[HeapSpace + j] => i = j

SpaceInv == TypeOK /\ KernelKept /\ OthersApart /\ HeapKept

\* The first table is that of the pages below Entries.
LEMMA FirstTable == ASSUME NEW v \in Pages PROVE Dir(v) = 0 <=> v < Entries
<1>1. Entries \in Nat /\ Entries > 0 /\ v \in Nat
  BY LayoutAssumption DEF Pages
<1>2. Dir(v) \in Nat /\ Entries * Dir(v) <= v /\ v < Entries * Dir(v) + Entries
  BY <1>1, DivBounds DEF Dir
<1>3. ASSUME v < Entries, Dir(v) # 0 PROVE FALSE
  <2>1. Entries * Dir(v) >= Entries
    <3>1. PICK d \in Nat : Dir(v) = 1 + d
      BY <1>2, <1>3
    <3>2. Entries * Dir(v) = Entries + Entries * d /\ Entries * d \in Nat
      BY <1>1, <3>1
    <3>. QED BY <1>1, <3>2
  <2>. QED BY <1>1, <1>2, <1>3, <2>1
<1>4. Dir(v) = 0 => v < Entries
  BY <1>1, <1>2
<1>. QED BY <1>3, <1>4

\* Where the kernel's regions are, one behind the other.
LEMMA KernelLayout ==
    ASSUME NEW m \in Maps
    PROVE  /\ {Entries, KernelStart, KernelEnd, HighVMA, HeapSpace, HeapSize, StructuresSpace,
               BitmapPages(m), StackPagesMapped(m), Video, BootVMA} \subseteq Nat
           /\ Entries * Entries \in Nat /\ Entries > 0
           /\ BitmapStart = KernelEnd + 1 + Entries
           /\ StackStart(m) = KernelEnd + 1 + Entries + BitmapPages(m)
           /\ KernelStart <= KernelEnd /\ KernelEnd <= Entries /\ Entries <= HighVMA
           /\ HighVMA + KernelEnd <= HeapSpace /\ HeapSpace + HeapSize <= StructuresSpace
           /\ StructuresSpace + 1 + Entries + BitmapPages(m) + StackPagesMapped(m) <= Entries * Entries
           /\ Video < Entries
           /\ \A v \in Drivers \cup {Terminal} :
                  v \in Nat /\ HeapSpace + HeapSize <= v /\ v < StructuresSpace
<1>1. /\ Entries \in Nat /\ Entries > 0 /\ TopFrame \in Nat /\ KernelStart <= KernelEnd
      /\ {BootVMA, KernelStart, KernelEnd, HighVMA, StructuresSpace, HeapSpace, HeapSize} \subseteq Nat
      /\ Video \in Frames
  BY LayoutAssumption
<1>2. BitmapPages(m) \in Nat /\ StackPagesMapped(m) \in Nat
  BY Layout
<1>3. BitmapStart = KernelEnd + 1 + Entries /\ StackStart(m) = KernelEnd + 1 + Entries + BitmapPages(m)
  BY DEF BitmapStart, StackStart
<1>4. Video \in Nat
  BY <1>1 DEF Frames
<1>5. Entries * Entries \in Nat
  BY <1>1
<1>6. \A v \in Drivers \cup {Terminal} : v \in Nat /\ HeapSpace + HeapSize <= v /\ v < StructuresSpace
  BY <1>1, SpacesAssumption
<1>. QED BY <1>1, <1>2, <1>3, <1>4, <1>5, <1>6, SpacesAssumption

LEMMA KernelRegionCases ==
    ASSUME NEW m \in Maps, NEW r \in KernelRegions(m)
    PROVE  \/ /\ r.at = HighVMA + KernelStart /\ r.from = KernelStart
              /\ r.pages = KernelEnd - KernelStart
           \/ r.at = StructuresSpace /\ r.from = KernelEnd /\ r.pages = 1
           \/ r.at = StructuresSpace + 1 /\ r.from = KernelEnd + 1 /\ r.pages = Entries
           \/ /\ r.at = StructuresSpace + 1 + Entries /\ r.from = KernelEnd + 1 + Entries
              /\ r.pages = BitmapPages(m)
           \/ /\ r.at = StructuresSpace + 1 + Entries + BitmapPages(m)
              /\ r.from = KernelEnd + 1 + Entries + BitmapPages(m)
              /\ r.pages = StackPagesMapped(m)
BY KernelLayout DEF KernelRegions, Region

\* The kernel's pages keep clear of the first table, the heap and the drivers.
LEMMA KernelPlaces ==
    ASSUME NEW m \in Maps, NEW r \in KernelRegions(m), NEW i \in 0..(r.pages - 1)
    PROVE  /\ r.at \in Nat /\ r.from \in Nat /\ r.pages \in Nat /\ i \in Nat
           /\ r.at + i \in Pages /\ r.from + i \in Frames /\ r.at + i >= Entries
           /\ r.at + i < HeapSpace \/ r.at + i >= StructuresSpace
           /\ r.at + i \notin Drivers \cup {Terminal, Video}
<1>1. r.at \in Nat /\ r.from \in Nat /\ r.pages \in Nat
  BY KernelLayout, KernelRegionCases
<1>2. i \in Nat /\ i < r.pages
  BY <1>1
<1>3. /\ r.at + i >= Entries
      /\ r.at + i < HeapSpace \/ r.at + i >= StructuresSpace
      /\ r.at + i < Entries * Entries
  BY <1>1, <1>2, KernelLayout, KernelRegionCases
<1>4. r.from + i \in Frames
  <2>1. AllocSpace(m) <= FrameCount(m) /\ FrameCount(m) <= TopFrame /\ TopFrame \in Nat
        /\ FrameCount(m) \in Nat /\ AllocSpace(m) \in Int /\ BootVMA \in Nat
    BY Layout, LayoutAssumption
  <2>2. r.from + i < AllocSpace(m) /\ r.from + i \in Nat
    BY <1>1, <1>2, <2>1, RegionsInKernelFrames DEF KernelFrames
  <2>. QED BY <2>1, <2>2 DEF Frames
<1>5. r.at + i \in Pages
  BY <1>1, <1>2, <1>3, KernelLayout DEF Pages
<1>6. r.at + i \notin Drivers \cup {Terminal, Video}
  BY <1>1, <1>2, <1>3, KernelLayout
<1>. QED BY <1>1, <1>2, <1>3, <1>4, <1>5, <1>6

\* A page of two of the kernel's regions leads to the same frame by both.
LEMMA KernelRegionsAgree ==
    ASSUME NEW m \in Maps, NEW r \in KernelRegions(m), NEW s \in KernelRegions(m), NEW v \in Nat,
           r.at <= v, v < r.at + r.pages, s.at <= v, v < s.at + s.pages
    PROVE  r.from + (v - r.at) = s.from + (v - s.at)
<1>1. r.at - r.from = s.at - s.from
  BY KernelLayout, KernelRegionCases
<1>2. r.at \in Nat /\ r.from \in Nat /\ s.at \in Nat /\ s.from \in Nat
  BY KernelLayout, KernelRegionCases
<1>. QED BY <1>1, <1>2

\* What boot_init_mem maps at its own address lies in the first table.
LEMMA BootRegionPlaces ==
    ASSUME NEW m \in Maps, NEW info \in Mbis, NEW r \in BootRegions(m, info), NEW v \in Nat,
           r.at <= v, v < r.at + r.pages
    PROVE  v < Entries /\ r.from + (v - r.at) = v /\ v \in Frames
<1>1. /\ TopFrame \in Nat /\ BootVMA \in Nat /\ KernelEnd \in Nat /\ BootVMA <= KernelEnd
      /\ FrameCount(m) \in Nat /\ FrameCount(m) <= TopFrame /\ KernelEnd < FrameCount(m)
  BY LayoutAssumption, Layout
<1>2. Entries \in Nat /\ KernelEnd <= Entries
  BY KernelLayout
<1>3. CASE r = Region(BootVMA, BootVMA, KernelEnd - BootVMA)
  <2>1. r.at = BootVMA /\ r.from = BootVMA /\ r.pages = KernelEnd - BootVMA
    BY <1>3 DEF Region
  <2>2. v < KernelEnd
    BY <2>1, <1>1
  <2>. QED BY <2>1, <2>2, <1>1, <1>2 DEF Frames
<1>4. CASE r = Region(info, info, 1)
  <2>1. info \in Frames /\ info \in Nat /\ info < Entries
    BY LayoutAssumption, SpacesAssumption, <1>2
  <2>2. v = info /\ r.at = info /\ r.from = info
    BY <1>4, <2>1 DEF Region
  <2>. QED BY <2>1, <2>2
<1>5. ASSUME NEW i \in DOMAIN m, m[i].type = "reserved", m[i].first < BootVMA,
             r = Region(m[i].first, m[i].first, m[i].pages)
      PROVE  v < Entries /\ r.from + (v - r.at) = v /\ v \in Frames
  <2>1. m \in Seq(Areas)
    BY MapsAssumption
  <2>2. m[i] \in Areas
    BY <2>1
  <2>3. m[i].first \in Nat /\ m[i].pages \in Nat
    BY <1>1, <2>2 DEF Areas, Frames
  <2>4. r.at = m[i].first /\ r.from = m[i].first /\ r.pages = m[i].pages
    BY <1>5 DEF Region
  <2>5. m[i].first + m[i].pages <= Entries
    BY <1>5, SpacesAssumption
  <2>6. m[i].first + m[i].pages - 1 \in Frames
    BY <2>3, <2>4, MapsAssumption
  <2>. QED BY <1>1, <1>2, <2>3, <2>4, <2>5, <2>6 DEF Frames
<1>. QED BY <1>3, <1>4, <1>5 DEF BootRegions

\* Every page that boot_init_mem maps is the kernel's or in the first table, and the
\* kernel's pages lead to its frames.
LEMMA BootEntries ==
    ASSUME mmap \in Maps, mbi \in Mbis, NEW v \in Pages
    PROVE  /\ BootEntry(v) \in Frames \cup {NULL}
           /\ BootEntry(v) # NULL => KernelPage(v) \/ v < Entries
           /\ \A r \in KernelRegions(mmap) :
                  r.at <= v /\ v < r.at + r.pages => BootEntry(v) = r.from + (v - r.at)
<1> DEFINE covers == {r \in KernelRegions(mmap) \cup BootRegions(mmap, mbi) :
                         r.at <= v /\ v < r.at + r.pages}
           c == CHOOSE r \in covers : TRUE
<1>1. v \in Nat
  BY KernelLayout DEF Pages
<1>2. BootEntry(v) = IF covers = {} THEN NULL ELSE c.from + (v - c.at)
  BY DEF BootEntry
<1>3. CASE covers = {}
  BY <1>2, <1>3
<1>4. CASE covers # {}
  <2>1. c \in covers
    BY <1>4
  <2> HIDE DEF c
  <2>2. BootEntry(v) = c.from + (v - c.at)
    BY <1>2, <1>4
  <2>3. CASE c \in KernelRegions(mmap)
    <3>1. c.at \in Nat /\ c.pages \in Nat /\ c.from \in Nat
      BY <2>3, KernelLayout, KernelRegionCases
    <3>2. v - c.at \in 0..(c.pages - 1)
      BY <1>1, <2>1, <3>1
    <3>3. c.from + (v - c.at) \in Frames
      BY <2>3, <3>2, KernelPlaces
    <3>4. \A r \in KernelRegions(mmap) :
             r.at <= v /\ v < r.at + r.pages => r.from + (v - r.at) = c.from + (v - c.at)
      BY <1>1, <2>1, <2>3, KernelRegionsAgree
    <3>. QED BY <2>1, <2>2, <2>3, <3>3, <3>4 DEF KernelPage
  <2>4. CASE c \in BootRegions(mmap, mbi)
    <3>1. v < Entries /\ BootEntry(v) = v /\ v \in Frames
      BY <1>1, <2>1, <2>2, <2>4, BootRegionPlaces
    <3>2. ASSUME NEW r \in KernelRegions(mmap), r.at <= v, v < r.at + r.pages PROVE FALSE
      <4>1. r.at \in Nat /\ r.pages \in Nat
        BY KernelLayout, KernelRegionCases
      <4>2. v - r.at \in 0..(r.pages - 1) /\ r.at + (v - r.at) = v
        BY <1>1, <3>2, <4>1
      <4>3. v >= Entries
        BY <4>2, KernelPlaces
      <4>. QED BY <1>1, <3>1, <4>3, KernelLayout
    <3>. QED BY <3>1, <3>2
  <2>. QED BY <2>1, <2>3, <2>4
<1>. QED BY <1>3, <1>4

\* With the directory and the tables in their place, map reaches every table, cached or not.
LEMMA KernelReached ==
    ASSUME SpaceInv, TableInv, at # "boot", NEW v \in Pages
    PROVE  Reaches(Dir(v))
<1>1. KernelKept /\ mmap \in Maps /\ TlbIsCurrent /\ NoOldEntries
  BY DEF SpaceInv, TypeOK, TableInv
<1>2. Dir(v) \in 0..(Entries - 1)
  BY DirInRange
<1> DEFINE q == Region(StructuresSpace, KernelEnd, 1)
           r == Region(StructuresSpace + 1, KernelEnd + 1, Entries)
<1>3. /\ q \in KernelRegions(mmap) /\ q.at = StructuresSpace /\ q.from = KernelEnd /\ q.pages = 1
      /\ r \in KernelRegions(mmap) /\ r.at = StructuresSpace + 1 /\ r.from = KernelEnd + 1
      /\ r.pages = Entries
  BY DEF KernelRegions, Region
<1> HIDE DEF q, r
<1>4. 0 \in 0..(q.pages - 1)
  BY <1>3
<1>5. /\ q.at + 0 \in Pages /\ entries[q.at + 0] = q.from + 0
      /\ r.at + Dir(v) \in Pages /\ entries[r.at + Dir(v)] = r.from + Dir(v)
      /\ q.from + 0 \in Frames /\ r.from + Dir(v) \in Frames
  BY <1>1, <1>2, <1>3, <1>4, KernelPlaces DEF KernelKept
<1>6. {StructuresSpace, KernelEnd} \subseteq Nat /\ NULL \notin Frames
  BY LayoutAssumption
<1>7. /\ StructuresSpace \in Pages /\ entries[StructuresSpace] = KernelEnd
      /\ StructuresSpace + 1 + Dir(v) \in Pages
      /\ entries[StructuresSpace + 1 + Dir(v)] = KernelEnd + 1 + Dir(v)
  BY <1>3, <1>5, <1>6
<1>8. \A w \in Pages : Lookup(w) = entries[w]
  BY <1>1, TranslateIsEntry DEF Lookup, TlbIsCurrent
<1>. QED BY <1>7, <1>8 DEF Reaches

\* What the other invariants say of the types of the next state.
LEMMA NextTypes ==
    ASSUME FrameInv', TableInv', area' \in 1..(Len(mmap') + 1),
           entries' \in [Pages -> Frames \cup {NULL}], tlb' \in [Cached -> Frames \cup {NULL}],
           status' \in [Frames -> Statuses]
    PROVE  TypeOK'
BY DEF FrameInv, Types, TableInv, TableTypes, TypeOK, Booting, Booted

\* The kernel's pages stay when one other page is mapped.
LEMMA KernelKeptByMap ==
    ASSUME SpaceInv, NEW v, NEW f, entries' = [entries EXCEPT ![v] = f], mmap' = mmap, at # "boot",
           ~KernelPage(v)
    PROVE  KernelKept'
<1>1. KernelKept /\ mmap \in Maps /\ entries \in [Pages -> Frames \cup {NULL}]
  BY DEF SpaceInv, TypeOK
<1>2. SUFFICES ASSUME NEW r \in KernelRegions(mmap), NEW i \in 0..(r.pages - 1)
      PROVE  entries'[r.at + i] = r.from + i
  BY DEF KernelKept
<1>3. r.at \in Nat /\ r.pages \in Nat /\ i \in Nat /\ r.at + i \in Pages
  BY <1>1, KernelPlaces
<1>4. KernelPage(r.at + i)
  BY <1>3 DEF KernelPage
<1>5. r.at + i # v
  BY <1>4
<1>. QED BY <1>1, <1>3, <1>5 DEF KernelKept

\* boot_init_mem fills the tables.
LEMMA BootSpaces == ASSUME SpaceInv, FrameInv', TableInv', BootInitMem PROVE SpaceInv'
<1>1. /\ TypeOK /\ HeapKept
      /\ UNCHANGED <<mmap, mbi, area, heap, tlb, status, given>> /\ at = "boot" /\ at' = "mapped"
      /\ entries' = [v \in Pages |-> BootEntry(v)]
  BY DEF SpaceInv, BootInitMem, loops, frames
<1>2. mmap \in Maps /\ mbi \in Mbis /\ area \in 1..(Len(mmap) + 1) /\ heap = 0
  BY <1>1 DEF TypeOK, HeapKept, Started
<1>3. \A v \in Pages : KernelPage(v)' <=> KernelPage(v)
  BY <1>1 DEF KernelPage
<1>4. OthersApart'
  BY <1>1, <1>2, <1>3, BootEntries DEF OthersApart, Started
<1>5. KernelKept'
  <2>1. SUFFICES ASSUME NEW r \in KernelRegions(mmap), NEW i \in 0..(r.pages - 1)
        PROVE  entries'[r.at + i] = r.from + i
    BY <1>1 DEF KernelKept
  <2>2. r.at \in Nat /\ r.from \in Nat /\ r.pages \in Nat /\ i \in Nat /\ r.at + i \in Pages
    BY <1>2, KernelPlaces
  <2>3. r.at <= r.at + i /\ r.at + i < r.at + r.pages /\ (r.at + i) - r.at = i
    BY <2>2
  <2>. QED BY <1>1, <1>2, <2>2, <2>3, BootEntries
<1>6. HeapKept'
  BY <1>1, <1>2 DEF HeapKept
<1>7. TypeOK'
  BY <1>1, <1>2, BootEntries, NextTypes DEF TypeOK
<1>. QED BY <1>4, <1>5, <1>6, <1>7 DEF SpaceInv

\* While the stack is filled the tables stay.
LEMMA KallocSpaces ==
    ASSUME SpaceInv, FrameInv', TableInv', InitKalloc \/ VisitPage \/ NextArea \/ KallocDone
    PROVE  SpaceInv'
<1>1. /\ UNCHANGED <<mmap, heap, entries, tlb>> /\ at \in Starting /\ at' \in Starting
      /\ TypeOK /\ HeapKept
  BY DEF InitKalloc, VisitPage, NextArea, KallocDone, loops, tables, Starting, SpaceInv
<1>2. heap = 0 /\ at' # "boot" /\ at # "boot" /\ at' \notin Started
  BY <1>1 DEF HeapKept, Starting, Started
<1>3. KernelKept' /\ OthersApart' /\ HeapKept'
  BY <1>1, <1>2 DEF SpaceInv, KernelKept, OthersApart, HeapKept, KernelPage
<1>4. area' \in 1..(Len(mmap') + 1)
  <2>1. Len(mmap) \in Nat
    BY <1>1, MapTypes DEF TypeOK
  <2>. QED BY <1>1, <2>1 DEF TypeOK, InitKalloc, VisitPage, NextArea, KallocDone, loops
<1>5. status' \in [Frames -> Statuses]
  BY <1>1 DEF TypeOK, InitKalloc, VisitPage, NextArea, KallocDone, frames, Statuses
<1>. QED BY <1>1, <1>3, <1>4, <1>5, NextTypes DEF SpaceInv, TypeOK

\* init_paging takes away what boot_init_mem has mapped at its own address.
LEMMA InitPagingSpaces ==
    ASSUME SpaceInv, TableInv, FrameInv', TableInv', InitPaging PROVE SpaceInv'
<1>1. /\ UNCHANGED <<mmap, area, heap, status, given>> /\ at = "paging" /\ at' = "heap"
      /\ tlb' = [v \in Cached |-> NULL]
      /\ TypeOK /\ HeapKept /\ KernelKept /\ OthersApart
  BY DEF InitPaging, loops, frames, SpaceInv
<1>2. heap = 0 /\ mmap \in Maps
  BY <1>1 DEF HeapKept, Started, TypeOK
<1>3. Reaches(0)
  <2>1. {Entries, Entries * Entries} \subseteq Nat /\ Entries > 0 /\ 0 < Entries * Entries
    BY LayoutAssumption
  <2>2. 0 \in Pages
    BY <2>1 DEF Pages
  <2>. QED BY <1>1, <2>1, <2>2, FirstTable, KernelReached
<1>4. entries' = [v \in Pages |-> IF Dir(v) = 0 THEN NULL ELSE entries[v]]
  BY <1>3 DEF InitPaging
<1>5. OthersApart'
  BY <1>1, <1>4, FirstTable DEF OthersApart, Starting, Started, KernelPage
<1>6. KernelKept'
  <2>1. SUFFICES ASSUME NEW r \in KernelRegions(mmap), NEW i \in 0..(r.pages - 1)
        PROVE  entries'[r.at + i] = r.from + i
    BY <1>1 DEF KernelKept
  <2>2. r.at + i \in Pages /\ r.at + i >= Entries /\ r.at + i \in Nat /\ Entries \in Nat
    BY <1>2, KernelPlaces, LayoutAssumption DEF Pages
  <2>3. Dir(r.at + i) # 0
    BY <2>2, FirstTable
  <2>. QED BY <1>1, <1>4, <2>2, <2>3 DEF KernelKept
<1>7. HeapKept'
  BY <1>1, <1>2 DEF HeapKept
<1>8. TypeOK'
  BY <1>1, <1>4, NextTypes DEF TypeOK
<1>. QED BY <1>5, <1>6, <1>7, <1>8 DEF SpaceInv

\* The heap's next page gets the frame on top of the stack, which nobody maps.
LEMMA InitHeapSpaces ==
    ASSUME SpaceInv, FrameInv, TableInv, FrameInv', TableInv', InitHeap PROVE SpaceInv'
<1> DEFINE p == HeapSpace + heap
           f == Top
<1>1. /\ UNCHANGED <<mmap, mbi, at, area, page>> /\ at = "heap" /\ heap < HeapSize
      /\ heap' = heap + 1 /\ Map(p, f) /\ given' = given \cup {f}
      /\ status' = [status EXCEPT ![f] = "SYSTEM"]
      /\ TypeOK /\ HeapKept /\ KernelKept /\ OthersApart
  BY DEF InitHeap, KAlloc, SpaceInv
<1>2. heap \in Nat /\ HeapSize \in Nat /\ HeapSpace \in Nat /\ mmap \in Maps
  BY <1>1, LayoutAssumption DEF TypeOK
<1>3. p \in Pages /\ ~KernelPage(p) /\ p \in Nat
  <2>1. p \in Nat /\ p < HeapSpace + HeapSize /\ HeapSpace + HeapSize <= Entries * Entries
    BY <1>1, <1>2, LayoutAssumption
  <2>2. Entries * Entries \in Nat
    BY LayoutAssumption
  <2>3. ASSUME KernelPage(p) PROVE FALSE
    <3>1. PICK r \in KernelRegions(mmap) : r.at <= p /\ p < r.at + r.pages
      BY <2>3 DEF KernelPage
    <3>2. r.at \in Nat /\ r.pages \in Nat
      BY <1>2, KernelLayout, KernelRegionCases
    <3>3. p - r.at \in 0..(r.pages - 1) /\ r.at + (p - r.at) = p
      BY <2>1, <3>1, <3>2
    <3>4. p < HeapSpace \/ p >= StructuresSpace
      BY <1>2, <3>3, KernelPlaces
    <3>. QED BY <1>2, <2>1, <3>4, KernelLayout
  <2>4. p \in 0..(Entries * Entries - 1)
    <3> DEFINE e == Entries * Entries
    <3>1. p \in Nat /\ e \in Nat /\ p < e
      BY <1>2, <2>1, <2>2
    <3> HIDE DEF p, e
    <3>2. p \in 0..(e - 1)
      BY <3>1
    <3>. QED BY <3>2 DEF e
  <2>. QED BY <2>1, <2>3, <2>4 DEF Pages
<1>4. f \in Frames /\ Stacked(f) /\ f \notin given
  BY <1>1, Popped DEF FrameInv, Types, StackedOnce, InitHeap, KAlloc
<1> HIDE DEF p, f
<1>5. /\ entries' = [entries EXCEPT ![p] = f]
      /\ tlb' = [w \in Cached |-> IF w = p THEN NULL ELSE tlb[w]]
  BY <1>1, <1>3, KernelReached DEF Map
<1>6. KernelKept'
  BY <1>1, <1>3, <1>5, KernelKeptByMap
<1>7. /\ entries' \in [Pages -> Frames \cup {NULL}] /\ entries'[p] = f
      /\ \A v \in Pages : v # p => entries'[v] = entries[v]
  BY <1>1, <1>3, <1>4, <1>5 DEF TypeOK
<1>8. OthersApart'
  <2>1. \A v : v = p => HeapPage(v)'
    BY <1>1, <1>2 DEF HeapPage, p
  <2>2. \A v : HeapPage(v) => HeapPage(v)'
    BY <1>1, <1>2 DEF HeapPage
  <2>3. \A v : KernelPage(v)' <=> KernelPage(v)
    BY <1>1 DEF KernelPage
  <2>. QED BY <1>1, <1>7, <2>1, <2>2, <2>3 DEF OthersApart, Starting, Started
<1>9. HeapKept'
  <2>1. /\ \A i \in 0..(heap - 1) : HeapSpace + i \in Pages /\ HeapSpace + i # p /\ i \in Nat
        /\ p = HeapSpace + heap
    BY <1>1, <1>2, LayoutAssumption, KernelLayout DEF p, Pages
  <2>2. \A i \in 0..(heap - 1) :
           /\ entries'[HeapSpace + i] = entries[HeapSpace + i]
           /\ entries[HeapSpace + i] \in given /\ status[entries[HeapSpace + i]] = "SYSTEM"
           /\ entries[HeapSpace + i] # f
    BY <1>1, <1>4, <1>7, <2>1 DEF HeapKept
  <2>3. given \subseteq Frames /\ status \in [Frames -> Statuses]
    BY <1>1 DEF TypeOK
  <2>4. \A i \in 0..heap : i \in 0..(heap - 1) \/ i = heap
    BY <1>2
  <2>5. \A i \in 0..heap : entries'[HeapSpace + i] \in given' /\ status'[entries'[HeapSpace + i]] = "SYSTEM"
    BY <1>1, <1>4, <1>7, <2>1, <2>2, <2>3, <2>4
  <2>6. \A i, j \in 0..heap : entries'[HeapSpace + i] = entries'[HeapSpace + j] => i = j
    BY <1>1, <1>7, <2>1, <2>2, <2>4 DEF HeapKept
  <2>7. heap' - 1 = heap
    BY <1>1, <1>2
  <2>. QED BY <1>1, <2>5, <2>6, <2>7 DEF HeapKept, Started
<1>10. status' \in [Frames -> Statuses]
  BY <1>1, <1>4 DEF TypeOK, Statuses
<1>11. TypeOK'
  BY <1>1, <1>5, <1>7, <1>10, NextTypes DEF TypeOK
<1>. QED BY <1>6, <1>8, <1>9, <1>11 DEF SpaceInv

\* From the end of init_heap on own pages and the video memory are mapped, at the
\* drivers' pages and at that of the video memory.
LEMMA MapSpaces ==
    ASSUME SpaceInv, TableInv, FrameInv', TableInv',
           NEW v \in Drivers \cup {Terminal, Video}, NEW f \in Own \cup {Video}, Map(v, f),
           at \in Started, at' \in {"running", "panicked"},
           UNCHANGED <<mmap, area, heap, status, given>>
    PROVE  SpaceInv'
<1>1. /\ TypeOK /\ HeapKept /\ KernelKept /\ OthersApart /\ mmap \in Maps /\ at # "boot"
  BY DEF SpaceInv, TypeOK, Started
<1>2. v \in Pages /\ f \in Frames
  BY <1>1, LayoutAssumption DEF TypeOK, Own
<1>3. ~KernelPage(v)
  <2>1. SUFFICES ASSUME NEW r \in KernelRegions(mmap), r.at <= v, v < r.at + r.pages PROVE FALSE
    BY DEF KernelPage
  <2>2. r.at \in Nat /\ r.pages \in Nat /\ v \in Nat
    BY <1>1, <1>2, KernelLayout, KernelRegionCases DEF Pages
  <2>3. v - r.at \in 0..(r.pages - 1) /\ r.at + (v - r.at) = v
    BY <2>1, <2>2
  <2>. QED BY <1>1, <2>3, KernelPlaces
<1>4. /\ entries' = [entries EXCEPT ![v] = f]
      /\ tlb' = [w \in Cached |-> IF w = v THEN NULL ELSE tlb[w]]
  BY <1>1, <1>2, KernelReached DEF Map
<1>5. KernelKept'
  BY <1>1, <1>3, <1>4, KernelKeptByMap
<1>6. /\ entries' \in [Pages -> Frames \cup {NULL}] /\ entries'[v] = f
      /\ \A w \in Pages : w # v => entries'[w] = entries[w]
  BY <1>1, <1>2, <1>4 DEF TypeOK
<1>7. OthersApart'
  <2>1. Own' = Own
    BY DEF Own
  <2>2. \A w : (HeapPage(w)' <=> HeapPage(w)) /\ (KernelPage(w)' <=> KernelPage(w))
    BY DEF HeapPage, KernelPage
  <2>. QED BY <1>1, <1>6, <2>1, <2>2 DEF OthersApart, Starting, Started
<1>8. HeapKept'
  <2>1. \A i \in 0..(heap - 1) : HeapSpace + i \in Pages /\ HeapSpace + i # v
    <3>1. heap \in Nat /\ heap <= HeapSize /\ HeapSize \in Nat /\ HeapSpace \in Nat
      BY <1>1, LayoutAssumption DEF TypeOK
    <3>2. \A i \in 0..(heap - 1) : HeapSpace + i \in Pages
      BY <3>1, LayoutAssumption DEF Pages
    <3>. QED BY <1>1, <3>1, <3>2, KernelLayout
  <2>2. \A i \in 0..(heap - 1) : entries'[HeapSpace + i] = entries[HeapSpace + i]
    BY <1>6, <2>1
  <2>. QED BY <1>1, <2>2 DEF HeapKept, Started
<1>9. TypeOK'
  BY <1>1, <1>4, <1>6, NextTypes DEF TypeOK
<1>. QED BY <1>5, <1>7, <1>8, <1>9 DEF SpaceInv

\* k_alloc and kfree leave the heap's frames, and those that are mapped, to their owners.
LEMMA AllocSpaces ==
    ASSUME SpaceInv, FrameInv, TableInv, FrameInv', TableInv',
           DriverAlloc \/ \E f \in Frames : DriverFree(f)
    PROVE  SpaceInv'
<1>1. /\ TypeOK /\ HeapKept /\ KernelKept /\ OthersApart
      /\ UNCHANGED <<mmap, at, area, heap, entries, tlb>> /\ at = "running"
  BY DEF SpaceInv, DriverAlloc, DriverFree, loops, tables
<1>2. PICK f \in Frames :
         /\ \/ /\ f \notin given /\ given' = given \cup {f}
               /\ status' = [status EXCEPT ![f] = "ALLOCATED"]
            \/ /\ f \in Own /\ given' = given \ {f}
               /\ status' = [status EXCEPT ![f] = "FREE"]
               /\ \A v \in Pages : Translate(v) # f
  <2>1. CASE DriverAlloc
    <3>1. Top \in Frames /\ Stacked(Top) /\ Top \notin given
      BY <2>1, Popped DEF FrameInv, Types, StackedOnce, DriverAlloc, KAlloc
    <3>. QED BY <2>1, <3>1 DEF DriverAlloc, KAlloc
  <2>2. CASE \E f \in Frames : DriverFree(f)
    BY <2>2 DEF DriverFree
  <2>. QED BY <2>1, <2>2
<1>3. given \subseteq Frames /\ status \in [Frames -> Statuses]
  BY <1>1 DEF TypeOK
<1>4. /\ status' \in [Frames -> Statuses] /\ \A g \in Frames : g # f => status'[g] = status[g]
      /\ status'[f] = "ALLOCATED" \/ status'[f] = "FREE"
  BY <1>2, <1>3 DEF Statuses
<1>5. \A g \in given : status[g] = "SYSTEM" => g \in given' /\ status'[g] = "SYSTEM"
  BY <1>2, <1>3, <1>4 DEF Own
<1>6. \A v \in Pages : entries[v] \in Own => entries[v] \in Own'
  <2>1. \A v \in Pages : Translate(v) = entries[v]
    BY TranslateIsEntry DEF TableInv
  <2>. QED BY <1>2, <1>3, <1>4, <2>1 DEF Own
<1>7. HeapKept'
  BY <1>1, <1>5 DEF HeapKept
<1>8. OthersApart'
  <2>1. \A w : (HeapPage(w)' <=> HeapPage(w)) /\ (KernelPage(w)' <=> KernelPage(w))
    BY <1>1 DEF HeapPage, KernelPage
  <2>. QED BY <1>1, <1>6, <2>1 DEF OthersApart, Starting, Started
<1>9. KernelKept'
  BY <1>1 DEF KernelKept
<1>10. TypeOK'
  BY <1>1, <1>4, NextTypes DEF TypeOK
<1>. QED BY <1>7, <1>8, <1>9, <1>10 DEF SpaceInv

LEMMA InitSpaces == Init => SpaceInv
<1> SUFFICES ASSUME Init PROVE SpaceInv
  OBVIOUS
<1>1. mmap \in Maps /\ mbi \in Mbis /\ at = "boot" /\ heap = 0 /\ page = 0 /\ area = 1
  BY DEF Init
<1>2. area \in 1..(Len(mmap) + 1) /\ heap \in 0..HeapSize
  BY <1>1, MapTypes, LayoutAssumption
<1>3. /\ directory \in [0..(Entries - 1) -> BOOLEAN]
      /\ entries \in [Pages -> Frames \cup {NULL}]
      /\ tlb \in [Cached -> Frames \cup {NULL}]
      /\ stack \in Seq(Frames) /\ status \in [Frames -> Statuses] /\ given \in SUBSET Frames
  BY DEF Init, Statuses
<1>4. TypeOK
  BY <1>1, <1>2, <1>3 DEF TypeOK
<1>5. KernelKept /\ OthersApart /\ HeapKept
  BY <1>1 DEF KernelKept, OthersApart, HeapKept, Starting, Started
<1>. QED BY <1>4, <1>5 DEF SpaceInv

LEMMA NextSpaces ==
    ASSUME SpaceInv, FrameInv, TableInv, FrameInv', TableInv', [Next]_vars
    PROVE  SpaceInv'
<1> USE DEF loops, tables, frames
<1>1. TypeOK /\ OthersApart /\ HeapKept
  BY DEF SpaceInv
<1>2. CASE BootInitMem
  BY <1>2, BootSpaces
<1>3. CASE InitKalloc \/ VisitPage \/ NextArea \/ KallocDone
  BY <1>3, KallocSpaces
<1>4. CASE InitPaging
  BY <1>4, InitPagingSpaces
<1>5. CASE InitHeap
  BY <1>5, InitHeapSpaces
<1>6. CASE InitTerminal
  BY <1>6, MapSpaces DEF InitTerminal, Started
<1>7. ASSUME Panic, at \in Started PROVE SpaceInv'
  BY <1>7, MapSpaces DEF Panic
<1>8. CASE OutOfMemory \/ \E old \in Drivers : RemapPanics(old)
  BY <1>7, <1>8 DEF OutOfMemory, RemapPanics, Started
<1>9. CASE DriverAlloc \/ \E f \in Frames : DriverFree(f)
  BY <1>9, AllocSpaces
<1>10. ASSUME NEW f \in Frames, NEW v \in Drivers, DriverMap(v, f) PROVE SpaceInv'
  BY <1>10, MapSpaces DEF DriverMap, Started
<1>11. ASSUME NEW old \in Drivers, NEW new \in Drivers, Remap(old, new) PROVE SpaceInv'
  <2>1. /\ at = "running" /\ Translate(old) # NULL /\ Map(new, Translate(old))
        /\ UNCHANGED <<mmap, mbi, at, area, heap, status, given>>
    BY <1>11 DEF Remap
  <2>2. old \in Pages /\ old \in Nat /\ mmap \in Maps
    BY LayoutAssumption, KernelLayout, <1>1 DEF TypeOK
  <2>3. Translate(old) = entries[old]
    BY <2>2, TranslateIsEntry DEF TableInv
  <2>4. ~HeapPage(old)
    <3>1. heap \in Nat /\ heap <= HeapSize /\ HeapSize \in Nat /\ HeapSpace \in Nat
      BY <1>1, LayoutAssumption DEF TypeOK
    <3>2. HeapSpace + HeapSize <= old
      BY <2>2, KernelLayout
    <3>. QED BY <2>2, <3>1, <3>2 DEF HeapPage
  <2>5. ~KernelPage(old)
    <3>1. SUFFICES ASSUME NEW r \in KernelRegions(mmap), r.at <= old, old < r.at + r.pages PROVE FALSE
      BY DEF KernelPage
    <3>2. r.at \in Nat /\ r.pages \in Nat
      BY <2>2, KernelLayout, KernelRegionCases
    <3>3. old - r.at \in 0..(r.pages - 1) /\ r.at + (old - r.at) = old
      BY <2>2, <3>1, <3>2
    <3>. QED BY <1>1, <3>3, KernelPlaces DEF TypeOK
  <2>6. entries[old] \in Own \cup {Video}
    BY <1>1, <2>1, <2>2, <2>3, <2>4, <2>5 DEF OthersApart, Started
  <2>. QED BY <2>1, <2>3, <2>6, MapSpaces DEF Started
<1>12. ASSUME NEW v \in Cached, Access(v) PROVE SpaceInv'
  <2>1. UNCHANGED <<mmap, mbi, at, area, page, heap, directory, entries, stack, status, given>>
    BY <1>12 DEF Access
  <2>2. tlb' \in [Cached -> Frames \cup {NULL}]
    <3>1. v \in Pages /\ Translate(v) \in Frames \cup {NULL}
      BY <1>1, LayoutAssumption DEF TypeOK, Translate
    <3>. QED BY <1>1, <1>12, <3>1 DEF Access, TypeOK
  <2>3. TypeOK'
    BY <1>1, <2>1, <2>2 DEF TypeOK
  <2>4. KernelKept' /\ OthersApart' /\ HeapKept'
    BY <2>1 DEF SpaceInv, KernelKept, OthersApart, HeapKept, KernelPage, HeapPage, Own
  <2>. QED BY <2>3, <2>4 DEF SpaceInv
<1>13. CASE UNCHANGED vars
  BY <1>13 DEF vars, SpaceInv, TypeOK, KernelKept, OthersApart, HeapKept, KernelPage, HeapPage, Own
<1>. QED BY <1>2, <1>3, <1>4, <1>5, <1>6, <1>8, <1>9, <1>10, <1>11, <1>12, <1>13 DEF Next

LEMMA SpacesInvariant == Spec => []SpaceInv
<1>1. SpaceInv /\ FrameInv /\ TableInv /\ FrameInv' /\ TableInv' /\ [Next]_vars => SpaceInv'
  BY NextSpaces
<1>. QED BY <1>1, InitSpaces, FramesInvariant, TablesInvariant, PTL DEF Spec

\* Nothing that is mapped or unmapped later takes the kernel, the tables, the bitmap or
\* the stack from where the kernel looks for them
\* (boot_memory_init.c:52-88; virtual_memory_manager.c:46-62, 110-124).
THEOREM KernelIsMapped == Spec => []KernelStaysMapped
<1>1. ASSUME SpaceInv, TableInv PROVE KernelStaysMapped
  <2>1. mmap \in Maps /\ KernelKept
    BY <1>1 DEF SpaceInv, TypeOK
  <2>2. \A r \in KernelRegions(mmap) : \A i \in 0..(r.pages - 1) :
           Translate(r.at + i) = entries[r.at + i]
    BY <1>1, <2>1, KernelPlaces, TranslateIsEntry DEF TableInv
  <2>. QED BY <2>1, <2>2 DEF KernelKept, KernelStaysMapped
<1>. QED BY <1>1, SpacesInvariant, TablesInvariant, PTL

\* Every page of the heap has a frame of its own, which no other page leads to, whatever
\* drivers allocate, free, map and remap (kernel_heap.c:22-25).
THEOREM HeapPagesArePrivate == Spec => []HeapIsPrivate
<1>1. ASSUME SpaceInv, TableInv, FrameInv PROVE HeapIsPrivate
  <2>1. TypeOK /\ OthersApart /\ HeapKept /\ NoOldEntries
    BY <1>1 DEF SpaceInv, TableInv
  <2>2. SUFFICES ASSUME at \in Started, NEW i \in 0..(heap - 1)
        PROVE  /\ Translate(HeapSpace + i) \in given
               /\ \A v \in Pages : Translate(v) = Translate(HeapSpace + i) => v = HeapSpace + i
    BY <2>1 DEF HeapIsPrivate, Started
  <2> DEFINE f == entries[HeapSpace + i]
  <2>3. HeapSpace + i \in Pages
    <3> DEFINE n == Entries * Entries
    <3>1. n \in Int /\ HeapSpace \in Nat /\ HeapSize \in Nat /\ HeapSpace + HeapSize <= n
      BY LayoutAssumption
    <3>2. heap \in 0..HeapSize
      BY <2>1 DEF TypeOK
    <3> HIDE DEF n
    <3>3. HeapSpace + i \in 0..(n - 1)
      BY <3>1, <3>2
    <3>. QED BY <3>3 DEF n, Pages
  <2>4. \A v \in Pages : Translate(v) = entries[v]
    BY <2>1, TranslateIsEntry
  <2>5. f \in given /\ status[f] = "SYSTEM"
    BY <2>1 DEF HeapKept
  <2>6. f \notin KernelFrames(mmap) /\ f # NULL
    BY <1>1, <2>5, AvailableFrames, LayoutAssumption
  <2>7. f # Video
    <3>1. f \in Spare(mmap)
      BY <1>1, <2>1, <2>2, <2>5 DEF FrameInv, StackFilled, Started, Booted, TypeOK
    <3>. QED BY <2>1, <3>1, SpacesAssumption DEF TypeOK
  <2>8. ASSUME NEW v \in Pages, entries[v] = f PROVE v = HeapSpace + i
    <3> mmap \in Maps
      BY <2>1 DEF TypeOK
    <3>1. CASE KernelPage(v)
      <4>1. PICK r \in KernelRegions(mmap) : r.at <= v /\ v < r.at + r.pages
        BY <3>1 DEF KernelPage
      <4>2. r.at \in Nat /\ r.pages \in Nat /\ v \in Nat
        BY KernelLayout, KernelRegionCases DEF Pages
      <4>3. v - r.at \in 0..(r.pages - 1) /\ r.at + (v - r.at) = v
        BY <4>1, <4>2
      <4>4. entries[v] = r.from + (v - r.at)
        BY <1>1, <2>2, <4>3 DEF SpaceInv, KernelKept, Started
      <4>. QED BY <2>1, <2>6, <2>8, <4>3, <4>4, RegionsInKernelFrames DEF TypeOK
    <3>2. CASE HeapPage(v)
      BY <2>1, <2>8, <3>2 DEF HeapKept, HeapPage
    <3>3. CASE entries[v] \in Own \cup {Video}
      BY <2>5, <2>7, <2>8, <3>3 DEF Own
    <3>. QED BY <2>1, <2>2, <2>6, <2>8, <3>1, <3>2, <3>3 DEF OthersApart
  <2>. QED BY <2>3, <2>4, <2>5, <2>8
<1>. QED BY <1>1, SpacesInvariant, TablesInvariant, FramesInvariant, PTL

=============================================================================
