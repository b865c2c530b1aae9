------------------------- MODULE BootMappingsProofs -------------------------
(***************************************************************************)
(* Proofs about the address spaces initium builds, for every machine and   *)
(* every size of the tables: the mapping code implements VirtualLayout     *)
(* step by step, so that what is proved of the layout holds of the code    *)
(* that maps; and, from an inductive invariant that says how far every     *)
(* mapping loop is, what it has mapped and whose every frame is, no frame  *)
(* is used twice, BootInfo is true when the kernel is entered, and the     *)
(* boot fails only for the reasons FailuresExplained gives.                *)
(***************************************************************************)
EXTENDS BootMappings, TLAPS, FiniteSetTheorems

\* VirtualLayout with its theorems, for this module's state.
LayoutThms == INSTANCE VirtualLayoutProofs WITH
  Executables <- FixedKernels, SharedObjects <- RelocatableKernels, Sizes <- MappedSizes,
  stage <- layout_stage, placed <- placed_entries

RefInv ==
  /\ machine \in Machines
  /\ pc \in Steps
  /\ at \in [Things -> Nat \cup {NoAddress}]
  /\ failure \in Failures \cup {None}

-----------------------------------------------------------------------------
(***************************************************************************)
(* What the assumptions say of the machine and of its kernel.              *)
(***************************************************************************)
\* The operators of Entries do not depend on the instance they are seen through.
LEMMA EntriesOfThms ==
  /\ LayoutThms!EntryIndex = EntryIndex
  /\ \A x : LayoutThms!HasSegments(x) = HasSegments(x)
  /\ \A a, z : LayoutThms!entries_of(a, z) = entries_of(a, z)
  /\ \A x, o : LayoutThms!segment_entries(x, o) = segment_entries(x, o)
  /\ \A z : LayoutThms!level_4_entries(z) = level_4_entries(z)
  /\ \A st, n : LayoutThms!has_free_entries(st, n) = has_free_entries(st, n)
  /\ \A st, n : LayoutThms!get_free_entries(st, n) = get_free_entries(st, n)
  /\ \A st, z : LayoutThms!get_free_address(st, z) = get_free_address(st, z) /\ LayoutThms!take(st, z) = take(st, z)
  /\ \A st, x, o : LayoutThms!mark_segments(st, x, o) = mark_segments(st, x, o)
  /\ \A x : LayoutThms!min_addr(x) = min_addr(x) /\ LayoutThms!max_addr(x) = max_addr(x)
  /\ LayoutThms!new_entries = new_entries
<1> USE DEF EntryIndex, LayoutThms!EntryIndex
<1>1. LayoutThms!EntryIndex = EntryIndex
  OBVIOUS
<1>2. \A x : LayoutThms!HasSegments(x) = HasSegments(x)
  BY DEF HasSegments, LayoutThms!HasSegments
<1>3. \A a, z : LayoutThms!entries_of(a, z) = entries_of(a, z)
  BY DEF entries_of, p4_index, LayoutThms!entries_of, LayoutThms!p4_index
<1>4. \A x, o : LayoutThms!segment_entries(x, o) = segment_entries(x, o)
  BY <1>3 DEF segment_entries, LayoutThms!segment_entries
<1>5. \A z : LayoutThms!level_4_entries(z) = level_4_entries(z)
  BY DEF level_4_entries, LayoutThms!level_4_entries
<1>6. \A st, n : LayoutThms!has_free_entries(st, n) = has_free_entries(st, n)
  BY DEF has_free_entries, is_free, LayoutThms!has_free_entries, LayoutThms!is_free
<1>7. \A st, n : LayoutThms!get_free_entries(st, n) = get_free_entries(st, n)
  BY Zenon DEF get_free_entries, is_free, LayoutThms!get_free_entries, LayoutThms!is_free
<1>8. \A st, z : LayoutThms!get_free_address(st, z) = get_free_address(st, z) /\ LayoutThms!take(st, z) = take(st, z)
  BY <1>5, <1>7 DEF get_free_address, take, mark, LayoutThms!get_free_address, LayoutThms!take, LayoutThms!mark
<1>9. \A st, x, o : LayoutThms!mark_segments(st, x, o) = mark_segments(st, x, o)
  BY <1>4 DEF mark_segments, mark, LayoutThms!mark_segments, LayoutThms!mark
<1>10. \A x : LayoutThms!min_addr(x) = min_addr(x) /\ LayoutThms!max_addr(x) = max_addr(x)
  BY Zenon DEF min_addr, max_addr, LayoutThms!min_addr, LayoutThms!max_addr
<1>11. LayoutThms!new_entries = new_entries
  BY DEF new_entries, LayoutThms!new_entries
<1> QED
  BY <1>1, <1>2, <1>3, <1>4, <1>5, <1>6, <1>7, <1>8, <1>9, <1>10, <1>11

LEMMA EntriesOfLayout ==
  /\ Layout!EntryIndex = EntryIndex
  /\ \A x : Layout!HasSegments(x) = HasSegments(x)
  /\ \A a, z : Layout!entries_of(a, z) = entries_of(a, z)
  /\ \A x, o : Layout!segment_entries(x, o) = segment_entries(x, o)
  /\ \A z : Layout!level_4_entries(z) = level_4_entries(z)
  /\ \A st, n : Layout!has_free_entries(st, n) = has_free_entries(st, n)
  /\ \A st, n : Layout!get_free_entries(st, n) = get_free_entries(st, n)
  /\ \A st, z : Layout!get_free_address(st, z) = get_free_address(st, z) /\ Layout!take(st, z) = take(st, z)
  /\ \A st, x, o : Layout!mark_segments(st, x, o) = mark_segments(st, x, o)
  /\ \A x : Layout!min_addr(x) = min_addr(x) /\ Layout!max_addr(x) = max_addr(x)
  /\ Layout!new_entries = new_entries
<1> USE DEF EntryIndex, Layout!EntryIndex
<1>1. Layout!EntryIndex = EntryIndex
  OBVIOUS
<1>2. \A x : Layout!HasSegments(x) = HasSegments(x)
  BY DEF HasSegments, Layout!HasSegments
<1>3. \A a, z : Layout!entries_of(a, z) = entries_of(a, z)
  BY DEF entries_of, p4_index, Layout!entries_of, Layout!p4_index
<1>4. \A x, o : Layout!segment_entries(x, o) = segment_entries(x, o)
  BY <1>3 DEF segment_entries, Layout!segment_entries
<1>5. \A z : Layout!level_4_entries(z) = level_4_entries(z)
  BY DEF level_4_entries, Layout!level_4_entries
<1>6. \A st, n : Layout!has_free_entries(st, n) = has_free_entries(st, n)
  BY DEF has_free_entries, is_free, Layout!has_free_entries, Layout!is_free
<1>7. \A st, n : Layout!get_free_entries(st, n) = get_free_entries(st, n)
  BY Zenon DEF get_free_entries, is_free, Layout!get_free_entries, Layout!is_free
<1>8. \A st, z : Layout!get_free_address(st, z) = get_free_address(st, z) /\ Layout!take(st, z) = take(st, z)
  BY <1>5, <1>7 DEF get_free_address, take, mark, Layout!get_free_address, Layout!take, Layout!mark
<1>9. \A st, x, o : Layout!mark_segments(st, x, o) = mark_segments(st, x, o)
  BY <1>4 DEF mark_segments, mark, Layout!mark_segments, Layout!mark
<1>10. \A x : Layout!min_addr(x) = min_addr(x) /\ Layout!max_addr(x) = max_addr(x)
  BY Zenon DEF min_addr, max_addr, Layout!min_addr, Layout!max_addr
<1>11. Layout!new_entries = new_entries
  BY DEF new_entries, Layout!new_entries
<1> QED
  BY <1>1, <1>2, <1>3, <1>4, <1>5, <1>6, <1>7, <1>8, <1>9, <1>10, <1>11

LEMMA SizesMapped == MappedSizes \subseteq Nat \ {0}
<1>1. \A m \in Machines :
        /\ m.memory.max_phys \in Nat \ {0} /\ m.descriptors \in Nat \ {0}
        /\ m.framebuffer # None => m.framebuffer.byte_len \in Nat
        /\ m.ramdisk # None => m.ramdisk.len \in Nat \ {0}
  BY MachinesAssumption DEF WellFormed, WellFormedMemory
<1>2. PAGE_SIZE + STACK_SIZE \in Nat \ {0}
  BY PagingAssumption
<1>3. \A d \in Nat : BOOT_INFO_SIZE + (d + 4) * REGION_SIZE \in Nat \ {0}
  <2> TAKE d \in Nat
  <2>1. BOOT_INFO_SIZE \in Nat \ {0} /\ (d + 4) * REGION_SIZE \in Nat
    BY PagingAssumption
  <2> QED
    BY <2>1
<1> QED
  BY <1>1, <1>2, <1>3 DEF MappedSizes

\* The assumptions of VirtualLayout, which its theorems rest on.
LEMMA LayoutAssumptions ==
  /\ LayoutThms!EntriesAssumption
  /\ LayoutThms!KernelsAssumption
  /\ LayoutThms!SizesAssumption
<1>1. LayoutThms!EntriesAssumption
  BY EntriesAssumption DEF LayoutThms!EntriesAssumption
<1>2. LayoutThms!SizesAssumption
  BY SizesMapped DEF LayoutThms!SizesAssumption
<1>3. LayoutThms!KernelsAssumption
  BY MachinesAssumption, EntriesOfThms
  DEF LayoutThms!KernelsAssumption, WellFormed, WellFormedKernel, FixedKernels, RelocatableKernels
<1> QED
  BY <1>1, <1>2, <1>3

LEMMA FreeAddress ==
  ASSUME NEW st, NEW size \in Nat, has_free_entries(st, level_4_entries(size))
  PROVE  get_free_address(st, size) \in Nat
<1>1. level_4_entries(size) \in Nat
  BY EntriesAssumption DEF level_4_entries
<1>2. get_free_entries(st, level_4_entries(size)) \in EntryIndex
  BY <1>1, LayoutAssumptions, EntriesOfThms, LayoutThms!WindowIsFree
<1>3. \A i \in EntryIndex : i * LEVEL_4_SIZE \in Nat
  BY EntriesAssumption DEF EntryIndex
<1> QED
  BY <1>2, <1>3 DEF get_free_address

\* The extent of the kernel.
LEMMA KernelExtent ==
  ASSUME machine \in Machines
  PROVE  /\ min_addr(Kernel.segments) \in Nat
         /\ max_addr(Kernel.segments) - min_addr(Kernel.segments) \in Nat
<1> DEFINE x  == Kernel.segments
           lo == min_addr(x)
           hi == max_addr(x)
<1>1. HasSegments(x)
  BY MachinesAssumption DEF WellFormed, WellFormedKernel, Kernel
<1>2. lo \in Nat /\ \A s \in x : lo <= s.virtual_addr
  <2>1. \E a \in {s.virtual_addr : s \in x} : \A u \in x : a <= u.virtual_addr
    BY <1>1 DEF HasSegments
  <2>2. lo \in {s.virtual_addr : s \in x} /\ \A u \in x : lo <= u.virtual_addr
    BY <2>1 DEF min_addr
  <2> QED
    BY <1>1, <2>2 DEF HasSegments
<1>3. hi \in Nat /\ \A s \in x : s.virtual_addr + s.mem_size <= hi
  <2>1. \E a \in {s.virtual_addr + s.mem_size : s \in x} : \A u \in x : u.virtual_addr + u.mem_size <= a
    BY <1>1 DEF HasSegments
  <2>2. /\ hi \in {s.virtual_addr + s.mem_size : s \in x}
        /\ \A u \in x : u.virtual_addr + u.mem_size <= hi
    BY <2>1 DEF max_addr
  <2> QED
    BY <1>1, <2>2 DEF HasSegments
<1>4. PICK s \in x : s.virtual_addr \in Nat /\ s.mem_size \in Nat
  BY <1>1 DEF HasSegments
<1> HIDE DEF lo, hi
<1>5. lo <= s.virtual_addr /\ s.virtual_addr + s.mem_size <= hi
  BY <1>2, <1>3
<1>6. hi - lo \in Nat
  BY <1>2, <1>3, <1>4, <1>5
<1> QED
  BY <1>2, <1>6 DEF lo, hi

-----------------------------------------------------------------------------
(***************************************************************************)
(* The stage of VirtualLayout that a step of the boot belongs to.          *)
(***************************************************************************)
StageOf(p) ==
  IF p \in {"bootloader_table", "kernel_table", "kernel"} THEN "kernel"
  ELSE IF p \in {"map_kernel", "stack"} THEN "stack"
  ELSE IF p \in {"map_stack", "identity_map", "gdt", "map_gdt", "framebuffer"} THEN "framebuffer"
  ELSE IF p \in {"map_framebuffer", "ramdisk"} THEN "ramdisk"
  ELSE IF p \in {"map_ramdisk", "physical_memory"} THEN "physical_memory"
  ELSE IF p \in {"map_physical_memory", "boot_info"} THEN "boot_info"
  ELSE "done"

LEMMA StageIs ==
  /\ layout_stage = IF failure = "no_entries" THEN "panicked" ELSE StageOf(pc)
  /\ layout_stage' = IF failure' = "no_entries" THEN "panicked" ELSE StageOf(pc')
BY DEF layout_stage, StageOf

\* What is neither a placement nor a panic for want of entries changes nothing of the layout.
LEMMA MapStep ==
  ASSUME RefInv, failure = None, UNCHANGED <<machine, entry_state, at>>,
         failure' \in {"no_frame", "fault", "already_mapped", "no_framebuffer", None},
         pc' \in Steps, StageOf(pc') = StageOf(pc)
  PROVE  RefInv' /\ UNCHANGED Layout!vars
<1>1. failure' \in Failures \cup {None} /\ failure' # "no_entries" /\ failure # "no_entries"
  BY NoneAssumption DEF Failures
<1>2. layout_stage' = layout_stage
  BY <1>1, StageIs
<1>3. placed_entries' = placed_entries
  BY DEF placed_entries, image_offset, Kernel, size_of, Memory, Framebuffer, Ramdisk, boot_info_size
<1> QED
  BY <1>1, <1>2, <1>3 DEF RefInv, Layout!vars

LEMMA PlaceStep ==
  ASSUME RefInv, failure = None, NEW thing \in Things \ {"kernel"}, NEW size \in Nat, size = size_of(thing),
         NEW next \in Steps, place(thing, size, next)
  PROVE  RefInv' /\ Layout!mapping_addr(thing, size, StageOf(next))
<1> DEFINE addr == get_free_address(entry_state, size)
<1>1. UNCHANGED machine
  BY DEF place
<1>2. at \in [Things -> Nat \cup {NoAddress}] /\ DOMAIN placed_entries = Things
  BY DEF RefInv, placed_entries
<1>3. CASE has_free_entries(entry_state, level_4_entries(size))
  <2>1. /\ at' = [at EXCEPT ![thing] = addr] /\ entry_state' = take(entry_state, size)
        /\ failure' = None /\ pc' = next
    BY <1>3 DEF place, Goto
  <2>2. addr \in Nat /\ addr # NoAddress
    BY <1>3, FreeAddress DEF NoAddress
  <2> HIDE DEF addr
  <2>3. RefInv'
    BY <1>1, <1>2, <2>1, <2>2 DEF RefInv
  <2>4. layout_stage' = StageOf(next)
    BY <2>1, StageIs, NoneAssumption DEF Failures
  <2>5. at'["kernel"] = at["kernel"] /\ \A t \in Things : at'[t] = IF t = thing THEN addr ELSE at[t]
    BY <1>2, <2>1 DEF Things
  <2>6. image_offset' = image_offset /\ Kernel' = Kernel /\ \A t : size_of(t)' = size_of(t)
    BY <1>1, <2>5 DEF image_offset, Kernel, size_of, Memory, Framebuffer, Ramdisk, boot_info_size
  <2>7. placed_entries' = [placed_entries EXCEPT ![thing] = entries_of(addr, size)]
    <3>1. \A t \in Things : placed_entries'[t] = IF t = thing THEN entries_of(addr, size) ELSE placed_entries[t]
      BY <2>2, <2>5, <2>6 DEF placed_entries
    <3>2. DOMAIN placed_entries' = Things /\ placed_entries' = [t \in Things |-> placed_entries'[t]]
      BY DEF placed_entries
    <3> QED
      BY <1>2, <3>1, <3>2
  <2> QED
    BY <1>3, <2>1, <2>3, <2>4, <2>7, EntriesOfLayout DEF Layout!mapping_addr, addr
<1>4. CASE ~has_free_entries(entry_state, level_4_entries(size))
  <2>1. UNCHANGED <<at, entry_state, pc>> /\ failure' = "no_entries"
    BY <1>4 DEF place
  <2>2. layout_stage' = "panicked"
    BY <2>1, StageIs
  <2>3. placed_entries' = placed_entries
    BY <1>1, <2>1 DEF placed_entries, image_offset, Kernel, size_of, Memory, Framebuffer, Ramdisk, boot_info_size
  <2>4. RefInv'
    BY <1>1, <2>1 DEF RefInv, Failures
  <2> QED
    BY <1>4, <2>1, <2>2, <2>3, <2>4, EntriesOfLayout DEF Layout!mapping_addr
<1> QED
  BY <1>3, <1>4

\* The kernel's place: of all things, only its entries depend on its segments.
LEMMA KernelPlaced ==
  ASSUME RefInv, UNCHANGED machine, NEW addr \in Nat, at' = [at EXCEPT !["kernel"] = addr]
  PROVE  placed_entries' = [placed_entries EXCEPT !["kernel"] =
           segment_entries(Kernel.segments, IF Kernel.fixed THEN 0 ELSE addr - min_addr(Kernel.segments))]
<1> DEFINE E == segment_entries(Kernel.segments, IF Kernel.fixed THEN 0 ELSE addr - min_addr(Kernel.segments))
<1>1. at \in [Things -> Nat \cup {NoAddress}] /\ DOMAIN placed_entries = Things
  BY DEF RefInv, placed_entries
<1>2. \A t \in Things : at'[t] = IF t = "kernel" THEN addr ELSE at[t]
  BY <1>1
<1>3. "kernel" \in Things /\ addr # NoAddress /\ Kernel' = Kernel
  BY DEF Things, NoAddress, Kernel
<1>4. segment_entries(Kernel.segments, image_offset)' = E
  <2>1. at'["kernel"] = addr
    BY <1>2, <1>3
  <2> QED
    BY <1>3, <2>1 DEF image_offset
<1>5. \A t : size_of(t)' = size_of(t)
  BY DEF size_of, Memory, Framebuffer, Ramdisk, boot_info_size
<1> HIDE DEF E
<1>6. \A t \in Things : placed_entries'[t] = IF t = "kernel" THEN E ELSE placed_entries[t]
  BY <1>2, <1>3, <1>4, <1>5 DEF placed_entries
<1>7. DOMAIN placed_entries' = Things /\ placed_entries' = [t \in Things |-> placed_entries'[t]]
  BY DEF placed_entries
<1> QED
  BY <1>1, <1>6, <1>7 DEF E

LEMMA ExecutableStep == ASSUME RefInv, PlaceExecutable PROVE RefInv' /\ Layout!LoadExecutable
<1> DEFINE x == Kernel.segments
<1>1. /\ failure = None /\ pc = "kernel" /\ Kernel.fixed /\ machine \in Machines
      /\ at' = [at EXCEPT !["kernel"] = min_addr(x)] /\ entry_state' = mark_segments(entry_state, x, 0)
      /\ pc' = "map_kernel" /\ UNCHANGED <<machine, failure>>
  BY DEF PlaceExecutable, At, Goto, RefInv
<1>2. min_addr(x) \in Nat
  BY <1>1, KernelExtent
<1>3. placed_entries' = [placed_entries EXCEPT !["kernel"] = segment_entries(x, 0)]
  BY <1>1, <1>2, KernelPlaced
<1>4. layout_stage = "kernel" /\ layout_stage' = "stack"
  BY <1>1, StageIs, NoneAssumption DEF Failures, StageOf
<1>5. x \in FixedKernels
  BY <1>1 DEF FixedKernels, Kernel
<1>6. RefInv'
  BY <1>1, <1>2 DEF RefInv, Steps, Things
<1> HIDE DEF x
<1> QED
  BY <1>1, <1>3, <1>4, <1>5, <1>6, EntriesOfLayout DEF Layout!LoadExecutable

LEMMA SharedObjectStep == ASSUME RefInv, PlaceSharedObject PROVE RefInv' /\ Layout!LoadSharedObject
<1> DEFINE x    == Kernel.segments
           low  == min_addr(x)
           size == max_addr(x) - low
           addr == get_free_address(entry_state, size)
           free == has_free_entries(entry_state, level_4_entries(size))
<1>1. /\ failure = None /\ pc = "kernel" /\ ~Kernel.fixed /\ machine \in Machines /\ UNCHANGED machine
      /\ IF free
           THEN /\ at' = [at EXCEPT !["kernel"] = addr]
                /\ entry_state' = mark_segments(take(entry_state, size), x, addr - low)
                /\ pc' = "map_kernel" /\ UNCHANGED failure
           ELSE failure' = "no_entries" /\ UNCHANGED <<at, entry_state, pc>>
  BY DEF PlaceSharedObject, At, Goto, RefInv
<1>2. size \in Nat
  BY <1>1, KernelExtent
<1>3. x \in RelocatableKernels
  BY <1>1 DEF RelocatableKernels, Kernel
<1>4. layout_stage = "kernel"
  BY <1>1, StageIs, NoneAssumption DEF Failures, StageOf
<1> HIDE DEF x, size
<1>5. CASE free
  <2>1. addr \in Nat
    BY <1>2, <1>5, FreeAddress
  <2> HIDE DEF addr
  <2>2. placed_entries' = [placed_entries EXCEPT !["kernel"] = segment_entries(x, addr - low)]
    BY <1>1, <1>5, <2>1, KernelPlaced DEF x
  <2>3. layout_stage' = "stack"
    BY <1>1, <1>5, StageIs, NoneAssumption DEF Failures, StageOf
  <2>4. RefInv'
    BY <1>1, <1>5, <2>1 DEF RefInv, Steps, Things
  <2>5. Layout!LoadSharedObject
    BY <1>1, <1>3, <1>4, <1>5, <2>2, <2>3, EntriesOfLayout
    DEF Layout!LoadSharedObject, Layout!virtual_address_offset, addr, size
  <2> QED
    BY <2>4, <2>5
<1>6. CASE ~free
  <2>1. layout_stage' = "panicked"
    BY <1>1, <1>6, StageIs
  <2>2. placed_entries' = placed_entries
    <3>1. UNCHANGED <<machine, at>>
      BY <1>1, <1>6
    <3> QED
      BY <3>1 DEF placed_entries, image_offset, Kernel, size_of, Memory, Framebuffer, Ramdisk, boot_info_size
  <2>3. RefInv'
    BY <1>1, <1>6 DEF RefInv, Failures
  <2>4. Layout!LoadSharedObject
    BY <1>1, <1>3, <1>4, <1>6, <2>1, <2>2, EntriesOfLayout
    DEF Layout!LoadSharedObject, size
  <2> QED
    BY <2>3, <2>4
<1> QED
  BY <1>5, <1>6

\* What may go wrong in map_to.
LEMMA MapOutcome ==
  ASSUME NEW space, NEW page, NEW pages, NEW own, NEW writes
  PROVE  map_to_outcome(space, page, pages, own, writes) \in {"no_frame", "fault", "already_mapped", None}
BY DEF map_to_outcome

LEMMA LoopStep ==
  ASSUME RefInv, failure = None, NEW space, NEW page, NEW pages, NEW frame, NEW own, NEW writes,
         map_to(space, page, pages, frame, own, writes),
         NEW count, NEW next \in Steps, EndIteration(count, next), StageOf(next) = StageOf(pc)
  PROVE  RefInv' /\ UNCHANGED Layout!vars
<1>1. failure' \in {"no_frame", "fault", "already_mapped", None}
  BY MapOutcome DEF map_to
<1>2. pc' \in {pc, next} /\ UNCHANGED <<machine, entry_state, at>>
  BY DEF EndIteration, Goto
<1> QED
  BY <1>1, <1>2, MapStep DEF RefInv

LEMMA InitRefines == Init => RefInv /\ Layout!Init
<1> SUFFICES ASSUME Init PROVE RefInv /\ Layout!Init
  OBVIOUS
<1>1. RefInv
  BY DEF Init, RefInv, Steps
<1>2. layout_stage = "kernel"
  BY StageIs, NoneAssumption DEF Init, Failures, StageOf
<1>3. placed_entries = [t \in Things |-> {}]
  BY DEF Init, placed_entries
<1> QED
  BY <1>1, <1>2, <1>3, EntriesOfLayout DEF Init, Layout!Init, Layout!Things, Things

LEMMA NextRefines == RefInv /\ [Next]_vars => RefInv' /\ [Layout!Next]_(Layout!vars)
<1> SUFFICES ASSUME RefInv, [Next]_vars PROVE RefInv' /\ [Layout!Next]_(Layout!vars)
  OBVIOUS
<1>2. /\ machine \in Machines /\ Memory.max_phys \in Nat /\ machine.descriptors \in Nat
      /\ Framebuffer # None => Framebuffer.byte_len \in Nat
      /\ Ramdisk # None => Ramdisk.len \in Nat
  BY MachinesAssumption DEF RefInv, WellFormed, WellFormedMemory, Memory, Framebuffer, Ramdisk
<1>3. /\ PAGE_SIZE + STACK_SIZE \in MappedSizes
      /\ Framebuffer # None => Framebuffer.byte_len \in MappedSizes \cup {0}
      /\ Ramdisk # None => Ramdisk.len \in MappedSizes
      /\ Memory.max_phys \in MappedSizes /\ boot_info_size \in MappedSizes
  BY <1>2 DEF MappedSizes, Memory, Framebuffer, Ramdisk, boot_info_size
<1>4. /\ PAGE_SIZE + STACK_SIZE \in Nat /\ boot_info_size \in Nat
      /\ Framebuffer # None => Framebuffer.byte_len \in Nat
      /\ Ramdisk # None => Ramdisk.len \in Nat /\ Memory.max_phys \in Nat
  BY <1>2, <1>3, SizesMapped
<1>5. failure = None => layout_stage = StageOf(pc)
  BY StageIs, NoneAssumption DEF Failures
<1>6. Things = {"kernel", "stack", "framebuffer", "ramdisk", "physical_memory", "boot_info"}
  BY DEF Things
<1>7. CASE CreateBootloaderTable
  <2>1. /\ failure = None /\ pc = "bootloader_table" /\ pc' \in {"bootloader_table", "kernel_table"}
        /\ failure' \in {"no_frame", "fault", None} /\ UNCHANGED <<machine, entry_state, at>>
    BY <1>7 DEF CreateBootloaderTable, At, NewLevel4Table, Goto
  <2> QED
    BY <2>1, MapStep DEF Steps, StageOf
<1>8. CASE CreateKernelTable
  <2>1. /\ failure = None /\ pc = "kernel_table" /\ pc' \in {"kernel_table", "kernel"}
        /\ failure' \in {"no_frame", "fault", None} /\ UNCHANGED <<machine, entry_state, at>>
    BY <1>8 DEF CreateKernelTable, At, NewLevel4Table, Goto
  <2> QED
    BY <2>1, MapStep DEF Steps, StageOf
<1>9. CASE PlaceExecutable
  BY <1>9, ExecutableStep DEF Layout!Next
<1>10. CASE PlaceSharedObject
  BY <1>10, SharedObjectStep DEF Layout!Next
<1>11. CASE MapKernelPage
  <2>1. /\ failure = None /\ pc = "map_kernel" /\ pc' \in {"map_kernel", "stack"}
        /\ UNCHANGED <<machine, entry_state, at>>
    BY <1>11 DEF MapKernelPage, At, Goto
  <2>2. failure' \in {"no_frame", "fault", "already_mapped", None}
    BY <1>11, MapOutcome DEF MapKernelPage, map_to
  <2> QED
    BY <2>1, <2>2, MapStep DEF Steps, StageOf
<1>12. CASE PlaceStack
  <2>1. RefInv' /\ Layout!mapping_addr("stack", PAGE_SIZE + STACK_SIZE, StageOf("map_stack"))
    BY <1>4, <1>6, <1>12, PlaceStep DEF PlaceStack, At, size_of, Steps
  <2>2. layout_stage = "stack" /\ StageOf("map_stack") = "framebuffer"
    BY <1>5, <1>12 DEF PlaceStack, At, StageOf
  <2> QED
    BY <1>3, <2>1, <2>2 DEF Layout!Next, Layout!MapStack
<1>13. CASE MapStackPage
  BY <1>13, LoopStep DEF MapStackPage, At, Steps, StageOf
<1>14. CASE IdentityMapCode
  BY <1>14, LoopStep DEF IdentityMapCode, At, Steps, StageOf
<1>15. CASE create_and_load
  <2>1. /\ failure = None /\ pc = "gdt" /\ pc' \in {"gdt", "map_gdt"}
        /\ failure' \in {"no_frame", "fault", None} /\ UNCHANGED <<machine, entry_state, at>>
    BY <1>15 DEF create_and_load, At, Goto
  <2> QED
    BY <2>1, MapStep DEF Steps, StageOf
<1>16. CASE MapGdt
  BY <1>16, LoopStep DEF MapGdt, At, Steps, StageOf
<1>17. CASE PlaceFramebuffer
  <2>1. Framebuffer # None /\ pc = "framebuffer" /\ failure = None
    BY <1>17 DEF PlaceFramebuffer, At
  <2>2. RefInv' /\ Layout!mapping_addr("framebuffer", Framebuffer.byte_len, StageOf("map_framebuffer"))
    BY <1>4, <1>6, <1>17, <2>1, PlaceStep DEF PlaceFramebuffer, size_of, Steps
  <2>3. layout_stage = "framebuffer" /\ StageOf("map_framebuffer") = "ramdisk"
    BY <1>5, <2>1 DEF StageOf
  <2> QED
    BY <1>3, <2>1, <2>2, <2>3 DEF Layout!Next, Layout!MapFramebuffer
<1>18. CASE NoFramebuffer
  <2>1. /\ pc = "framebuffer" /\ failure = None /\ pc' = "ramdisk"
        /\ UNCHANGED <<machine, entry_state, at, failure>>
    BY <1>18 DEF NoFramebuffer, At, Skip, Goto
  <2>2. layout_stage = "framebuffer" /\ layout_stage' = "ramdisk"
    BY <2>1, StageIs, NoneAssumption DEF Failures, StageOf
  <2>3. placed_entries' = placed_entries
    BY <2>1 DEF placed_entries, image_offset, Kernel, size_of, Memory, Framebuffer, Ramdisk, boot_info_size
  <2>4. RefInv'
    BY <2>1 DEF RefInv, Steps
  <2> QED
    BY <2>1, <2>2, <2>3, <2>4 DEF Layout!Next, Layout!NoFramebuffer
<1>19. CASE MapFramebufferPage
  BY <1>19, LoopStep DEF MapFramebufferPage, At, Steps, StageOf
<1>20. CASE PlaceRamdisk
  <2>1. Ramdisk # None /\ pc = "ramdisk" /\ failure = None
    BY <1>20 DEF PlaceRamdisk, At
  <2>2. RefInv' /\ Layout!mapping_addr("ramdisk", Ramdisk.len, StageOf("map_ramdisk"))
    BY <1>4, <1>6, <1>20, <2>1, PlaceStep DEF PlaceRamdisk, size_of, Steps
  <2>3. layout_stage = "ramdisk" /\ StageOf("map_ramdisk") = "physical_memory"
    BY <1>5, <2>1 DEF StageOf
  <2> QED
    BY <1>3, <2>1, <2>2, <2>3 DEF Layout!Next, Layout!MapRamdisk
<1>21. CASE NoRamdisk
  <2>1. /\ pc = "ramdisk" /\ failure = None /\ pc' = "physical_memory"
        /\ UNCHANGED <<machine, entry_state, at, failure>>
    BY <1>21 DEF NoRamdisk, At, Skip, Goto
  <2>2. layout_stage = "ramdisk" /\ layout_stage' = "physical_memory"
    BY <2>1, StageIs, NoneAssumption DEF Failures, StageOf
  <2>3. placed_entries' = placed_entries
    BY <2>1 DEF placed_entries, image_offset, Kernel, size_of, Memory, Framebuffer, Ramdisk, boot_info_size
  <2>4. RefInv'
    BY <2>1 DEF RefInv, Steps
  <2> QED
    BY <2>1, <2>2, <2>3, <2>4 DEF Layout!Next, Layout!NoRamdisk
<1>22. CASE MapRamdiskPage
  <2> DEFINE page  == containing(at["ramdisk"]) + loop
             frame == containing(Ramdisk.addr) + loop
             count == ramdisk_page_count + 1
  <2>1. /\ failure = None /\ pc = "map_ramdisk" /\ map_to("kernel", page, 1, frame, 0, FALSE)
        /\ EndIteration(count, "physical_memory")
    BY <1>22 DEF MapRamdiskPage, At
  <2>2. "physical_memory" \in Steps /\ StageOf("physical_memory") = StageOf(pc)
    BY <2>1 DEF Steps, StageOf
  <2> HIDE DEF page, frame, count
  <2> QED
    BY <2>1, <2>2, LoopStep
<1>23. CASE PlacePhysicalMemory
  <2>1. pc = "physical_memory" /\ failure = None
    BY <1>23 DEF PlacePhysicalMemory, At
  <2>2. RefInv' /\ Layout!mapping_addr("physical_memory", Memory.max_phys, StageOf("map_physical_memory"))
    BY <1>2, <1>6, <1>23, <2>1, PlaceStep DEF PlacePhysicalMemory, size_of, Steps
  <2>3. layout_stage = "physical_memory" /\ StageOf("map_physical_memory") = "boot_info"
    BY <1>5, <2>1 DEF StageOf
  <2> QED
    BY <1>3, <2>1, <2>2, <2>3 DEF Layout!Next, Layout!MapPhysicalMemory
<1>24. CASE MapPhysicalMemoryPage
  <2> DEFINE page  == containing(at["physical_memory"]) + FANOUT * loop
             frame == FANOUT * loop
  <2>1. /\ failure = None /\ pc = "map_physical_memory" /\ map_to("kernel", page, FANOUT, frame, 0, FALSE)
        /\ EndIteration(huge_frames, "boot_info")
    BY <1>24 DEF MapPhysicalMemoryPage, At
  <2>2. "boot_info" \in Steps /\ StageOf("boot_info") = StageOf(pc)
    BY <2>1 DEF Steps, StageOf
  <2> HIDE DEF page, frame
  <2> QED
    BY <2>1, <2>2, LoopStep
<1>25. CASE PlaceBootInfo
  <2>1. pc = "boot_info" /\ failure = None
    BY <1>25 DEF PlaceBootInfo, At
  <2>2. RefInv' /\ Layout!mapping_addr("boot_info", boot_info_size, StageOf("map_boot_info"))
    BY <1>4, <1>6, <1>25, <2>1, PlaceStep DEF PlaceBootInfo, size_of, Steps
  <2>3. layout_stage = "boot_info" /\ StageOf("map_boot_info") = "done"
    BY <1>5, <2>1 DEF StageOf
  <2> QED
    BY <1>3, <2>1, <2>2, <2>3 DEF Layout!Next, Layout!MapBootInfo
<1>26. CASE MapBootInfoKernel
  <2>1. /\ failure = None /\ pc = "map_boot_info" /\ pc' \in {"map_boot_info", "map_boot_info_again"}
        /\ UNCHANGED <<machine, entry_state, at>>
    BY <1>26 DEF MapBootInfoKernel, At
  <2>2. failure' \in {"no_frame", "fault", "already_mapped", None}
    BY <1>26, MapOutcome DEF MapBootInfoKernel, map_to
  <2> QED
    BY <2>1, <2>2, MapStep DEF Steps, StageOf
<1>27. CASE MapBootInfoBootloader
  <2>1. /\ failure = None /\ pc = "map_boot_info_again" /\ UNCHANGED <<machine, entry_state, at>>
        /\ pc' \in {"map_boot_info_again", "map_boot_info", "write_boot_info"}
    BY <1>27 DEF MapBootInfoBootloader, At, Goto
  <2>2. failure' \in {"no_frame", "fault", "already_mapped", None}
    BY <1>27, MapOutcome DEF MapBootInfoBootloader, map_to
  <2> QED
    BY <2>1, <2>2, MapStep DEF Steps, StageOf
<1>28. CASE WriteBootInfo
  <2>1. /\ failure = None /\ pc = "write_boot_info" /\ pc' \in {"write_boot_info", "switch"}
        /\ failure' \in {"fault", None} /\ UNCHANGED <<machine, entry_state, at>>
    BY <1>28 DEF WriteBootInfo, At, Goto
  <2> QED
    BY <2>1, MapStep DEF Steps, StageOf
<1>29. CASE context_switch
  <2>1. /\ failure = None /\ pc = "switch" /\ pc' \in {"switch", "kernel_main"}
        /\ failure' \in {"fault", None} /\ UNCHANGED <<machine, entry_state, at>>
    BY <1>29 DEF context_switch, At, Goto
  <2> QED
    BY <2>1, MapStep DEF Steps, StageOf
<1>30. CASE KernelMain
  <2>1. /\ failure = None /\ pc = "kernel_main" /\ pc' \in {"kernel_main", "init_heap"}
        /\ failure' \in {"no_framebuffer", None} /\ UNCHANGED <<machine, entry_state, at>>
    BY <1>30 DEF KernelMain, At, Goto
  <2> QED
    BY <2>1, MapStep DEF Steps, StageOf
<1>31. CASE init_heap
  BY <1>31, LoopStep DEF init_heap, At, Steps, StageOf
<1>32. CASE UNCHANGED vars
  <2>1. RefInv' /\ layout_stage' = layout_stage
    BY <1>32, StageIs DEF vars, RefInv
  <2>2. placed_entries' = placed_entries
    BY <1>32 DEF vars, placed_entries, image_offset, Kernel, size_of, Memory, Framebuffer, Ramdisk, boot_info_size
  <2> QED
    BY <1>32, <2>1, <2>2 DEF vars, Layout!vars
<1>33. CASE HeadersUnreadable \/ RefuseKernelPage
  <2>1. /\ failure = None /\ pc \in {"kernel", "map_kernel"} /\ pc' = pc
        /\ failure' \in {"fault", "already_mapped"} /\ UNCHANGED <<machine, entry_state, at>>
    BY <1>33 DEF HeadersUnreadable, RefuseKernelPage, refusal, At
  <2> QED
    BY <2>1, MapStep DEF Steps, StageOf
<1> QED
  BY <1>7, <1>8, <1>9, <1>10, <1>11, <1>12, <1>13, <1>14, <1>15, <1>16, <1>17, <1>18, <1>19, <1>20,
     <1>21, <1>22, <1>23, <1>24, <1>25, <1>26, <1>27, <1>28, <1>29, <1>30, <1>31, <1>32, <1>33 DEF Next

(***************************************************************************)
(* For every machine, seen from the level-4 entries, set_up_mappings,      *)
(* load_kernel and create_boot_info do what VirtualLayout says.            *)
(***************************************************************************)
THEOREM MappingsFollowLayout == Spec => ImplementsLayout
BY InitRefines, NextRefines, PTL DEF Spec, ImplementsLayout, Layout!Spec

-----------------------------------------------------------------------------
(***************************************************************************)
(* What VirtualLayoutProofs proves, of the mapping code.                   *)
(***************************************************************************)
LEMMA SameLayout ==
  /\ Layout!Init => LayoutThms!Init
  /\ [Layout!Next]_(Layout!vars) => [LayoutThms!Next]_(LayoutThms!vars)
<1>1. Layout!Init => LayoutThms!Init
  BY EntriesOfThms, EntriesOfLayout DEF Layout!Init, LayoutThms!Init, Layout!Things, LayoutThms!Things
<1>2. \A t, z, n : Layout!mapping_addr(t, z, n) => LayoutThms!mapping_addr(t, z, n)
  BY EntriesOfThms, EntriesOfLayout DEF Layout!mapping_addr, LayoutThms!mapping_addr
<1>3. Layout!LoadExecutable => LayoutThms!LoadExecutable
  BY EntriesOfThms, EntriesOfLayout DEF Layout!LoadExecutable, LayoutThms!LoadExecutable
<1>4. Layout!LoadSharedObject => LayoutThms!LoadSharedObject
  BY EntriesOfThms, EntriesOfLayout
  DEF Layout!LoadSharedObject, LayoutThms!LoadSharedObject,
      Layout!virtual_address_offset, LayoutThms!virtual_address_offset
<1>5. /\ Layout!MapStack => LayoutThms!MapStack
      /\ Layout!MapFramebuffer => LayoutThms!MapFramebuffer
      /\ Layout!MapRamdisk => LayoutThms!MapRamdisk
      /\ Layout!MapPhysicalMemory => LayoutThms!MapPhysicalMemory
      /\ Layout!MapBootInfo => LayoutThms!MapBootInfo
  BY <1>2
  DEF Layout!MapStack, Layout!MapFramebuffer, Layout!MapRamdisk, Layout!MapPhysicalMemory, Layout!MapBootInfo,
      LayoutThms!MapStack, LayoutThms!MapFramebuffer, LayoutThms!MapRamdisk,
      LayoutThms!MapPhysicalMemory, LayoutThms!MapBootInfo
<1>6. /\ Layout!NoFramebuffer => LayoutThms!NoFramebuffer
      /\ Layout!NoRamdisk => LayoutThms!NoRamdisk
  BY DEF Layout!NoFramebuffer, LayoutThms!NoFramebuffer, Layout!NoRamdisk, LayoutThms!NoRamdisk
<1> QED
  BY <1>1, <1>3, <1>4, <1>5, <1>6 DEF Layout!Next, LayoutThms!Next, Layout!vars, LayoutThms!vars

LayoutInv == LayoutThms!IInv /\ LayoutThms!KernelFirst

LEMMA InitLayout == Init => LayoutInv
BY InitRefines, SameLayout, LayoutAssumptions, LayoutThms!InitIInv DEF LayoutInv

LEMMA NextLayout == RefInv /\ LayoutInv /\ [Next]_vars => LayoutInv'
<1>1. LayoutThms!IInv /\ LayoutThms!KernelFirst /\ [LayoutThms!Next]_(LayoutThms!vars) =>
        (LayoutThms!IInv /\ LayoutThms!KernelFirst)'
  BY LayoutAssumptions, LayoutThms!NextIInv
<1> QED
  BY <1>1, NextRefines, SameLayout DEF LayoutInv

(***************************************************************************)
(* On every machine the level-4 entries of what set_up_mappings, the       *)
(* loader and create_boot_info place are disjoint, and none is entry 0:    *)
(* a mapping of one is never refused because of another.                   *)
(***************************************************************************)
THEOREM MappingsDisjoint == Spec => []Layout!PlacesDisjoint
<1>1. LayoutInv => Layout!PlacesDisjoint
  BY DEF LayoutInv, LayoutThms!IInv, LayoutThms!PlacesDisjoint, Layout!PlacesDisjoint,
         LayoutThms!Things, Layout!Things
<1> QED
  BY <1>1, InitLayout, NextLayout, InitRefines, NextRefines, PTL DEF Spec
-----------------------------------------------------------------------------
(***************************************************************************)
(* The inductive invariant.  The steps of the boot in their order, and how *)
(* far the mapping loops are: a loop maps Width(s) pages at a time from    *)
(* the page First(s) on, Count(s) times, and Done(s) times so far.         *)
(***************************************************************************)
Rank(p) ==
  CASE p = "bootloader_table" -> 1 [] p = "kernel_table" -> 2 [] p = "kernel" -> 3
    [] p = "map_kernel" -> 4 [] p = "stack" -> 5 [] p = "map_stack" -> 6
    [] p = "identity_map" -> 7 [] p = "gdt" -> 8 [] p = "map_gdt" -> 9
    [] p = "framebuffer" -> 10 [] p = "map_framebuffer" -> 11
    [] p = "ramdisk" -> 12 [] p = "map_ramdisk" -> 13
    [] p = "physical_memory" -> 14 [] p = "map_physical_memory" -> 15
    [] p = "boot_info" -> 16 [] p = "map_boot_info" -> 17 [] p = "map_boot_info_again" -> 18
    [] p = "write_boot_info" -> 19 [] p = "switch" -> 20 [] p = "kernel_main" -> 21
    [] p = "init_heap" -> 22 [] p = "running" -> 23

MapSteps ==
  {"map_stack", "identity_map", "map_gdt", "map_framebuffer", "map_ramdisk",
   "map_physical_memory", "map_boot_info", "init_heap"}

First(s) ==
  CASE s = "map_stack"           -> containing(stack_start)
    [] s = "identity_map"        -> machine.code
    [] s = "map_gdt"             -> gdtr
    [] s = "map_framebuffer"     -> containing(at["framebuffer"])
    [] s = "map_ramdisk"         -> containing(at["ramdisk"])
    [] s = "map_physical_memory" -> containing(at["physical_memory"])
    [] s = "map_boot_info"       -> containing(at["boot_info"])
    [] s = "init_heap"           -> containing(HEAP_START)

Width(s) == IF s = "map_physical_memory" THEN FANOUT ELSE 1

Count(s) ==
  CASE s = "map_stack"           -> containing(stack_top - 1) - containing(stack_start) + 1
    [] s = "identity_map"        -> 2
    [] s = "map_gdt"             -> 1
    [] s = "map_framebuffer"     -> IF Framebuffer = None THEN 0 ELSE Cardinality(framebuffer_frames)
    [] s = "map_ramdisk"         -> IF Ramdisk = None THEN 0 ELSE ramdisk_page_count + 1
    [] s = "map_physical_memory" -> huge_frames
    [] s = "map_boot_info"       -> containing(at["boot_info"] + boot_info_size - 1)
                                      - containing(at["boot_info"]) + 1
    [] s = "init_heap"           -> Cardinality(pages_of(HEAP_START, HEAP_SIZE))

Done(s) ==
  IF pc = s THEN loop
  ELSE IF s = "map_boot_info" /\ pc = "map_boot_info_again" THEN loop + 1
  ELSE IF Rank(pc) > Rank(s) THEN Count(s)
  ELSE 0

Pages(s) == First(s) .. First(s) + Width(s) * Done(s) - 1

LoopInv ==
  /\ loop \in Nat
  /\ IF pc \in MapSteps THEN loop < Count(pc)
     ELSE IF pc = "map_boot_info_again" THEN loop < Count("map_boot_info")
     ELSE loop = 0

Present(t) == (t = "framebuffer" => Framebuffer # None) /\ (t = "ramdisk" => Ramdisk # None)

\* What is placed when, and where; the frames of the code and of the GDT.
AtInv ==
  /\ \A t \in Things : at[t] # NoAddress <=> Rank(pc) > Rank(t) /\ Present(t)
  /\ \A t \in Things : at[t] # NoAddress =>
       IF t = "kernel" /\ Kernel.fixed THEN at[t] = min_addr(Kernel.segments)
       ELSE \E e \in EntryIndex : at[t] = e * LEVEL_4_SIZE
  /\ at["framebuffer"] # NoAddress => Framebuffer.byte_len > 0
  /\ IF Rank(pc) > Rank("gdt") THEN gdtr \in 0 .. EntryPages - 1 ELSE gdtr = NoAddress
  /\ Rank(pc) > Rank("bootloader_table") => machine.code < EntryPages

\* What is mapped in the kernel's address space.
DomInv ==
  /\ DOMAIN mapped = Spaces /\ IsFiniteSet(DOMAIN mapped["kernel"])
  /\ \A p \in DOMAIN mapped["kernel"] :
       \/ at["kernel"] # NoAddress /\ p \in kernel_pages
       \/ \E s \in MapSteps : p \in Pages(s)
  /\ \A s \in MapSteps : Pages(s) \subseteq DOMAIN mapped["kernel"]
  /\ pc = "map_kernel" => unmapped_kernel_pages # {}
  /\ Rank(pc) > Rank("map_kernel") => unmapped_kernel_pages = {}

FirstFrame(s) ==
  CASE s = "identity_map"        -> machine.code
    [] s = "map_gdt"             -> gdtr
    [] s = "map_framebuffer"     -> containing(Framebuffer.addr)
    [] s = "map_ramdisk"         -> containing(Ramdisk.addr)
    [] s = "map_physical_memory" -> 0

ShownSteps == {"identity_map", "map_gdt", "map_framebuffer", "map_ramdisk", "map_physical_memory"}

\* What the pages show.
ShowInv ==
  /\ \A p \in DOMAIN mapped["kernel"] : mapped["kernel"][p] \in Nat
  /\ \A s \in ShownSteps : \A p \in Pages(s) : mapped["kernel"][p] = FirstFrame(s) + (p - First(s))

LoaderDone ==
  IF pc \in {"map_boot_info", "map_boot_info_again"} THEN loop
  ELSE IF Rank(pc) > Rank("map_boot_info_again") THEN Count("map_boot_info") ELSE 0

\* BootInfo, in the loader's address space and as it is written.
BootInv ==
  /\ DOMAIN mapped["bootloader"] = First("map_boot_info") .. First("map_boot_info") + LoaderDone - 1
  /\ \A p \in DOMAIN mapped["bootloader"] : mapped["bootloader"][p] = mapped["kernel"][p]
  /\ IF Rank(pc) > Rank("write_boot_info")
       THEN boot_info = [framebuffer            |-> at["framebuffer"],
                         physical_memory_offset |-> at["physical_memory"],
                         ramdisk_address        |-> at["ramdisk"],
                         ramdisk_len            |-> IF Ramdisk = None THEN 0 ELSE Ramdisk.len]
       ELSE boot_info = None

\* The level-4 entries whose mappings are made of single pages, while initium runs.
PageEntries == {0} \cup UNION {placed_entries[t] : t \in Things \ {"physical_memory"}}

InNukleus == pc \in {"init_heap", "running"}

TableInv ==
  /\ DOMAIN tables = Spaces
  /\ Rank(pc) > Rank("bootloader_table") => <<4, 0>> \in DOMAIN tables["bootloader"]
  /\ Rank(pc) > Rank("kernel_table") => <<4, 0>> \in DOMAIN tables["kernel"]
  /\ \A s \in Spaces : IsFiniteSet(DOMAIN tables[s])
  /\ \A s \in Spaces : \A t \in DOMAIN tables[s] :
       /\ t \in (1 .. 4) \X Nat /\ tables[s][t] \in frames_of(Memory)
       /\ Rank(pc) > Rank("kernel_table") /\ ~InNukleus => tables[s][t] < EntryPages
  /\ ~InNukleus => \A t \in DOMAIN tables["kernel"] :
       t[1] = 1 => t[2] \div (FANOUT * FANOUT) \in PageEntries

SupplyInv ==
  /\ supply \in Seq(frames_of(Memory))
  /\ \A i \in 1 .. Len(supply) : \A j \in 1 .. i - 1 : supply[i] # supply[j]
  /\ ~InNukleus =>
       /\ Len(supply) <= Len(Memory.free)
       /\ \A i \in 1 .. Len(supply) : supply[i] = Memory.free[Len(Memory.free) - Len(supply) + i]

\* No two users share a frame, and none has one that is still to be granted.
UsersInv ==
  /\ \A u, v \in Users : frame_of(u) = frame_of(v) => u = v
  /\ \A u \in Users : \A i \in 1 .. Len(supply) : supply[i] # frame_of(u)
  /\ ~InNukleus => \A u \in Users : u = <<"code">> \/
       \E i \in 1 .. Len(Memory.free) - Len(supply) : frame_of(u) = Memory.free[i]

MInv == /\ LoopInv /\ AtInv /\ DomInv /\ ShowInv /\ BootInv
        /\ TableInv /\ SupplyInv /\ UsersInv
-----------------------------------------------------------------------------
(***************************************************************************)
(* Division by a positive number.                                          *)
(***************************************************************************)
LEMMA DivBounds ==
  ASSUME NEW b \in Nat \ {0}, NEW a \in Nat
  PROVE  a \div b \in Nat /\ b * (a \div b) <= a /\ a < b * (a \div b) + b
OBVIOUS

LEMMA TimesOrdered ==
  ASSUME NEW b \in Nat \ {0}, NEW q \in Nat, NEW r \in Nat, q > r
  PROVE  b * q >= b * r + b
OBVIOUS

LEMMA DivUnique ==
  ASSUME NEW b \in Nat \ {0}, NEW q \in Nat, NEW a \in Nat, b * q <= a, a < b * q + b
  PROVE  a \div b = q
<1>1. a \div b \in Nat /\ b * (a \div b) <= a /\ a < b * (a \div b) + b
  BY DivBounds
<1>2. ~(q > a \div b)
  BY <1>1, TimesOrdered
<1>3. ~(q < a \div b)
  BY <1>1, TimesOrdered
<1> QED
  BY <1>1, <1>2, <1>3

LEMMA DivMonotone ==
  ASSUME NEW b \in Nat \ {0}, NEW a \in Nat, NEW c \in Nat, a <= c
  PROVE  a \div b <= c \div b
<1>1. /\ a \div b \in Nat /\ b * (a \div b) <= a
      /\ c \div b \in Nat /\ c < b * (c \div b) + b
  BY DivBounds
<1>2. ~(a \div b > c \div b)
  BY <1>1, TimesOrdered
<1> QED
  BY <1>1, <1>2

LEMMA DivOfSum ==
  ASSUME NEW b \in Nat \ {0}, NEW q \in Nat, NEW r \in Nat
  PROVE  (q * b + r) \div b = q + r \div b
<1>1. r \div b \in Nat /\ b * (r \div b) <= r /\ r < b * (r \div b) + b
  BY DivBounds
<1>2. b * (q + r \div b) = q * b + b * (r \div b)
  BY <1>1
<1>3. q * b \in Nat /\ b * (r \div b) \in Nat
  BY <1>1
<1> DEFINE Q == q + r \div b
           A == q * b + r
<1>4. Q \in Nat /\ A \in Nat /\ b * Q <= A /\ A < b * Q + b
  BY <1>1, <1>2, <1>3
<1> HIDE DEF Q, A
<1>5. A \div b = Q
  BY <1>4, DivUnique
<1> QED
  BY <1>5 DEF A, Q

LEMMA DivOfDiv ==
  ASSUME NEW b \in Nat \ {0}, NEW c \in Nat \ {0}, NEW a \in Nat
  PROVE  (a \div b) \div c = a \div (b * c) /\ b * c \in Nat \ {0}
<1> DEFINE r == a \div b
           q == r \div c
<1>1. r \in Nat /\ b * r <= a /\ a < b * r + b
  BY DivBounds
<1> HIDE DEF r
<1>2. q \in Nat /\ c * q <= r /\ r < c * q + c
  BY <1>1, DivBounds
<1> HIDE DEF q
<1>3. b * c \in Nat \ {0} /\ c * q \in Nat /\ (b * c) * q = b * (c * q)
  <2>1. b * c \in Nat \ {0} /\ c * q \in Nat
    BY <1>2
  <2>2. (b * c) * q = b * (c * q)
    BY <1>2
  <2> QED
    BY <2>1, <2>2
<1> DEFINE d == c * q
<1>4. d \in Nat /\ (b * c) * q = b * d
  BY <1>3
<1>5. d <= r /\ r < d + c
  BY <1>2
<1> HIDE DEF d
<1>6. b * d <= b * r
  <2>1. d = r \/ r > d
    BY <1>1, <1>4, <1>5
  <2>2. b * d \in Nat /\ b * r \in Nat
    BY <1>1, <1>4
  <2> QED
    BY <1>1, <1>4, <2>1, <2>2, TimesOrdered
<1>7. b * r + b <= b * d + b * c
  <2>1. d + c \in Nat /\ d + c > r
    BY <1>1, <1>4, <1>5
  <2>2. b * (d + c) >= b * r + b
    BY <1>1, <2>1, TimesOrdered
  <2>3. b * (d + c) = b * d + b * c
    BY <1>4
  <2>4. b * d \in Nat /\ b * r \in Nat
    BY <1>1, <1>4
  <2> QED
    BY <1>3, <2>2, <2>3, <2>4
<1> DEFINE bc == b * c
<1>8. bc \in Nat \ {0} /\ bc * q <= a /\ a < bc * q + bc
  <2>1. b * d \in Nat /\ b * r \in Nat
    BY <1>1, <1>4
  <2> QED
    BY <1>1, <1>3, <1>4, <1>6, <1>7, <2>1
<1> HIDE DEF bc
<1>9. a \div bc = q
  BY <1>2, <1>8, DivUnique
<1> QED
  BY <1>3, <1>9 DEF bc, q, r

(***************************************************************************)
(* Pages and level-4 entries.                                              *)
(***************************************************************************)
LEMMA Paging ==
  /\ PAGE_SIZE \in Nat \ {0} /\ FANOUT \in Nat \ {0}
  /\ FANOUT * FANOUT \in Nat \ {0} /\ EntryPages \in Nat \ {0} /\ EntryPages = FANOUT * (FANOUT * FANOUT)
  /\ PAGE_SIZE * FANOUT \in Nat \ {0}
  /\ LEVEL_4_SIZE \in Nat \ {0} /\ LEVEL_4_SIZE = PAGE_SIZE * EntryPages
  /\ NumEntries \in Nat \ {0}
<1>1. \A a, b \in Nat \ {0} : a * b \in Nat \ {0}
  OBVIOUS
<1>2. PAGE_SIZE \in Nat \ {0} /\ FANOUT \in Nat \ {0} /\ LEVEL_4_SIZE = PAGE_SIZE * EntryPages
  BY PagingAssumption
<1>3. FANOUT * FANOUT \in Nat \ {0} /\ PAGE_SIZE * FANOUT \in Nat \ {0}
  BY <1>1, <1>2
<1>4. EntryPages \in Nat \ {0} /\ EntryPages = FANOUT * (FANOUT * FANOUT)
  BY <1>1, <1>2, <1>3 DEF EntryPages
<1> QED
  BY <1>2, <1>3, <1>4, EntriesAssumption

LEMMA PageOfAddress ==
  ASSUME NEW a \in Nat
  PROVE  /\ containing(a) \in Nat
         /\ containing(a) \div EntryPages = p4_index(a) /\ p4_index(a) \in Nat
         /\ PAGE_SIZE * containing(a) <= a /\ a < PAGE_SIZE * containing(a) + PAGE_SIZE
<1>1. (a \div PAGE_SIZE) \div EntryPages = a \div (PAGE_SIZE * EntryPages)
  BY Paging, DivOfDiv
<1>2. /\ a \div PAGE_SIZE \in Nat /\ PAGE_SIZE * (a \div PAGE_SIZE) <= a
      /\ a < PAGE_SIZE * (a \div PAGE_SIZE) + PAGE_SIZE
  BY Paging, DivBounds
<1>3. p4_index(a) \in Nat
  BY Paging, DivBounds DEF p4_index
<1> QED
  BY <1>1, <1>2, <1>3, Paging DEF containing, p4_index

LEMMA PagesOrdered ==
  ASSUME NEW a \in Nat, NEW b \in Nat, a <= b
  PROVE  containing(a) <= containing(b)
BY Paging, DivMonotone DEF containing

\* The entry of a page.
LEMMA EntryOfPage ==
  ASSUME NEW p \in Nat
  PROVE  /\ p \div EntryPages \in Nat
         /\ (p \div FANOUT) \div (FANOUT * FANOUT) = p \div EntryPages
         /\ p \div EntryPages = 0 <=> p < EntryPages
<1>1. p \div EntryPages \in Nat /\ EntryPages * (p \div EntryPages) <= p
      /\ p < EntryPages * (p \div EntryPages) + EntryPages
  BY Paging, DivBounds
<1>2. (p \div FANOUT) \div (FANOUT * FANOUT) = p \div EntryPages
  BY Paging, DivOfDiv
<1>3. p < EntryPages => p \div EntryPages = 0
  BY Paging, DivUnique
<1>4. p \div EntryPages = 0 => p < EntryPages
  BY <1>1, Paging
<1> QED
  BY <1>1, <1>2, <1>3, <1>4

\* An address that starts an entry, and one some way behind it.
LEMMA AlignedAddress ==
  ASSUME NEW e \in Nat, NEW x \in Nat
  PROVE  /\ e * LEVEL_4_SIZE \in Nat /\ e * EntryPages \in Nat
         /\ containing(e * LEVEL_4_SIZE) = e * EntryPages
         /\ containing(e * LEVEL_4_SIZE + x) = e * EntryPages + containing(x)
         /\ (e * EntryPages + x) \div EntryPages = e + x \div EntryPages
         /\ p4_index(e * LEVEL_4_SIZE + x) = e + p4_index(x)
<1>1. e * LEVEL_4_SIZE = (e * EntryPages) * PAGE_SIZE /\ e * EntryPages \in Nat /\ e * LEVEL_4_SIZE \in Nat
  <2>1. \A a, b, c \in Nat : a * (b * c) = (a * c) * b /\ a * c \in Nat /\ a * b \in Nat
    OBVIOUS
  <2> QED
    BY <2>1, Paging
<1>2. ((e * EntryPages) * PAGE_SIZE + x) \div PAGE_SIZE = e * EntryPages + x \div PAGE_SIZE
  <2> DEFINE q == e * EntryPages
  <2>1. q \in Nat
    BY <1>1
  <2> HIDE DEF q
  <2>2. (q * PAGE_SIZE + x) \div PAGE_SIZE = q + x \div PAGE_SIZE
    BY <2>1, Paging, DivOfSum
  <2> QED
    BY <2>2 DEF q
<1>3. ((e * EntryPages) * PAGE_SIZE + 0) \div PAGE_SIZE = e * EntryPages + 0 \div PAGE_SIZE
  BY <1>1, Paging, DivOfSum
<1>4. 0 \div PAGE_SIZE = 0
  BY Paging, DivUnique
<1>5. containing(e * LEVEL_4_SIZE) = e * EntryPages
  BY <1>1, <1>3, <1>4 DEF containing
<1>6. (e * EntryPages + x) \div EntryPages = e + x \div EntryPages
  BY Paging, DivOfSum
<1>7. p4_index(e * LEVEL_4_SIZE + x) = e + p4_index(x)
  BY Paging, DivOfSum DEF p4_index
<1> QED
  BY <1>1, <1>2, <1>5, <1>6, <1>7 DEF containing
-----------------------------------------------------------------------------
(***************************************************************************)
(* What map_to does.                                                       *)
(***************************************************************************)
LEMMA MachineFacts ==
  ASSUME machine \in Machines
  PROVE  /\ WellFormed(machine)
         /\ Memory.max_phys \in Nat \ {0} /\ machine.descriptors \in Nat \ {0}
         /\ containing(Memory.max_phys - 1) \in Nat /\ frames_of(Memory) \subseteq Nat
         /\ Memory.free \in Seq(frames_of(Memory))
         /\ \A i \in 1 .. Len(Memory.free) : \A j \in 1 .. i - 1 : Memory.free[j] < Memory.free[i]
         /\ \A i \in 1 .. Len(Memory.free) : Memory.free[i] # machine.code
         /\ machine.code \in Nat /\ machine.code + 1 # EntryPages
<1>1. WellFormed(machine) /\ WellFormedMemory(Memory)
  BY MachinesAssumption DEF WellFormed, Memory
<1>2. Memory.max_phys \in Nat \ {0} /\ Memory.max_phys - 1 \in Nat
  BY <1>1 DEF WellFormedMemory
<1>3. containing(Memory.max_phys - 1) \in Nat
  BY <1>2, PageOfAddress
<1> QED
  BY <1>1, <1>2, <1>3 DEF WellFormed, WellFormedMemory, frames_of, Memory

LEMMA TableOf ==
  ASSUME NEW page \in Nat, NEW l \in 1 .. 4
  PROVE  /\ table(page, l)[1] = l /\ table(page, l) \in (1 .. 4) \X Nat
         /\ l = 4 => table(page, l) = <<4, 0>>
         /\ l = 1 => table(page, l)[2] = page \div FANOUT
<1>1. page \div EntryPages \in Nat /\ page \div (FANOUT * FANOUT) \in Nat /\ page \div FANOUT \in Nat
  BY Paging, DivBounds
<1> QED
  BY <1>1 DEF table

\* The walk down the tables ends somewhere.
LEMMA FoundLevel ==
  ASSUME NEW space, NEW page \in Nat, NEW pages, <<4, 0>> \in DOMAIN tables[space]
  PROVE  LET last  == last_level(pages)
             found == found_level(space, page, pages)
         IN  /\ last \in 1 .. 2 /\ found \in last .. 4
             /\ \A m \in found .. 4 : table(page, m) \in DOMAIN tables[space]
<1> DEFINE last == last_level(pages)
           D == {l \in 1 .. 4 : table(page, l) \in DOMAIN tables[space]}
           Q(l) == /\ \A m \in l .. 4 : table(page, m) \in DOMAIN tables[space]
                   /\ l > last => table(page, l - 1) \notin DOMAIN tables[space]
<1>1. last \in {1, 2}
  BY DEF last_level
<1>2. 4 \in D
  <2>1. table(page, 4) = <<4, 0>>
    BY DEF table
  <2> QED
    BY <2>1
<1>3. \E l \in last .. 4 : Q(l)
  <2> HIDE DEF last
  <2>1. CASE 3 \notin D
    <3>1. Q(4)
      BY <1>1, <1>2, <2>1
    <3> QED
      BY <1>1, <3>1
  <2>2. CASE 3 \in D /\ 2 \notin D
    <3>1. Q(3)
      BY <1>1, <1>2, <2>2
    <3> QED
      BY <1>1, <3>1
  <2>3. CASE 3 \in D /\ 2 \in D /\ (last = 2 \/ 1 \notin D)
    <3>1. Q(2)
      BY <1>1, <1>2, <2>3
    <3> QED
      BY <1>1, <3>1
  <2>4. CASE 3 \in D /\ 2 \in D /\ 1 \in D /\ last = 1
    <3>1. Q(1)
      BY <1>1, <1>2, <2>4
    <3> QED
      BY <1>1, <3>1
  <2> QED
    BY <1>1, <2>1, <2>2, <2>3, <2>4
<1>4. found_level(space, page, pages) = CHOOSE l \in last .. 4 : Q(l)
  BY DEF found_level
<1>5. found_level(space, page, pages) \in last .. 4 /\ Q(found_level(space, page, pages))
  BY <1>3, <1>4
<1> QED
  BY <1>1, <1>5

\* A successful map_to: the entry is written, and the tables that were missing are granted frames.
MapsTo(space, page, pages, frame, own, found) ==
  LET last == last_level(pages)
      n    == own + found - last
  IN  /\ found \in last .. 4 /\ n \in own .. own + 3 /\ n <= Len(supply)
      /\ supply' = SubSeq(supply, n + 1, Len(supply))
      /\ DOMAIN mapped' = DOMAIN mapped /\ DOMAIN tables' = DOMAIN tables
      /\ \A s \in Spaces \ {space} : mapped'[s] = mapped[s] /\ tables'[s] = tables[s]
      /\ DOMAIN mapped'[space] = DOMAIN mapped[space] \cup (page .. page + pages - 1)
      /\ \A p \in page .. page + pages - 1 :
           p \notin DOMAIN mapped[space] /\ mapped'[space][p] = frame + (p - page)
      /\ \A p \in DOMAIN mapped[space] : mapped'[space][p] = mapped[space][p]
      /\ DOMAIN tables[space] \subseteq DOMAIN tables'[space]
      /\ \A t \in DOMAIN tables[space] : tables'[space][t] = tables[space][t]
      /\ \A t \in DOMAIN tables'[space] \ DOMAIN tables[space] :
           /\ t[1] \in last .. found - 1 /\ t = table(page, t[1])
           /\ tables'[space][t] = supply[own + found - t[1]]
      /\ \A i \in own + 1 .. n : accessible(supply[i])

LEMMA MapSucceeds ==
  ASSUME DOMAIN mapped = Spaces, DOMAIN tables = Spaces, NEW S, supply \in Seq(S),
         NEW space \in Spaces, NEW page \in Nat, NEW pages \in Nat, NEW frame, NEW own \in {0, 1}, NEW writes,
         <<4, 0>> \in DOMAIN tables[space],
         map_to(space, page, pages, frame, own, writes), failure' = None
  PROVE  \E found \in 1 .. 4 : MapsTo(space, page, pages, frame, own, found)
<1> DEFINE found == found_level(space, page, pages)
           last  == last_level(pages)
           n     == own + found - last
           newT  == {table(page, l) : l \in last .. found - 1}
           newP  == page .. page + pages - 1
<1>1. last \in 1 .. 2 /\ found \in last .. 4 /\ n \in own .. own + 3
  <2>1. last \in 1 .. 2 /\ found \in last .. 4
    BY FoundLevel
  <2> QED
    BY <2>1
<1>2. None \notin {"no_frame", "fault", "already_mapped"}
  BY NoneAssumption DEF Failures
<1>3. map_to_outcome(space, page, pages, own, writes) = None
      /\ map_to_effect(space, page, pages, frame, own)
  BY DEF map_to
<1>4. /\ ~(\E f \in {supply[i] : i \in {j \in 1 .. n : j <= Len(supply) /\ (j > own \/ writes)}} : ~accessible(f))
      /\ ~page_taken(space, page, pages) /\ ~(Len(supply) < n)
  BY <1>2, <1>3 DEF map_to_outcome
<1>5. n <= Len(supply) /\ Len(supply) \in Nat
  BY <1>1, <1>4
<1>6. \A i \in own + 1 .. n : accessible(supply[i])
  <2> SUFFICES ASSUME NEW i \in own + 1 .. n PROVE accessible(supply[i])
    OBVIOUS
  <2>1. i \in 1 .. n /\ i <= Len(supply) /\ i > own
    BY <1>1, <1>5
  <2> QED
    BY <1>4, <2>1
<1>7. \A p \in newP : p \notin DOMAIN mapped[space]
  BY <1>4 DEF page_taken
<1>8. /\ mapped' = [mapped EXCEPT ![space] = extended(@, [p \in newP |-> frame + (p - page)])]
      /\ tables' = [tables EXCEPT ![space] = extended(@, [t \in newT |-> supply[own + found - t[1]]])]
      /\ supply' = SubSeq(supply, n + 1, Len(supply))
  BY <1>3 DEF map_to_effect
<1> HIDE DEF found, last, n, newP, newT
<1>9. /\ DOMAIN mapped' = DOMAIN mapped /\ DOMAIN tables' = DOMAIN tables
      /\ \A s \in Spaces \ {space} : mapped'[s] = mapped[s] /\ tables'[s] = tables[s]
  BY <1>8
<1>10. /\ mapped'[space] = extended(mapped[space], [p \in newP |-> frame + (p - page)])
       /\ tables'[space] = extended(tables[space], [t \in newT |-> supply[own + found - t[1]]])
  BY <1>8
<1>11. /\ DOMAIN mapped'[space] = DOMAIN mapped[space] \cup newP
       /\ \A p \in newP : mapped'[space][p] = frame + (p - page)
       /\ \A p \in DOMAIN mapped[space] : mapped'[space][p] = mapped[space][p]
  BY <1>7, <1>10 DEF extended
<1>12. /\ DOMAIN tables'[space] = DOMAIN tables[space] \cup newT
       /\ \A t \in DOMAIN tables[space] : tables'[space][t] = tables[space][t]
       /\ \A t \in newT : t \notin DOMAIN tables[space] => tables'[space][t] = supply[own + found - t[1]]
  BY <1>10 DEF extended
<1>13. \A t \in newT : t[1] \in last .. found - 1 /\ t = table(page, t[1])
  <2> SUFFICES ASSUME NEW l \in last .. found - 1
               PROVE  table(page, l)[1] = l
    BY DEF newT
  <2>1. l \in 1 .. 4
    BY <1>1
  <2> QED
    BY <2>1, TableOf
<1>14. MapsTo(space, page, pages, frame, own, found)
  BY <1>1, <1>5, <1>6, <1>7, <1>8, <1>9, <1>11, <1>12, <1>13 DEF MapsTo, last, n, newP
<1> QED
  BY <1>1, <1>14

LEMMA MapFails ==
  ASSUME DOMAIN tables = Spaces, NEW S, supply \in Seq(S),
         NEW space \in Spaces, NEW page \in Nat, NEW pages \in Nat, NEW frame, NEW own \in {0, 1}, NEW writes,
         <<4, 0>> \in DOMAIN tables[space],
         map_to(space, page, pages, frame, own, writes), failure' # None
  PROVE  /\ UNCHANGED <<tables, mapped, supply>>
         /\ failure' \in {"no_frame", "fault", "already_mapped"}
         /\ failure' = "no_frame" => Len(supply) < 4
         /\ failure' = "fault" =>
              \/ \E i \in 1 .. Len(supply) : i <= 4 /\ ~accessible(supply[i])
              \/ \E t \in DOMAIN tables[space] : ~accessible(tables[space][t])
         /\ failure' = "already_mapped" => page_taken(space, page, pages)
<1> DEFINE found == found_level(space, page, pages)
           last  == last_level(pages)
           n     == own + found - last
           touched == {supply[i] : i \in {j \in 1 .. n : j <= Len(supply) /\ (j > own \/ writes)}}
           walked  == {tables[space][table(page, l)] : l \in found .. 4}
<1>1. /\ last \in 1 .. 2 /\ found \in last .. 4 /\ \A m \in found .. 4 : table(page, m) \in DOMAIN tables[space]
      /\ n \in 0 .. 4
  <2>1. /\ last \in 1 .. 2 /\ found \in last .. 4
        /\ \A m \in found .. 4 : table(page, m) \in DOMAIN tables[space]
    BY FoundLevel
  <2> QED
    BY <2>1
<1>2. UNCHANGED <<tables, mapped, supply>> /\ failure' = map_to_outcome(space, page, pages, own, writes)
  BY DEF map_to
<1>3. failure' = IF Len(supply) < own THEN "no_frame"
                 ELSE IF \E f \in touched \cup walked : ~accessible(f) THEN "fault"
                 ELSE IF page_taken(space, page, pages) THEN "already_mapped"
                 ELSE IF Len(supply) < n THEN "no_frame"
                 ELSE None
  BY <1>2 DEF map_to_outcome
<1>4. failure' \in {"no_frame", "fault", "already_mapped"}
  BY <1>3
<1>5. ASSUME failure' = "no_frame" PROVE Len(supply) < 4
  <2>1. Len(supply) < own \/ Len(supply) < n
    BY <1>3, <1>5, NoneAssumption DEF Failures
  <2> QED
    BY <1>1, <2>1
<1>6. failure' = "already_mapped" => page_taken(space, page, pages)
  BY <1>3
<1>7. ASSUME failure' = "fault"
      PROVE  \/ \E i \in 1 .. Len(supply) : i <= 4 /\ ~accessible(supply[i])
             \/ \E t \in DOMAIN tables[space] : ~accessible(tables[space][t])
  <2>1. PICK f \in touched \cup walked : ~accessible(f)
    BY <1>3, <1>7
  <2>2. CASE f \in touched
    <3>1. PICK i \in 1 .. n : i <= Len(supply) /\ f = supply[i]
      BY <2>2
    <3>2. i \in 1 .. Len(supply) /\ i <= 4
      BY <1>1, <3>1
    <3> QED
      BY <2>1, <3>1, <3>2
  <2>3. CASE f \in walked
    BY <1>1, <2>1, <2>3
  <2> QED
    BY <2>1, <2>2, <2>3
<1> QED
  BY <1>2, <1>4, <1>5, <1>6, <1>7
-----------------------------------------------------------------------------
(***************************************************************************)
(* Where the pages of a mapping loop lie: in the level-4 entries of what   *)
(* is mapped, or in entry 0.                                               *)
(***************************************************************************)
Home(s) ==
  CASE s = "map_stack"           -> placed_entries["stack"]
    [] s = "identity_map"        -> {0}
    [] s = "map_gdt"             -> {0}
    [] s = "map_framebuffer"     -> placed_entries["framebuffer"]
    [] s = "map_ramdisk"         -> placed_entries["ramdisk"]
    [] s = "map_physical_memory" -> placed_entries["physical_memory"]
    [] s = "map_boot_info"       -> placed_entries["boot_info"]
    [] s = "init_heap"           -> {p4_index(HEAP_START)}

Ready(s) ==
  /\ Rank(pc) >= Rank(s)
  /\ s = "map_framebuffer" => Framebuffer # None
  /\ s = "map_ramdisk" => Ramdisk # None

\* All pages of a loop, and that they lie where they should.
AreaOK(s) ==
  /\ First(s) \in Nat /\ Count(s) \in Nat \ {0}
  /\ \A p \in First(s) .. First(s) + Width(s) * Count(s) - 1 : p \in Nat /\ p \div EntryPages \in Home(s)

LEMMA LayoutFacts ==
  ASSUME LayoutInv
  PROVE  /\ entry_state \in EntryState /\ entry_state[0]
         /\ \A t \in Things : placed_entries[t] \subseteq EntryIndex \ {0}
         /\ \A t \in Things : \A i \in placed_entries[t] : entry_state[i]
         /\ \A t, u \in Things : t # u => placed_entries[t] \cap placed_entries[u] = {}
<1>1. LayoutThms!Things = Things
  BY DEF LayoutThms!Things, Things
<1>2. LayoutThms!TypeOK /\ LayoutThms!PlacesDisjoint /\ LayoutThms!AllMarked
  BY DEF LayoutInv, LayoutThms!IInv
<1>3. entry_state \in EntryState /\ placed_entries \in [Things -> SUBSET EntryIndex]
  BY <1>1, <1>2, EntriesOfThms DEF LayoutThms!TypeOK, LayoutThms!EntryState, EntryState
<1>4. entry_state[0] /\ \A t \in Things : \A i \in placed_entries[t] : entry_state[i]
  BY <1>1, <1>2 DEF LayoutThms!AllMarked
<1>5. /\ \A t \in Things : 0 \notin placed_entries[t]
      /\ \A t, u \in Things : t # u => placed_entries[t] \cap placed_entries[u] = {}
  BY <1>1, <1>2 DEF LayoutThms!PlacesDisjoint
<1> QED
  BY <1>3, <1>4, <1>5

LEMMA RangeEntries ==
  ASSUME NEW a \in Nat, NEW b \in Nat, NEW p \in containing(a) .. containing(b)
  PROVE  p \in Nat /\ p \div EntryPages \in p4_index(a) .. p4_index(b)
<1>1. /\ containing(a) \in Nat /\ containing(b) \in Nat /\ p \in Nat
      /\ containing(a) \div EntryPages = p4_index(a) /\ containing(b) \div EntryPages = p4_index(b)
      /\ p4_index(a) \in Nat /\ p4_index(b) \in Nat
  BY PageOfAddress
<1>2. containing(a) \div EntryPages <= p \div EntryPages /\ p \div EntryPages <= containing(b) \div EntryPages
  BY <1>1, Paging, DivMonotone
<1>3. p \div EntryPages \in Nat
  BY <1>1, EntryOfPage
<1> QED
  BY <1>1, <1>2, <1>3

\* A thing that is placed, other than the kernel.
LEMMA PlacedFacts ==
  ASSUME RefInv, AtInv, NEW t \in Things \ {"kernel"}, Rank(pc) > Rank(t), Present(t)
  PROVE  \E e \in EntryIndex :
           /\ at[t] = e * LEVEL_4_SIZE /\ e \in Nat /\ at[t] \in Nat
           /\ placed_entries[t] = p4_index(at[t]) .. p4_index(at[t] + size_of(t) - 1)
<1>1. at[t] # NoAddress /\ \E e \in EntryIndex : at[t] = e * LEVEL_4_SIZE
  BY DEF AtInv
<1>2. PICK e \in EntryIndex : at[t] = e * LEVEL_4_SIZE
  BY <1>1
<1>3. e \in Nat /\ at[t] \in Nat
  BY <1>2, Paging, AlignedAddress DEF EntryIndex
<1>4. placed_entries[t] = entries_of(at[t], size_of(t))
  BY <1>1 DEF placed_entries
<1> QED
  BY <1>2, <1>3, <1>4 DEF entries_of

\* A loop over the pages from one address to another.
LEMMA AreaOfRange ==
  ASSUME NEW s \in MapSteps \ {"map_physical_memory"}, NEW a \in Nat, NEW b \in Nat, a <= b,
         First(s) = containing(a), Count(s) = containing(b) - containing(a) + 1,
         p4_index(a) .. p4_index(b) \subseteq Home(s)
  PROVE  AreaOK(s)
<1>1. containing(a) \in Nat /\ containing(b) \in Nat /\ containing(a) <= containing(b)
  BY PageOfAddress, PagesOrdered
<1>2. Width(s) = 1
  BY DEF Width
<1> DEFINE ca == containing(a)
           cb == containing(b)
<1> HIDE DEF ca, cb
<1>3. Count(s) \in Nat \ {0} /\ First(s) + Width(s) * Count(s) - 1 = cb /\ First(s) = ca
  BY <1>1, <1>2 DEF ca, cb
<1>4. \A p \in ca .. cb : p \in Nat /\ p \div EntryPages \in Home(s)
  BY RangeEntries DEF ca, cb
<1> QED
  BY <1>1, <1>3, <1>4 DEF AreaOK, ca

LEMMA SizeFacts ==
  ASSUME RefInv
  PROVE  /\ boot_info_size \in Nat \ {0} /\ STACK_SIZE \in Nat \ {0}
         /\ Framebuffer # None => /\ Framebuffer.addr \in Nat /\ Framebuffer.byte_len \in Nat
                                  /\ Framebuffer.byte_len + PAGE_SIZE <= LEVEL_4_SIZE
         /\ Ramdisk # None => /\ Ramdisk.addr \in Nat /\ Ramdisk.addr % PAGE_SIZE = 0
                              /\ Ramdisk.len \in Nat \ {0}
<1>1. machine \in Machines /\ WellFormed(machine) /\ machine.descriptors \in Nat
  BY MachineFacts DEF RefInv
<1>2. boot_info_size \in MappedSizes
  BY <1>1 DEF MappedSizes, boot_info_size
<1> QED
  BY <1>1, <1>2, SizesMapped, PagingAssumption DEF WellFormed, Framebuffer, Ramdisk

LEMMA StackArea ==
  ASSUME RefInv, AtInv, Ready("map_stack")
  PROVE  AreaOK("map_stack") /\ First("map_stack") = containing(at["stack"]) + 1
<1>1. Rank(pc) > Rank("stack") /\ Present("stack") /\ "stack" \in Things \ {"kernel"}
  BY DEF Ready, Rank, RefInv, Steps, Present, Things
<1>2. PICK e \in EntryIndex :
        /\ at["stack"] = e * LEVEL_4_SIZE /\ e \in Nat /\ at["stack"] \in Nat
        /\ placed_entries["stack"] = p4_index(at["stack"]) .. p4_index(at["stack"] + size_of("stack") - 1)
  BY <1>1, PlacedFacts
<1>3. size_of("stack") = PAGE_SIZE + STACK_SIZE /\ STACK_SIZE \in Nat \ {0}
  BY PagingAssumption DEF size_of
<1> DEFINE a == at["stack"]
           b == a + PAGE_SIZE
           c == a + PAGE_SIZE + STACK_SIZE - 1
<1>4. /\ a \in Nat /\ b \in Nat /\ c \in Nat /\ a <= b /\ b <= c
      /\ b = stack_start /\ c = stack_top - 1 /\ c = a + size_of("stack") - 1
  BY <1>2, <1>3, Paging DEF stack_start, stack_top
<1>5. First("map_stack") = containing(b) /\ Count("map_stack") = containing(c) - containing(b) + 1
  BY <1>4 DEF First, Count
<1>6. p4_index(a) <= p4_index(b) /\ p4_index(a) \in Nat /\ p4_index(b) \in Nat /\ p4_index(c) \in Nat
  BY <1>4, Paging, DivMonotone, PageOfAddress DEF p4_index
<1>7. Home("map_stack") = p4_index(a) .. p4_index(c)
  BY <1>2, <1>4 DEF Home
<1>8. containing(b) = containing(a) + 1
  <2>1. containing(PAGE_SIZE) = 1
    BY Paging, DivUnique DEF containing
  <2>2. containing(e * LEVEL_4_SIZE) = e * EntryPages
        /\ containing(e * LEVEL_4_SIZE + PAGE_SIZE) = e * EntryPages + containing(PAGE_SIZE)
    BY <1>2, Paging, AlignedAddress
  <2> QED
    BY <1>2, <2>1, <2>2
<1> HIDE DEF a, b, c
<1>9. p4_index(b) .. p4_index(c) \subseteq Home("map_stack") /\ "map_stack" \in MapSteps
  BY <1>6, <1>7 DEF MapSteps
<1> QED
  BY <1>4, <1>5, <1>8, <1>9, AreaOfRange DEF a

LEMMA IdentityArea ==
  ASSUME RefInv, AtInv
  PROVE  /\ Ready("identity_map") => AreaOK("identity_map")
         /\ Ready("map_gdt") => AreaOK("map_gdt")
<1>1. machine.code \in Nat /\ machine.code + 1 # EntryPages
  BY MachineFacts DEF RefInv
<1>2. \A p \in Nat : p < EntryPages => p \div EntryPages = 0
  BY EntryOfPage
<1>3. ASSUME Ready("identity_map") PROVE AreaOK("identity_map")
  <2>1. machine.code < EntryPages
    BY <1>3 DEF Ready, Rank, AtInv, RefInv, Steps
  <2>2. First("identity_map") = machine.code /\ Count("identity_map") = 2 /\ Width("identity_map") = 1
        /\ Home("identity_map") = {0}
    BY DEF First, Count, Width, Home
  <2> QED
    BY <1>1, <1>2, <2>1, <2>2, Paging DEF AreaOK
<1>4. ASSUME Ready("map_gdt") PROVE AreaOK("map_gdt")
  <2>1. gdtr \in 0 .. EntryPages - 1
    BY <1>4 DEF Ready, Rank, AtInv, RefInv, Steps
  <2>2. First("map_gdt") = gdtr /\ Count("map_gdt") = 1 /\ Width("map_gdt") = 1 /\ Home("map_gdt") = {0}
    BY DEF First, Count, Width, Home
  <2> QED
    BY <1>2, <2>1, <2>2, Paging DEF AreaOK
<1> QED
  BY <1>3, <1>4

LEMMA RamdiskArea ==
  ASSUME RefInv, AtInv, Ready("map_ramdisk")
  PROVE  AreaOK("map_ramdisk")
<1>1. Rank(pc) > Rank("ramdisk") /\ Present("ramdisk") /\ "ramdisk" \in Things \ {"kernel"} /\ Ramdisk # None
  BY DEF Ready, Rank, RefInv, Steps, Present, Things
<1>2. PICK e \in EntryIndex :
        /\ at["ramdisk"] = e * LEVEL_4_SIZE /\ e \in Nat /\ at["ramdisk"] \in Nat
        /\ placed_entries["ramdisk"] = p4_index(at["ramdisk"]) .. p4_index(at["ramdisk"] + size_of("ramdisk") - 1)
  BY <1>1, PlacedFacts
<1>3. size_of("ramdisk") = Ramdisk.len /\ Ramdisk.len \in Nat \ {0}
  BY <1>1, SizeFacts DEF size_of
<1> DEFINE a == at["ramdisk"]
           n == Ramdisk.len - 1
           b == a + n
<1>4. a \in Nat /\ n \in Nat /\ b \in Nat /\ a <= b /\ b = a + size_of("ramdisk") - 1
  BY <1>2, <1>3
<1>5. containing(a) = e * EntryPages /\ containing(b) = e * EntryPages + containing(n) /\ e * EntryPages \in Nat
  <2>1. /\ containing(e * LEVEL_4_SIZE) = e * EntryPages /\ e * EntryPages \in Nat
        /\ containing(e * LEVEL_4_SIZE + n) = e * EntryPages + containing(n)
    BY <1>2, <1>4, AlignedAddress
  <2> QED
    BY <1>2, <2>1
<1>6. containing(n) \in Nat /\ ramdisk_page_count = containing(n)
  BY <1>4, PageOfAddress DEF ramdisk_page_count, containing
<1>7. First("map_ramdisk") = containing(a) /\ Count("map_ramdisk") = containing(b) - containing(a) + 1
  <2>1. First("map_ramdisk") = containing(a) /\ Count("map_ramdisk") = ramdisk_page_count + 1
    BY <1>1 DEF First, Count
  <2> HIDE DEF a, b, n
  <2> QED
    BY <1>5, <1>6, <2>1
<1>8. Home("map_ramdisk") = p4_index(a) .. p4_index(b) /\ "map_ramdisk" \in MapSteps
  BY <1>2, <1>4 DEF Home, MapSteps
<1> HIDE DEF a, b, n
<1> QED
  BY <1>4, <1>7, <1>8, AreaOfRange

LEMMA BootInfoArea ==
  ASSUME RefInv, AtInv, Ready("map_boot_info")
  PROVE  AreaOK("map_boot_info")
<1>1. Rank(pc) > Rank("boot_info") /\ Present("boot_info") /\ "boot_info" \in Things \ {"kernel"}
  BY DEF Ready, Rank, RefInv, Steps, Present, Things
<1>2. PICK e \in EntryIndex :
        /\ at["boot_info"] = e * LEVEL_4_SIZE /\ e \in Nat /\ at["boot_info"] \in Nat
        /\ placed_entries["boot_info"] = p4_index(at["boot_info"]) .. p4_index(at["boot_info"] + size_of("boot_info") - 1)
  BY <1>1, PlacedFacts
<1>3. size_of("boot_info") = boot_info_size /\ boot_info_size \in Nat \ {0}
  BY SizeFacts DEF size_of
<1> DEFINE a == at["boot_info"]
           b == a + boot_info_size - 1
<1>4. a \in Nat /\ b \in Nat /\ a <= b /\ b = a + size_of("boot_info") - 1
  BY <1>2, <1>3
<1>5. First("map_boot_info") = containing(a) /\ Count("map_boot_info") = containing(b) - containing(a) + 1
  BY DEF First, Count
<1>6. Home("map_boot_info") = p4_index(a) .. p4_index(b) /\ "map_boot_info" \in MapSteps
  BY <1>2, <1>4 DEF Home, MapSteps
<1> HIDE DEF a, b
<1> QED
  BY <1>4, <1>5, <1>6, AreaOfRange

LEMMA HeapArea ==
  /\ AreaOK("init_heap")
  /\ First("init_heap") .. First("init_heap") + Count("init_heap") - 1 = pages_of(HEAP_START, HEAP_SIZE)
<1> DEFINE a == HEAP_START
           b == HEAP_START + HEAP_SIZE - 1
<1>1. a \in Nat /\ b \in Nat /\ a <= b
  BY PagingAssumption
<1>2. containing(a) \in Nat /\ containing(b) \in Nat /\ containing(a) <= containing(b)
  BY <1>1, PageOfAddress, PagesOrdered
<1>3. Cardinality(containing(a) .. containing(b)) = containing(b) - containing(a) + 1
  <2> HIDE DEF a, b
  <2> QED
    BY <1>2, FS_Interval
<1>4. First("init_heap") = containing(a) /\ Count("init_heap") = containing(b) - containing(a) + 1
  BY <1>3 DEF First, Count, pages_of
<1>5. p4_index(a) .. p4_index(b) \subseteq Home("init_heap") /\ "init_heap" \in MapSteps
  <2>1. p4_index(b) = p4_index(a) /\ p4_index(a) \in Nat /\ Home("init_heap") = {p4_index(a)}
    BY <1>1, PagingAssumption, PageOfAddress DEF Home
  <2> QED
    BY <2>1 DEF MapSteps
<1>6. AreaOK("init_heap")
  <2> HIDE DEF a, b
  <2> QED
    BY <1>1, <1>4, <1>5, AreaOfRange
<1>7. pages_of(HEAP_START, HEAP_SIZE) = containing(a) .. containing(b)
  BY DEF pages_of
<1> HIDE DEF a, b
<1> QED
  BY <1>2, <1>4, <1>6, <1>7

\* The frames of the framebuffer need no more than the room of one entry.
LEMMA FramebufferArea ==
  ASSUME RefInv, AtInv, Ready("map_framebuffer")
  PROVE  /\ AreaOK("map_framebuffer")
         /\ Count("map_framebuffer") =
              containing(Framebuffer.addr + Framebuffer.byte_len - 1) - containing(Framebuffer.addr) + 1
<1>1. Rank(pc) > Rank("framebuffer") /\ Present("framebuffer") /\ "framebuffer" \in Things \ {"kernel"}
      /\ Framebuffer # None
  BY DEF Ready, Rank, RefInv, Steps, Present, Things
<1>2. PICK e \in EntryIndex :
        /\ at["framebuffer"] = e * LEVEL_4_SIZE /\ e \in Nat /\ at["framebuffer"] \in Nat
        /\ placed_entries["framebuffer"] =
             p4_index(at["framebuffer"]) .. p4_index(at["framebuffer"] + size_of("framebuffer") - 1)
  BY <1>1, PlacedFacts
<1> DEFINE addr == Framebuffer.addr
           len  == Framebuffer.byte_len
           ca   == containing(addr)
           cb   == containing(addr + len - 1)
<1>3. size_of("framebuffer") = len /\ addr \in Nat /\ len \in Nat \ {0} /\ len + PAGE_SIZE <= LEVEL_4_SIZE
  <2>1. at["framebuffer"] # NoAddress
    BY <1>1 DEF AtInv
  <2>2. len > 0
    BY <2>1 DEF AtInv
  <2> QED
    BY <1>1, <2>2, SizeFacts DEF size_of
<1>4. /\ addr + len - 1 \in Nat /\ addr <= addr + len - 1
      /\ ca \in Nat /\ cb \in Nat /\ ca <= cb
      /\ PAGE_SIZE * cb <= addr + len - 1 /\ addr < PAGE_SIZE * ca + PAGE_SIZE
  <2>1. addr + len - 1 \in Nat /\ addr <= addr + len - 1
    BY <1>3
  <2> QED
    BY <1>3, <2>1, PageOfAddress, PagesOrdered
<1> HIDE DEF addr, len, ca, cb
<1>5. cb - ca < EntryPages
  <2> SUFFICES ASSUME cb >= ca + EntryPages PROVE FALSE
    BY <1>4, Paging
  <2>1. PAGE_SIZE * cb >= PAGE_SIZE * ca + LEVEL_4_SIZE
    <3>1. \A x, y, z, d \in Nat : x >= y + z => d * x >= d * y + d * z
      OBVIOUS
    <3> QED
      BY <1>4, <3>1, Paging
  <2>2. PAGE_SIZE * cb \in Nat /\ PAGE_SIZE * ca \in Nat
    BY <1>4, Paging
  <2> QED
    BY <1>3, <1>4, <2>1, <2>2, Paging
<1>6. Count("map_framebuffer") = cb - ca + 1 /\ First("map_framebuffer") = containing(at["framebuffer"])
      /\ Width("map_framebuffer") = 1
  <2>1. Cardinality(ca .. cb) = cb - ca + 1
    BY <1>4, FS_Interval
  <2> QED
    BY <1>1, <2>1 DEF First, Count, Width, framebuffer_frames, pages_of, ca, cb, addr, len
<1>7. containing(at["framebuffer"]) = e * EntryPages /\ e * EntryPages \in Nat
      /\ p4_index(at["framebuffer"]) = e /\ e \in Home("map_framebuffer")
  <2>1. /\ containing(e * LEVEL_4_SIZE) = e * EntryPages /\ e * EntryPages \in Nat
        /\ e * LEVEL_4_SIZE \in Nat /\ p4_index(e * LEVEL_4_SIZE + (len - 1)) = e + p4_index(len - 1)
        /\ p4_index(e * LEVEL_4_SIZE + 0) = e + p4_index(0)
    BY <1>2, <1>3, AlignedAddress
  <2>2. p4_index(len - 1) \in Nat /\ p4_index(0) = 0
    BY <1>3, Paging, DivBounds, DivUnique DEF p4_index
  <2>3. at["framebuffer"] + size_of("framebuffer") - 1 = e * LEVEL_4_SIZE + (len - 1)
    BY <1>2, <1>3
  <2>4. p4_index(at["framebuffer"]) = e
    BY <1>2, <2>1, <2>2
  <2>5. e \in p4_index(at["framebuffer"]) .. p4_index(at["framebuffer"] + size_of("framebuffer") - 1)
    BY <1>2, <2>1, <2>2, <2>3, <2>4
  <2> QED
    BY <1>2, <2>1, <2>4, <2>5 DEF Home
<1>8. ASSUME NEW p \in First("map_framebuffer")
               .. First("map_framebuffer") + Width("map_framebuffer") * Count("map_framebuffer") - 1
      PROVE  p \in Nat /\ p \div EntryPages \in Home("map_framebuffer")
  <2> DEFINE i == p - e * EntryPages
  <2>1. p \in Nat /\ i \in Nat /\ i < EntryPages /\ p = e * EntryPages + i
    BY <1>4, <1>5, <1>6, <1>7, Paging
  <2> HIDE DEF i
  <2>2. (e * EntryPages + i) \div EntryPages = e + i \div EntryPages
    BY <1>2, <2>1, AlignedAddress
  <2>3. i \div EntryPages = 0
    BY <2>1, EntryOfPage
  <2> QED
    BY <1>2, <1>7, <2>1, <2>2, <2>3
<1> QED
  BY <1>4, <1>6, <1>7, <1>8 DEF AreaOK, ca, cb, addr, len

\* The huge frames of physical memory stay within the entries that its bytes need.
LEMMA PhysicalArea ==
  ASSUME RefInv, AtInv, Ready("map_physical_memory")
  PROVE  AreaOK("map_physical_memory")
<1>1. Rank(pc) > Rank("physical_memory") /\ Present("physical_memory") /\ "physical_memory" \in Things \ {"kernel"}
  BY DEF Ready, Rank, RefInv, Steps, Present, Things
<1>2. PICK e \in EntryIndex :
        /\ at["physical_memory"] = e * LEVEL_4_SIZE /\ e \in Nat /\ at["physical_memory"] \in Nat
        /\ placed_entries["physical_memory"] =
             p4_index(at["physical_memory"]) .. p4_index(at["physical_memory"] + size_of("physical_memory") - 1)
  BY <1>1, PlacedFacts
<1> DEFINE top == Memory.max_phys - 1
           q   == top \div (PAGE_SIZE * FANOUT)
           end == q * FANOUT + (FANOUT - 1)
<1>3. size_of("physical_memory") = Memory.max_phys /\ top \in Nat
  BY MachineFacts DEF size_of, RefInv
<1>4. q \in Nat /\ huge_frames = q + 1 /\ huge_frames \in Nat \ {0}
  <2> DEFINE d == PAGE_SIZE * FANOUT
  <2>1. d \in Nat \ {0}
    BY Paging
  <2> HIDE DEF d
  <2>2. top \div d \in Nat
    BY <1>3, <2>1, DivBounds
  <2>3. huge_frames = top \div d + 1 /\ q = top \div d
    BY DEF huge_frames, d
  <2> QED
    BY <2>2, <2>3
<1>5. end \in Nat /\ end \div EntryPages = p4_index(top)
  <2>1. end \in Nat /\ q * FANOUT \in Nat /\ FANOUT - 1 \in Nat
    BY <1>4, Paging
  <2>2. end \div FANOUT = q + (FANOUT - 1) \div FANOUT
    BY <1>4, <2>1, Paging, DivOfSum
  <2>3. (FANOUT - 1) \div FANOUT = 0
    BY <2>1, Paging, DivUnique
  <2>4. end \div FANOUT = q
    BY <1>4, <2>2, <2>3
  <2> HIDE DEF end
  <2>5. end \div EntryPages = q \div (FANOUT * FANOUT)
    BY <2>1, <2>4, EntryOfPage
  <2>6. q \div (FANOUT * FANOUT) = top \div ((PAGE_SIZE * FANOUT) * (FANOUT * FANOUT))
    <3> DEFINE x == PAGE_SIZE * FANOUT
               y == FANOUT * FANOUT
    <3>1. x \in Nat \ {0} /\ y \in Nat \ {0}
      BY Paging
    <3> HIDE DEF x, y
    <3>2. (top \div x) \div y = top \div (x * y)
      BY <1>3, <3>1, DivOfDiv
    <3> QED
      BY <3>2 DEF x, y
  <2>7. (PAGE_SIZE * FANOUT) * (FANOUT * FANOUT) = LEVEL_4_SIZE
    <3>1. \A a, b, c \in Nat : (a * b) * c = a * (b * c)
      OBVIOUS
    <3> QED
      BY <3>1, Paging
  <2> QED
    BY <2>1, <2>5, <2>6, <2>7 DEF p4_index
<1>6. FANOUT * huge_frames - 1 = end
  BY <1>4, Paging
<1>7. /\ First("map_physical_memory") = e * EntryPages /\ Count("map_physical_memory") = huge_frames
      /\ Width("map_physical_memory") = FANOUT /\ e * EntryPages \in Nat
  <2>1. First("map_physical_memory") = containing(e * LEVEL_4_SIZE) /\ Count("map_physical_memory") = huge_frames
        /\ Width("map_physical_memory") = FANOUT
    BY <1>2 DEF First, Count, Width
  <2> QED
    BY <1>2, <2>1, AlignedAddress, Paging
<1>8. Home("map_physical_memory") = e .. e + p4_index(top)
  <2>1. p4_index(e * LEVEL_4_SIZE + top) = e + p4_index(top) /\ p4_index(e * LEVEL_4_SIZE + 0) = e + p4_index(0)
        /\ e * LEVEL_4_SIZE \in Nat
    BY <1>2, <1>3, AlignedAddress
  <2>2. p4_index(0) = 0
    BY Paging, DivUnique DEF p4_index
  <2>3. at["physical_memory"] + size_of("physical_memory") - 1 = e * LEVEL_4_SIZE + top
    BY <1>2, <1>3
  <2>4. p4_index(at["physical_memory"]) = e
    BY <1>2, <2>1, <2>2
  <2> QED
    BY <1>2, <2>1, <2>3, <2>4 DEF Home
<1> HIDE DEF top, q, end
<1>9. ASSUME NEW p \in First("map_physical_memory")
               .. First("map_physical_memory") + Width("map_physical_memory") * Count("map_physical_memory") - 1
      PROVE  p \in Nat /\ p \div EntryPages \in Home("map_physical_memory")
  <2> DEFINE i == p - e * EntryPages
             h == FANOUT * huge_frames
  <2>1. h \in Nat /\ h - 1 = end
    BY <1>4, <1>6, Paging
  <2>2. p \in e * EntryPages .. e * EntryPages + h - 1
    BY <1>7
  <2> HIDE DEF h
  <2>3. p \in Nat /\ i \in Nat /\ i <= end /\ p = e * EntryPages + i
    BY <1>7, <2>1, <2>2
  <2> HIDE DEF i
  <2>4. (e * EntryPages + i) \div EntryPages = e + i \div EntryPages /\ i \div EntryPages \in Nat
    BY <1>2, <2>3, AlignedAddress, EntryOfPage
  <2>5. i \div EntryPages <= end \div EntryPages
    BY <1>5, <2>3, Paging, DivMonotone
  <2>6. p4_index(top) \in Nat
    BY <1>3, PageOfAddress DEF top
  <2> QED
    BY <1>2, <1>5, <1>8, <2>3, <2>4, <2>5, <2>6
<1> QED
  BY <1>4, <1>7, <1>9 DEF AreaOK

LEMMA Areas ==
  ASSUME RefInv, AtInv, NEW s \in MapSteps, Ready(s)
  PROVE  AreaOK(s)
BY StackArea, IdentityArea, FramebufferArea, RamdiskArea, PhysicalArea, BootInfoArea, HeapArea DEF MapSteps

\* The pages of the kernel's image.
LEMMA KernelArea ==
  ASSUME RefInv, AtInv, Rank(pc) > Rank("kernel"), NEW p \in kernel_pages
  PROVE  p \in Nat /\ p \div EntryPages \in placed_entries["kernel"]
<1>1. at["kernel"] # NoAddress /\ at["kernel"] \in Nat /\ "kernel" \in Things
  <2>1. "kernel" \in Things /\ Present("kernel")
    BY DEF Things, Present
  <2> QED
    BY <2>1 DEF AtInv, RefInv
<1>2. PICK s \in Kernel.segments : p \in pages_of(image_offset + s.virtual_addr, s.mem_size)
  BY DEF kernel_pages, segment_pages
<1>3. s.virtual_addr \in Nat /\ s.mem_size \in Nat \ {0} /\ min_addr(Kernel.segments) \in Nat
      /\ min_addr(Kernel.segments) <= s.virtual_addr
  <2>1. HasSegments(Kernel.segments) /\ \A u \in Kernel.segments : u.mem_size > 0
    BY MachinesAssumption DEF RefInv, WellFormed, WellFormedKernel, Kernel
  <2>2. \E a \in {u.virtual_addr : u \in Kernel.segments} : \A t \in Kernel.segments : a <= t.virtual_addr
    BY <2>1 DEF HasSegments
  <2>3. \A t \in Kernel.segments : min_addr(Kernel.segments) <= t.virtual_addr
    BY <2>2 DEF min_addr
  <2> QED
    BY <1>2, <2>1, <2>3, KernelExtent DEF HasSegments, RefInv
<1> DEFINE a == image_offset + s.virtual_addr
           b == a + s.mem_size - 1
<1>4. a \in Nat /\ b \in Nat /\ a <= b
  <2>1. a \in Nat
    BY <1>1, <1>3 DEF image_offset
  <2> HIDE DEF a
  <2> QED
    BY <1>3, <2>1
<1>5. p \in containing(a) .. containing(b)
  BY <1>2 DEF pages_of
<1>6. entries_of(a, s.mem_size) \subseteq placed_entries["kernel"]
  <2>1. placed_entries["kernel"] = segment_entries(Kernel.segments, image_offset)
    BY <1>1 DEF placed_entries
  <2>2. s.mem_size > 0
    BY <1>3
  <2> QED
    BY <1>2, <2>1, <2>2 DEF segment_entries
<1> QED
  BY <1>4, <1>5, <1>6, RangeEntries DEF entries_of
-----------------------------------------------------------------------------
(***************************************************************************)
(* What the mapping loops have mapped lies apart.                          *)
(***************************************************************************)
LEMMA HomesDisjoint ==
  ASSUME LayoutInv, NEW s \in MapSteps \ {"init_heap"}
  PROVE  /\ Home(s) \cap placed_entries["kernel"] = {}
         /\ \A r \in MapSteps \ {"init_heap"} :
              \/ r = s \/ Home(s) \cap Home(r) = {}
              \/ s \in {"identity_map", "map_gdt"} /\ r \in {"identity_map", "map_gdt"}
<1>1. /\ \A t \in Things : 0 \notin placed_entries[t]
      /\ \A t, u \in Things : t # u => placed_entries[t] \cap placed_entries[u] = {}
  BY LayoutFacts
<1>2. Things = {"kernel", "stack", "framebuffer", "ramdisk", "physical_memory", "boot_info"}
  BY DEF Things
<1>3. PICK T \in [MapSteps \ {"init_heap"} -> Things \cup {"none"}] :
        /\ \A r \in MapSteps \ {"init_heap"} :
             Home(r) = (IF T[r] = "none" THEN {0} ELSE placed_entries[T[r]]) /\ T[r] # "kernel"
        /\ \A r, q \in MapSteps \ {"init_heap"} : T[r] = T[q] => r = q \/ T[r] = "none"
        /\ \A r \in MapSteps \ {"init_heap"} : T[r] = "none" => r \in {"identity_map", "map_gdt"}
  <2> DEFINE T == [r \in MapSteps \ {"init_heap"} |->
                     IF r = "map_stack" THEN "stack"
                     ELSE IF r = "map_framebuffer" THEN "framebuffer"
                     ELSE IF r = "map_ramdisk" THEN "ramdisk"
                     ELSE IF r = "map_physical_memory" THEN "physical_memory"
                     ELSE IF r = "map_boot_info" THEN "boot_info" ELSE "none"]
  <2>1. T \in [MapSteps \ {"init_heap"} -> Things \cup {"none"}]
    BY <1>2
  <2>2. \A r \in MapSteps \ {"init_heap"} :
          Home(r) = (IF T[r] = "none" THEN {0} ELSE placed_entries[T[r]]) /\ T[r] # "kernel"
    BY DEF Home, MapSteps
  <2>3. \A r, q \in MapSteps \ {"init_heap"} : T[r] = T[q] => r = q \/ T[r] = "none"
    BY DEF MapSteps
  <2>4. \A r \in MapSteps \ {"init_heap"} : T[r] = "none" => r \in {"identity_map", "map_gdt"}
    BY DEF MapSteps
  <2> HIDE DEF T
  <2> QED
    BY <2>1, <2>2, <2>3, <2>4
<1>4. "kernel" \in Things /\ "none" \notin Things
  BY <1>2
<1>5. Home(s) \cap placed_entries["kernel"] = {}
  BY <1>1, <1>3, <1>4
<1>6. ASSUME NEW r \in MapSteps \ {"init_heap"}
      PROVE  \/ r = s \/ Home(s) \cap Home(r) = {}
             \/ s \in {"identity_map", "map_gdt"} /\ r \in {"identity_map", "map_gdt"}
  <2>1. CASE T[r] = T[s]
    BY <1>3, <2>1
  <2>2. CASE T[r] # T[s]
    BY <1>1, <1>3, <1>4, <2>2
  <2> QED
    BY <2>1, <2>2
<1> QED
  BY <1>5, <1>6

LEMMA FirstInt ==
  ASSUME RefInv, AtInv, NEW s \in MapSteps
  PROVE  First(s) \in Int /\ Width(s) \in Nat \ {0}
<1>1. \A a \in Int : containing(a) \in Int
  <2> DEFINE d == PAGE_SIZE
  <2>1. d \in Nat \ {0}
    BY Paging
  <2>2. \A a \in Int, b \in Nat \ {0} : a \div b \in Int
    OBVIOUS
  <2> QED
    BY <2>1, <2>2 DEF containing
<1>2. \A t \in Things : at[t] \in Int
  BY DEF RefInv, NoAddress
<1>3. gdtr \in Int /\ machine.code \in Int /\ HEAP_START \in Int /\ stack_start \in Int
  <2>1. gdtr \in Int
    BY Paging DEF AtInv, NoAddress
  <2>2. at["stack"] \in Int
    BY <1>2 DEF Things
  <2> QED
    BY <2>1, <2>2, MachineFacts, PagingAssumption DEF RefInv, stack_start
<1>4. First(s) \in Int
  BY <1>1, <1>2, <1>3 DEF First, MapSteps, Things
<1> QED
  BY <1>4, Paging DEF Width

LEMMA DoneBound ==
  ASSUME RefInv, AtInv, LoopInv, NEW s \in MapSteps
  PROVE  /\ Done(s) \in Nat
         /\ Done(s) # 0 => Ready(s) /\ Done(s) <= Count(s)
         /\ pc = s => Ready(s) /\ Done(s) = loop /\ loop < Count(s)
<1>1. \A r \in MapSteps : Ready(r) => Count(r) \in Nat \ {0}
  BY Areas DEF AreaOK
<1>2. Count("map_framebuffer") # 0 => Framebuffer # None
  BY DEF Count
<1>3. Count("map_ramdisk") # 0 => Ramdisk # None
  BY DEF Count
<1>4. pc \in Steps /\ \A p \in Steps : Rank(p) \in Nat
  BY DEF RefInv, Steps, Rank
<1>5. MapSteps \subseteq Steps /\ "map_boot_info_again" \notin MapSteps /\ "map_boot_info_again" \in Steps
  BY DEF MapSteps, Steps
<1>6. CASE pc = s
  <2>1. loop \in Nat /\ loop < Count(s) /\ Done(s) = loop
    BY <1>6 DEF LoopInv, Done
  <2>2. Ready(s)
    BY <1>2, <1>3, <1>4, <1>6, <2>1 DEF Ready
  <2>3. Count(s) \in Nat
    BY <1>1, <2>2
  <2> QED
    BY <2>1, <2>2, <2>3
<1>7. CASE pc # s /\ s = "map_boot_info" /\ pc = "map_boot_info_again"
  <2>1. loop \in Nat /\ loop < Count(s) /\ Done(s) = loop + 1
    BY <1>5, <1>7 DEF LoopInv, Done
  <2>2. Ready(s)
    BY <1>7 DEF Ready, Rank
  <2>3. Count(s) \in Nat
    BY <1>1, <2>2
  <2> QED
    BY <1>7, <2>1, <2>2, <2>3
<1>8. CASE pc # s /\ ~(s = "map_boot_info" /\ pc = "map_boot_info_again") /\ Rank(pc) > Rank(s)
  <2>1. Done(s) = Count(s)
    BY <1>8 DEF Done
  <2>2. Ready(s) => Count(s) \in Nat
    BY <1>1
  <2>3. ~Ready(s) => Count(s) = 0
    <3>1. Rank(pc) >= Rank(s)
      BY <1>4, <1>5, <1>8
    <3> QED
      BY <3>1 DEF Ready, Count
  <2> QED
    BY <1>8, <2>1, <2>2, <2>3
<1>9. CASE pc # s /\ ~(s = "map_boot_info" /\ pc = "map_boot_info_again") /\ ~(Rank(pc) > Rank(s))
  BY <1>9 DEF Done
<1> QED
  BY <1>6, <1>7, <1>8, <1>9

\* A page of a loop lies where the loop's pages lie.
LEMMA PageInArea ==
  ASSUME RefInv, AtInv, LoopInv, NEW s \in MapSteps, NEW p \in Pages(s)
  PROVE  /\ Ready(s) /\ First(s) \in Nat /\ p \in Nat /\ p >= First(s) /\ p \div EntryPages \in Home(s)
         /\ p < First(s) + Width(s) * Done(s)
         /\ p \in First(s) .. First(s) + Width(s) * Count(s) - 1
<1> DEFINE f == First(s)
           w == Width(s)
           d == Done(s)
           c == Count(s)
<1>1. f \in Int /\ w \in Nat \ {0} /\ d \in Nat
  BY FirstInt, DoneBound
<1>2. p \in f .. f + w * d - 1
  BY DEF Pages
<1>3. d # 0
  <2> HIDE DEF f, w, d
  <2> QED
    BY <1>1, <1>2
<1>4. Ready(s) /\ d <= c
  BY <1>3, DoneBound
<1>5. AreaOK(s)
  BY <1>4, Areas
<1>6. f \in Nat /\ c \in Nat \ {0}
  BY <1>5 DEF AreaOK
<1>7. p \in f .. f + w * c - 1 /\ p >= f /\ p < f + w * d
  <2> HIDE DEF f, w, d, c
  <2>1. w * d <= w * c /\ w * d \in Nat /\ w * c \in Nat
    BY <1>1, <1>4, <1>6
  <2> QED
    BY <1>1, <1>2, <1>6, <2>1
<1> QED
  BY <1>4, <1>5, <1>6, <1>7 DEF AreaOK
-----------------------------------------------------------------------------
(***************************************************************************)
(* How a mapping step changes the parts of the invariant.                  *)
(***************************************************************************)
\* Areas do not move while the things placed stay where they are.
LEMMA Same ==
  ASSUME UNCHANGED <<machine, at, gdtr>>
  PROVE  /\ \A s : First(s)' = First(s) /\ Count(s)' = Count(s) /\ FirstFrame(s)' = FirstFrame(s)
         /\ \A s : Home(s)' = Home(s) /\ Present(s)' = Present(s)
         /\ placed_entries' = placed_entries /\ PageEntries' = PageEntries
         /\ kernel_pages' = kernel_pages /\ Memory' = Memory /\ Kernel' = Kernel
         /\ boot_info_size' = boot_info_size /\ stack_start' = stack_start
<1>1. /\ Memory' = Memory /\ Kernel' = Kernel /\ Framebuffer' = Framebuffer /\ Ramdisk' = Ramdisk
      /\ boot_info_size' = boot_info_size /\ stack_start' = stack_start /\ stack_top' = stack_top
      /\ framebuffer_frames' = framebuffer_frames /\ ramdisk_page_count' = ramdisk_page_count
      /\ huge_frames' = huge_frames /\ image_offset' = image_offset
  BY DEF Memory, Kernel, Framebuffer, Ramdisk, boot_info_size, stack_start, stack_top, framebuffer_frames,
         ramdisk_page_count, huge_frames, image_offset
<1>2. \A s : First(s)' = First(s) /\ Count(s)' = Count(s) /\ FirstFrame(s)' = FirstFrame(s)
  BY <1>1 DEF First, Count, FirstFrame
<1>3. \A t : size_of(t)' = size_of(t)
  BY <1>1 DEF size_of
<1>4. placed_entries' = placed_entries
  BY <1>1, <1>3 DEF placed_entries
<1>5. \A s : Home(s)' = Home(s) /\ Present(s)' = Present(s)
  BY <1>1, <1>4 DEF Home, Present
<1>6. PageEntries' = PageEntries /\ kernel_pages' = kernel_pages
  BY <1>1, <1>4 DEF PageEntries, kernel_pages, segment_pages
<1> QED
  BY <1>1, <1>2, <1>4, <1>5, <1>6

LEMMA KernelGrows ==
  ASSUME RefInv, AtInv, LoopInv, DomInv, ShowInv, UNCHANGED <<machine, at, gdtr>>,
         NEW s \in MapSteps, Ready(s), NEW frame \in Nat, NEW own, NEW found,
         MapsTo("kernel", First(s) + Width(s) * Done(s), Width(s), frame, own, found),
         Done(s)' = Done(s) + 1, \A r \in MapSteps : r # s => Done(r)' = Done(r),
         Rank(pc) > Rank("map_kernel"), Rank(pc') > Rank("map_kernel"),
         s \in ShownSteps => frame = FirstFrame(s) + Width(s) * Done(s)
  PROVE  DomInv' /\ ShowInv'
<1> DEFINE f == First(s)
           w == Width(s)
           d == Done(s)
           K == mapped["kernel"]
           L == mapped'["kernel"]
           new == f + w * d .. f + w * d + w - 1
<1>1. AreaOK(s) /\ f \in Nat /\ w \in Nat \ {0} /\ d \in Nat
  BY Areas, FirstInt, DoneBound DEF AreaOK
<1>2. w * d \in Nat /\ w * (d + 1) = w * d + w
  <2> HIDE DEF w, d
  <2> QED
    BY <1>1
<1>3. /\ DOMAIN mapped' = Spaces /\ DOMAIN L = DOMAIN K \cup new
      /\ \A p \in new : L[p] = frame + (p - (f + w * d))
      /\ \A p \in DOMAIN K : L[p] = K[p]
  BY DEF MapsTo, DomInv
<1>4. /\ First(s)' = f /\ kernel_pages' = kernel_pages
      /\ \A r \in MapSteps : r # s => Pages(r)' = Pages(r)
  BY Same DEF Pages
<1>5. Pages(s)' = Pages(s) \cup new
  <2>1. Pages(s) = f .. f + w * d - 1
    BY DEF Pages
  <2>2. Pages(s)' = f .. f + w * (d + 1) - 1
    BY <1>4 DEF Pages
  <2> DEFINE x == w * d
  <2>3. x \in Nat /\ w * (d + 1) = x + w
    BY <1>2
  <2> HIDE DEF f, w, d, x
  <2>4. f .. f + (x + w) - 1 = (f .. f + x - 1) \cup (f + x .. f + x + w - 1)
    BY <1>1, <2>3
  <2> QED
    BY <2>1, <2>2, <2>3, <2>4 DEF x
<1>6. IsFiniteSet(DOMAIN L)
  <2>1. IsFiniteSet(new)
    <3> DEFINE a == f + w * d
               b == f + w * d + w - 1
    <3>1. a \in Int /\ b \in Int
      BY <1>1, <1>2
    <3> HIDE DEF a, b
    <3>2. IsFiniteSet(a .. b)
      BY <3>1, FS_Interval
    <3> QED
      BY <3>2 DEF a, b
  <2>2. IsFiniteSet(DOMAIN K)
    BY DEF DomInv
  <2> HIDE DEF new, K, L
  <2> QED
    BY <1>3, <2>1, <2>2, FS_Union
<1>7. \A p \in DOMAIN L : \/ at'["kernel"] # NoAddress /\ p \in kernel_pages'
                          \/ \E r \in MapSteps : p \in Pages(r)'
  <2> SUFFICES ASSUME NEW p \in DOMAIN L
               PROVE  \/ at["kernel"] # NoAddress /\ p \in kernel_pages
                      \/ \E r \in MapSteps : p \in Pages(r)'
    BY <1>4
  <2>1. CASE p \in DOMAIN K
    <3>1. \/ at["kernel"] # NoAddress /\ p \in kernel_pages
          \/ \E r \in MapSteps : p \in Pages(r)
      BY <2>1 DEF DomInv
    <3> HIDE DEF new
    <3> QED
      BY <1>4, <1>5, <3>1
  <2>2. CASE p \in new
    <3> HIDE DEF new
    <3> QED
      BY <1>5, <2>2
  <2> HIDE DEF new, K, L
  <2> QED
    BY <1>3, <2>1, <2>2
<1>8. \A r \in MapSteps : Pages(r)' \subseteq DOMAIN L
  <2>1. \A r \in MapSteps : Pages(r) \subseteq DOMAIN K
    BY DEF DomInv
  <2> HIDE DEF new, K, L
  <2> QED
    BY <1>3, <1>4, <1>5, <2>1
<1>9. pc' # "map_kernel" /\ unmapped_kernel_pages' = {}
  <2>1. kernel_pages \subseteq DOMAIN K
    BY DEF DomInv, unmapped_kernel_pages
  <2>2. unmapped_kernel_pages' = kernel_pages \ DOMAIN L
    BY <1>4 DEF unmapped_kernel_pages
  <2>3. pc' # "map_kernel"
    BY DEF Rank
  <2> HIDE DEF new, K, L
  <2> QED
    BY <1>3, <2>1, <2>2, <2>3
<1>10. DomInv'
  BY <1>3, <1>6, <1>7, <1>8, <1>9 DEF DomInv
<1>11. \A p \in DOMAIN L : L[p] \in Nat
  <2>1. \A p \in DOMAIN K : K[p] \in Nat
    BY DEF ShowInv
  <2>2. \A p \in new : frame + (p - (f + w * d)) \in Nat
    <3> DEFINE a == f + w * d
               b == f + w * d + w - 1
    <3>1. a \in Int /\ b \in Int
      BY <1>1, <1>2
    <3> HIDE DEF a, b
    <3>2. \A p \in a .. b : frame + (p - a) \in Nat
      BY <3>1
    <3> QED
      BY <3>2 DEF a, b
  <2> HIDE DEF new, K, L
  <2> QED
    BY <1>3, <2>1, <2>2
<1>12. ASSUME NEW r \in ShownSteps, NEW p \in Pages(r)'
       PROVE  L[p] = FirstFrame(r)' + (p - First(r)')
  <2>1. r \in MapSteps /\ FirstFrame(r)' = FirstFrame(r) /\ First(r)' = First(r)
    BY Same DEF ShownSteps, MapSteps
  <2>2. CASE p \in Pages(r)
    <3>1. p \in DOMAIN K /\ K[p] = FirstFrame(r) + (p - First(r))
      BY <2>1, <2>2 DEF ShowInv, DomInv
    <3> QED
      BY <1>3, <2>1, <3>1
  <2>3. CASE p \notin Pages(r)
    <3>1. r = s /\ p \in new
      <4> HIDE DEF new
      <4> QED
        BY <1>4, <1>5, <2>1, <2>3
    <3>2. L[p] = frame + (p - (f + w * d)) /\ frame = FirstFrame(s) + w * d
      BY <1>3, <3>1
    <3>3. p \in Int
      BY <1>1, <1>2, <3>1
    <3>4. FirstFrame(s) \in Int
      BY <3>1, MachineFacts, SizeFacts, PageOfAddress DEF ShownSteps, FirstFrame, RefInv, AtInv, NoAddress, Ready
    <3> DEFINE x == w * d
               g == FirstFrame(s)
    <3>5. L[p] = (g + x) + (p - (f + x)) /\ x \in Int /\ f \in Int /\ g \in Int
      BY <1>1, <1>2, <3>2, <3>4
    <3> HIDE DEF x, g, f, L
    <3>6. L[p] = g + (p - f)
      BY <3>3, <3>5
    <3> QED
      BY <2>1, <3>1, <3>6 DEF g, f
  <2> QED
    BY <2>2, <2>3
<1> QED
  BY <1>10, <1>11, <1>12 DEF ShowInv

\* New page tables.
LEMMA TablesGrow ==
  ASSUME RefInv, TableInv, SupplyInv, UNCHANGED <<machine, at, gdtr>>,
         NEW space \in Spaces, NEW page \in Nat, NEW pages \in Nat, NEW frame, NEW own \in {0, 1}, NEW found,
         MapsTo(space, page, pages, frame, own, found),
         Rank(pc) > Rank("kernel_table"), Rank(pc') > Rank("kernel_table"), InNukleus' <=> InNukleus,
         space = "kernel" /\ pages = 1 /\ ~InNukleus => page \div EntryPages \in PageEntries
  PROVE  TableInv'
<1> DEFINE last == last_level(pages)
           n    == own + found - last
           T    == tables[space]
           U    == tables'[space]
<1>1. /\ last \in {1, 2} /\ found \in last .. 4 /\ n \in own .. own + 3 /\ n <= Len(supply)
      /\ DOMAIN tables' = Spaces /\ \A s \in Spaces \ {space} : tables'[s] = tables[s]
      /\ DOMAIN T \subseteq DOMAIN U /\ \A t \in DOMAIN T : U[t] = T[t]
      /\ \A t \in DOMAIN U \ DOMAIN T :
           t[1] \in last .. found - 1 /\ t = table(page, t[1]) /\ U[t] = supply[own + found - t[1]]
      /\ \A i \in own + 1 .. n : accessible(supply[i])
  BY DEF MapsTo, TableInv, last_level
<1>2. ASSUME NEW t \in DOMAIN U \ DOMAIN T
      PROVE  /\ t \in (1 .. 4) \X Nat /\ t \in {table(page, 1), table(page, 2), table(page, 3)}
             /\ t[1] = 1 => t[2] = page \div FANOUT /\ pages = 1
             /\ U[t] \in frames_of(Memory) /\ (~InNukleus => U[t] < EntryPages)
  <2>1. t[1] \in last .. found - 1 /\ t = table(page, t[1]) /\ U[t] = supply[own + found - t[1]]
    BY <1>1
  <2> DEFINE i == own + found - t[1]
  <2>2. t[1] \in 1 .. 3 /\ i \in own + 1 .. n /\ i \in 1 .. Len(supply)
    <3> DEFINE l == t[1]
    <3>1. Len(supply) \in Nat
      BY DEF SupplyInv
    <3>2. l \in last .. found - 1
      BY <2>1
    <3> HIDE DEF l, last
    <3>3. l \in 1 .. 3 /\ own + found - l \in own + 1 .. own + found - last
      BY <1>1, <3>2
    <3>4. own + found - l \in 1 .. Len(supply)
      BY <1>1, <3>1, <3>3
    <3> QED
      BY <3>3, <3>4 DEF l
  <2>3. t \in (1 .. 4) \X Nat /\ (t[1] = 1 => t[2] = page \div FANOUT)
    <3> DEFINE l == t[1]
    <3>1. l \in 1 .. 4 /\ t = table(page, l)
      BY <2>1, <2>2
    <3> HIDE DEF l
    <3>2. table(page, l) \in (1 .. 4) \X Nat /\ (l = 1 => table(page, l)[2] = page \div FANOUT)
      BY <3>1, TableOf
    <3> QED
      BY <3>1, <3>2 DEF l
  <2>4. t[1] = 1 => pages = 1
    BY <1>1, <2>1 DEF last_level
  <2>5. t \in {table(page, 1), table(page, 2), table(page, 3)}
    BY <2>1, <2>2
  <2>6. supply[i] \in frames_of(Memory)
    BY <2>2 DEF SupplyInv
  <2>7. ~InNukleus => supply[i] < EntryPages
    <3>1. accessible(supply[i])
      BY <1>1, <2>2
    <3>2. pc # "bootloader_table"
      BY DEF Rank
    <3> QED
      BY <3>1, <3>2 DEF accessible, InNukleus
  <2> QED
    BY <2>1, <2>3, <2>4, <2>5, <2>6, <2>7
<1>3. IsFiniteSet(DOMAIN U)
  <2>1. IsFiniteSet(DOMAIN T)
    BY DEF TableInv
  <2>2. IsFiniteSet({table(page, 1), table(page, 2), table(page, 3)})
    <3>1. IsFiniteSet({table(page, 1)})
      BY FS_Singleton
    <3>2. IsFiniteSet({table(page, 1)} \cup {table(page, 2)})
      BY <3>1, FS_AddElement
    <3>3. IsFiniteSet({table(page, 1)} \cup {table(page, 2)} \cup {table(page, 3)})
      BY <3>2, FS_AddElement
    <3>4. {table(page, 1)} \cup {table(page, 2)} \cup {table(page, 3)} = {table(page, 1), table(page, 2), table(page, 3)}
      OBVIOUS
    <3> QED
      BY <3>3, <3>4
  <2> DEFINE V == DOMAIN T \cup {table(page, 1), table(page, 2), table(page, 3)}
  <2>3. IsFiniteSet(V)
    BY <2>1, <2>2, FS_Union
  <2>4. DOMAIN U \in SUBSET V
    BY <1>2
  <2> HIDE DEF V
  <2> QED
    BY <2>3, <2>4, FS_Subset
<1>4. Memory' = Memory /\ PageEntries' = PageEntries
  BY Same
<1>5. \A s \in Spaces : <<4, 0>> \in DOMAIN tables'[s]
  <2>1. <<4, 0>> \in DOMAIN tables["bootloader"] /\ <<4, 0>> \in DOMAIN tables["kernel"]
    <3>1. Rank(pc) > Rank("bootloader_table")
      BY DEF Rank, RefInv, Steps
    <3> QED
      BY <3>1 DEF TableInv
  <2> QED
    BY <1>1, <2>1 DEF Spaces
<1>6. \A s \in Spaces : IsFiniteSet(DOMAIN tables'[s])
  BY <1>1, <1>3 DEF TableInv
<1>7. \A s \in Spaces : \A t \in DOMAIN tables'[s] :
        /\ t \in (1 .. 4) \X Nat /\ tables'[s][t] \in frames_of(Memory)
        /\ ~InNukleus => tables'[s][t] < EntryPages
  <2> SUFFICES ASSUME NEW s \in Spaces, NEW t \in DOMAIN tables'[s]
               PROVE  /\ t \in (1 .. 4) \X Nat /\ tables'[s][t] \in frames_of(Memory)
                      /\ ~InNukleus => tables'[s][t] < EntryPages
    OBVIOUS
  <2>1. CASE t \in DOMAIN tables[s]
    <3>1. tables'[s][t] = tables[s][t]
      BY <1>1, <2>1
    <3> QED
      BY <2>1, <3>1 DEF TableInv
  <2>2. CASE t \notin DOMAIN tables[s]
    BY <1>1, <1>2, <2>2
  <2> QED
    BY <2>1, <2>2
<1>8. ASSUME ~InNukleus, NEW t \in DOMAIN tables'["kernel"], t[1] = 1
      PROVE  t[2] \div (FANOUT * FANOUT) \in PageEntries
  <2>1. CASE t \in DOMAIN tables["kernel"]
    BY <1>8, <2>1 DEF TableInv
  <2>2. CASE t \notin DOMAIN tables["kernel"]
    <3>1. space = "kernel"
      BY <1>1, <2>2 DEF Spaces
    <3>2. t[2] = page \div FANOUT /\ pages = 1
      BY <1>2, <1>8, <2>2, <3>1
    <3>3. (page \div FANOUT) \div (FANOUT * FANOUT) = page \div EntryPages
      BY EntryOfPage
    <3> QED
      BY <1>8, <3>1, <3>2, <3>3
  <2> QED
    BY <2>1, <2>2
<1> QED
  BY <1>1, <1>4, <1>5, <1>6, <1>7, <1>8, Zenon DEF TableInv, Spaces

(***************************************************************************)
(* The users of frames.                                                    *)
(***************************************************************************)
UserFacts ==
  /\ \A u \in Users :
       \/ \E s \in Spaces : \E t \in DOMAIN tables[s] : u = <<"table", s, t>>
       \/ \E p \in own_pages \cap DOMAIN mapped["kernel"] : u = <<"page", p>>
       \/ u = <<"gdt">> /\ gdtr # NoAddress
       \/ u = <<"code">> /\ ~KernelEntered
  /\ \A s \in Spaces : \A t \in DOMAIN tables[s] : <<"table", s, t>> \in Users
  /\ \A p \in own_pages \cap DOMAIN mapped["kernel"] : <<"page", p>> \in Users
  /\ gdtr # NoAddress => <<"gdt">> \in Users
  /\ ~KernelEntered => <<"code">> \in Users

LEMMA UserCases == UserFacts
<1> DEFINE A == UNION {{<<"table", s, t>> : t \in DOMAIN tables[s]} : s \in Spaces}
           B == {<<"page", p>> : p \in own_pages \cap DOMAIN mapped["kernel"]}
           C == {<<"gdt">> : g \in {gdtr} \ {NoAddress}}
           D == {<<"code">> : c \in {pc} \ {"kernel_main", "init_heap", "running"}}
<1>a. Users = A \cup B \cup C \cup D
  BY Zenon DEF Users
<1>b. \A u : u \in A <=> \E s \in Spaces : \E t \in DOMAIN tables[s] : u = <<"table", s, t>>
  OBVIOUS
<1>c. \A u : u \in B <=> \E p \in own_pages \cap DOMAIN mapped["kernel"] : u = <<"page", p>>
  BY Zenon
<1>d. \A u : u \in C <=> u = <<"gdt">> /\ gdtr # NoAddress
  BY Zenon
<1>e. \A u : u \in D <=> u = <<"code">> /\ ~KernelEntered
  BY Zenon DEF KernelEntered
<1> HIDE DEF A, B, C, D
<1>1. \A u \in Users :
       \/ \E s \in Spaces : \E t \in DOMAIN tables[s] : u = <<"table", s, t>>
       \/ \E p \in own_pages \cap DOMAIN mapped["kernel"] : u = <<"page", p>>
       \/ u = <<"gdt">> /\ gdtr # NoAddress
       \/ u = <<"code">> /\ ~KernelEntered
  BY <1>a, <1>b, <1>c, <1>d, <1>e, Zenon
<1>2. \A s \in Spaces : \A t \in DOMAIN tables[s] : <<"table", s, t>> \in Users
  BY <1>a, <1>b, Zenon
<1>3. \A p \in own_pages \cap DOMAIN mapped["kernel"] : <<"page", p>> \in Users
  BY <1>a, <1>c, Zenon
<1>4. gdtr # NoAddress => <<"gdt">> \in Users
  BY <1>a, <1>d, Zenon
<1>5. ~KernelEntered => <<"code">> \in Users
  BY <1>a, <1>e, Zenon
<1> QED
  BY <1>1, <1>2, <1>3, <1>4, <1>5 DEF UserFacts

LEMMA UserCasesNext == UserFacts'
BY UserCases, PTL

LEMMA FrameCases ==
  /\ \A s, t : frame_of(<<"table", s, t>>) = tables[s][t] /\ frame_of(<<"table", s, t>>)' = tables'[s][t]
  /\ \A p : frame_of(<<"page", p>>) = mapped["kernel"][p] /\ frame_of(<<"page", p>>)' = mapped'["kernel"][p]
  /\ frame_of(<<"gdt">>) = gdtr /\ frame_of(<<"gdt">>)' = gdtr'
  /\ frame_of(<<"code">>) = machine.code /\ frame_of(<<"code">>)' = machine'.code
BY DEF frame_of

\* The frames left after n were granted.
LEMMA Suffix ==
  ASSUME NEW S, NEW q \in Seq(S), NEW n \in 0 .. Len(q)
  PROVE  LET r == SubSeq(q, n + 1, Len(q))
         IN  /\ r \in Seq(S) /\ Len(r) = Len(q) - n
             /\ \A i \in 1 .. Len(r) : r[i] = q[n + i] /\ n + i \in 1 .. Len(q)
<1> DEFINE m == Len(q)
           r == SubSeq(q, n + 1, m)
<1>1. m \in Nat /\ n \in Nat /\ n <= m
  OBVIOUS
<1>2. r \in Seq(S) /\ Len(r) = m - n
  <2>1. CASE n = m
    BY <1>1, <2>1
  <2>2. CASE n < m
    BY <1>1, <2>2
  <2> QED
    BY <1>1, <2>1, <2>2
<1>3. ASSUME NEW i \in 1 .. Len(r) PROVE r[i] = q[n + i] /\ n + i \in 1 .. m
  <2>1. n + i \in 1 .. m /\ n + i = (n + 1) + i - 1
    BY <1>1, <1>2
  <2> QED
    BY <1>1, <1>2, <2>1
<1> QED
  BY <1>2, <1>3

\* Frames are granted to new users only.
LEMMA UsersGranted ==
  ASSUME RefInv, SupplyInv, UsersInv, UNCHANGED machine, InNukleus' <=> InNukleus,
         NEW n \in 0 .. Len(supply), supply' = SubSeq(supply, n + 1, Len(supply)),
         \A u \in Users' : IF u \in Users THEN frame_of(u)' = frame_of(u)
                           ELSE \E i \in 1 .. n : frame_of(u)' = supply[i],
         \A u, v \in Users' : u \notin Users /\ v \notin Users /\ frame_of(u)' = frame_of(v)' => u = v
  PROVE  SupplyInv' /\ UsersInv'
<1> DEFINE m == Len(supply)
           k == Len(Memory.free)
<1>1. /\ supply \in Seq(frames_of(Memory)) /\ m \in Nat /\ Memory' = Memory
      /\ Memory.free \in Seq(frames_of(Memory)) /\ k \in Nat
  BY MachineFacts DEF SupplyInv, RefInv, Memory
<1>2. /\ supply' \in Seq(frames_of(Memory)) /\ Len(supply') = m - n
      /\ \A i \in 1 .. Len(supply') : supply'[i] = supply[n + i] /\ n + i \in 1 .. m
  BY <1>1, Suffix
<1>3. SupplyInv'
  <2>1. \A i \in 1 .. Len(supply') : \A j \in 1 .. i - 1 : supply'[i] # supply'[j]
    <3> SUFFICES ASSUME NEW i \in 1 .. Len(supply'), NEW j \in 1 .. i - 1 PROVE supply'[i] # supply'[j]
      OBVIOUS
    <3>1. n + i \in 1 .. m /\ n + j \in 1 .. (n + i) - 1 /\ j \in 1 .. Len(supply')
      BY <1>1, <1>2
    <3>2. supply[n + i] # supply[n + j]
      BY <3>1 DEF SupplyInv
    <3> QED
      BY <1>2, <3>1, <3>2
  <2>2. ASSUME ~InNukleus
        PROVE  /\ Len(supply') <= k
               /\ \A i \in 1 .. Len(supply') : supply'[i] = Memory.free[k - Len(supply') + i]
    <3>1. m <= k /\ \A i \in 1 .. m : supply[i] = Memory.free[k - m + i]
      BY <2>2 DEF SupplyInv
    <3>0. n \in Nat /\ n <= m
      BY <1>1
    <3> HIDE DEF k, m
    <3>2. \A i \in 1 .. Len(supply') : k - m + (n + i) = k - Len(supply') + i
      <4> SUFFICES ASSUME NEW i \in 1 .. Len(supply') PROVE k - m + (n + i) = k - Len(supply') + i
        OBVIOUS
      <4>1. k \in Int /\ m \in Int /\ n \in Int /\ i \in Int
        BY <1>1, <1>2, <3>0
      <4>2. k - m + (n + i) = k - (m - n) + i
        BY <4>1
      <4> QED
        BY <1>2, <4>2
    <3>3. Len(supply') <= k
      BY <1>1, <1>2, <3>1
    <3>4. \A i \in 1 .. Len(supply') : supply'[i] = Memory.free[k - m + (n + i)]
      BY <1>2, <3>1
    <3> QED
      BY <3>2, <3>3, <3>4
  <2> QED
    BY <1>1, <1>2, <2>1, <2>2 DEF SupplyInv
<1>4. ASSUME NEW u \in Users', NEW v \in Users', frame_of(u)' = frame_of(v)' PROVE u = v
  <2>1. CASE u \in Users /\ v \in Users
    BY <1>4, <2>1 DEF UsersInv
  <2>2. CASE u \notin Users /\ v \notin Users
    BY <1>4, <2>2
  <2>3. ASSUME NEW x \in Users', NEW y \in Users', x \in Users, y \notin Users, frame_of(x)' = frame_of(y)'
        PROVE  FALSE
    <3>1. PICK i \in 1 .. n : frame_of(y)' = supply[i]
      BY <2>3
    <3>2. i \in 1 .. m /\ frame_of(x) = supply[i]
      BY <1>1, <2>3, <3>1
    <3> QED
      BY <2>3, <3>2 DEF UsersInv
  <2> QED
    BY <1>4, <2>1, <2>2, <2>3
<1>5. ASSUME NEW u \in Users', NEW i \in 1 .. Len(supply') PROVE supply'[i] # frame_of(u)'
  <2>1. n + i \in 1 .. m /\ supply'[i] = supply[n + i]
    BY <1>2
  <2>2. CASE u \in Users
    BY <2>1, <2>2 DEF UsersInv
  <2>3. CASE u \notin Users
    <3>1. PICK j \in 1 .. n : frame_of(u)' = supply[j]
      BY <2>3
    <3>2. j \in 1 .. (n + i) - 1
      BY <1>1, <1>2, <3>1
    <3> QED
      BY <2>1, <3>1, <3>2 DEF SupplyInv
  <2> QED
    BY <2>2, <2>3
<1>6. ASSUME ~InNukleus, NEW u \in Users'
      PROVE  u = <<"code">> \/ \E i \in 1 .. k - Len(supply') : frame_of(u)' = Memory.free[i]
  <2>1. m <= k /\ \A i \in 1 .. m : supply[i] = Memory.free[k - m + i]
    BY <1>6 DEF SupplyInv
  <2>2. CASE u \in Users /\ u # <<"code">>
    <3>1. PICK i \in 1 .. k - m : frame_of(u) = Memory.free[i]
      BY <1>6, <2>2 DEF UsersInv
    <3>2. i \in 1 .. k - Len(supply')
      BY <1>1, <1>2, <2>1, <3>1
    <3> QED
      BY <2>2, <3>1, <3>2
  <2>3. CASE u \notin Users
    <3>1. PICK i \in 1 .. n : frame_of(u)' = supply[i]
      BY <2>3
    <3>2. i \in 1 .. m /\ k - m + i \in 1 .. k - Len(supply')
      <4> HIDE DEF k, m
      <4>1. Len(supply') = m - n /\ n \in 0 .. m
        BY <1>2 DEF m
      <4> QED
        BY <1>1, <2>1, <3>1, <4>1
    <3> QED
      BY <2>1, <3>1, <3>2
  <2> QED
    BY <2>2, <2>3
<1> QED
  BY <1>1, <1>3, <1>4, <1>5, <1>6, Zenon DEF UsersInv

\* A mapping grants frames to the tables it adds and, if it has one of its own, to its page.
LEMMA UsersMap ==
  ASSUME RefInv, TableInv, SupplyInv, UsersInv, UNCHANGED <<machine, gdtr>>,
         InNukleus' <=> InNukleus, KernelEntered' <=> KernelEntered,
         NEW space \in Spaces, NEW page \in Nat, NEW pages \in Nat, NEW frame \in Nat, NEW own \in {0, 1}, NEW found,
         MapsTo(space, page, pages, frame, own, found),
         own = 1 => space = "kernel" /\ pages = 1 /\ frame = supply[1],
         \A p \in own_pages' \cap DOMAIN mapped'["kernel"] :
           p \in own_pages \cap DOMAIN mapped["kernel"] \/ (own = 1 /\ p = page)
  PROVE  SupplyInv' /\ UsersInv'
<1> DEFINE last == last_level(pages)
           n    == own + found - last
<1>1. /\ last \in {1, 2} /\ found \in last .. 4 /\ n \in own .. own + 3 /\ n <= Len(supply)
      /\ supply' = SubSeq(supply, n + 1, Len(supply))
      /\ \A s \in Spaces \ {space} : mapped'[s] = mapped[s] /\ tables'[s] = tables[s]
      /\ \A p \in DOMAIN mapped[space] : mapped'[space][p] = mapped[space][p]
      /\ \A p \in page .. page + pages - 1 : mapped'[space][p] = frame + (p - page)
      /\ \A t \in DOMAIN tables[space] : tables'[space][t] = tables[space][t]
      /\ \A t \in DOMAIN tables'[space] \ DOMAIN tables[space] :
           t[1] \in last .. found - 1 /\ t = table(page, t[1]) /\ tables'[space][t] = supply[own + found - t[1]]
  BY DEF MapsTo, last_level
<1>2. n \in 0 .. Len(supply) /\ Len(supply) \in Nat
  BY <1>1 DEF SupplyInv
<1> DEFINE NewTable(u, i) ==
             \E t \in DOMAIN tables'[space] \ DOMAIN tables[space] :
               u = <<"table", space, t>> /\ t[1] \in 1 .. 3 /\ t = table(page, t[1]) /\ i = own + found - t[1]
           NewPage(u, i) == own = 1 /\ u = <<"page", page>> /\ i = 1
<1>3. ASSUME NEW u \in Users'
      PROVE  \/ u \in Users /\ frame_of(u)' = frame_of(u)
             \/ \E i \in own + 1 .. n : NewTable(u, i) /\ frame_of(u)' = supply[i]
             \/ NewPage(u, 1) /\ frame_of(u)' = supply[1] /\ 1 \in 1 .. n
  <2>1. \/ \E s \in Spaces : \E t \in DOMAIN tables'[s] : u = <<"table", s, t>>
        \/ \E p \in own_pages' \cap DOMAIN mapped'["kernel"] : u = <<"page", p>>
        \/ u = <<"gdt">> /\ gdtr' # NoAddress
        \/ u = <<"code">> /\ ~KernelEntered'
    BY UserCasesNext DEF UserFacts
  <2>2. CASE \E s \in Spaces : \E t \in DOMAIN tables'[s] : u = <<"table", s, t>>
    <3>1. PICK s \in Spaces : \E t \in DOMAIN tables'[s] : u = <<"table", s, t>>
      BY <2>2
    <3>5. PICK t \in DOMAIN tables'[s] : u = <<"table", s, t>>
      BY <3>1
    <3>2. frame_of(u)' = tables'[s][t] /\ frame_of(u) = tables[s][t]
      BY <3>5, FrameCases
    <3>3. CASE t \in DOMAIN tables[s]
      <4>1. u \in Users
        BY <3>5, <3>3, UserCases DEF UserFacts
      <4>2. tables'[s][t] = tables[s][t]
        BY <1>1, <3>3
      <4> QED
        BY <3>2, <4>1, <4>2
    <3>4. CASE t \notin DOMAIN tables[s]
      <4>1. s = space
        BY <1>1, <3>4
      <4>2. t[1] \in last .. found - 1 /\ t = table(page, t[1]) /\ tables'[space][t] = supply[own + found - t[1]]
        BY <1>1, <3>4, <4>1
      <4> DEFINE i == own + found - t[1]
                 l == t[1]
      <4>3. l \in 1 .. 3 /\ i \in own + 1 .. n
        <5>1. l \in last .. found - 1 /\ i = own + found - l
          BY <4>2
        <5>2. last \in {1, 2} /\ found \in last .. 4 /\ n = own + found - last
          BY <1>1
        <5> HIDE DEF i, l, last, n
        <5> QED
          BY <5>1, <5>2
      <4>4. NewTable(u, i)
        BY <3>5, <3>4, <4>1, <4>2, <4>3
      <4>5. frame_of(u)' = supply[i]
        BY <3>2, <4>1, <4>2
      <4> HIDE DEF NewTable, i
      <4> QED
        BY <4>3, <4>4, <4>5
    <3> QED
      BY <3>3, <3>4
  <2>3. CASE \E p \in own_pages' \cap DOMAIN mapped'["kernel"] : u = <<"page", p>>
    <3>1. PICK p \in own_pages' \cap DOMAIN mapped'["kernel"] : u = <<"page", p>>
      BY <2>3
    <3>2. frame_of(u)' = mapped'["kernel"][p] /\ frame_of(u) = mapped["kernel"][p]
      BY <3>1, FrameCases
    <3>3. CASE p \in own_pages \cap DOMAIN mapped["kernel"]
      <4>1. u \in Users
        BY <3>1, <3>3, UserCases DEF UserFacts
      <4>2. mapped'["kernel"][p] = mapped["kernel"][p]
        BY <1>1, <3>3 DEF Spaces
      <4> QED
        BY <3>2, <4>1, <4>2
    <3>4. CASE own = 1 /\ p = page
      <4>1. space = "kernel" /\ page \in page .. page + pages - 1 /\ frame = supply[1]
        BY <3>4
      <4>2. mapped'["kernel"][page] = frame + (page - page)
        BY <1>1, <4>1
      <4>3. frame + (page - page) = frame
        OBVIOUS
      <4>4. 1 \in 1 .. n
        BY <1>1, <3>4
      <4> QED
        BY <3>1, <3>2, <3>4, <4>1, <4>2, <4>3, <4>4
    <3> QED
      BY <3>3, <3>4
  <2>4. CASE u = <<"gdt">> /\ gdtr' # NoAddress
    BY <2>4, UserCases, FrameCases DEF UserFacts
  <2>5. CASE u = <<"code">> /\ ~KernelEntered'
    BY <2>5, UserCases, FrameCases DEF UserFacts
  <2> QED
    BY <2>1, <2>2, <2>3, <2>4, <2>5
<1>4. \A u, v, i : NewTable(u, i) /\ NewTable(v, i) => u = v
  <2> SUFFICES ASSUME NEW u, NEW v, NEW i,
                      NEW t \in DOMAIN tables'[space] \ DOMAIN tables[space],
                      NEW r \in DOMAIN tables'[space] \ DOMAIN tables[space],
                      u = <<"table", space, t>>, t[1] \in 1 .. 3, t = table(page, t[1]), i = own + found - t[1],
                      v = <<"table", space, r>>, r[1] \in 1 .. 3, r = table(page, r[1]), i = own + found - r[1]
               PROVE  u = v
    BY Zenon
  <2> DEFINE a == t[1]
             b == r[1]
  <2>1. a \in Int /\ b \in Int /\ own + found - a = own + found - b
    OBVIOUS
  <2>3. own \in Int /\ found \in Int
    BY <1>1
  <2> HIDE DEF a, b
  <2>2. a = b
    BY <2>1, <2>3
  <2> QED
    BY <2>2 DEF a, b
<1>5. \A u, v : NewPage(u, 1) /\ NewPage(v, 1) => u = v
  OBVIOUS
<1>6. ASSUME NEW u \in Users', NEW v \in Users', u \notin Users, v \notin Users, frame_of(u)' = frame_of(v)'
      PROVE  u = v
  <2>1. \A i, j \in 1 .. n : supply[i] = supply[j] => i = j
    <3>1. \A i \in 1 .. Len(supply) : \A j \in 1 .. i - 1 : supply[i] # supply[j]
      BY DEF SupplyInv
    <3> HIDE DEF n
    <3> SUFFICES ASSUME NEW i \in 1 .. n, NEW j \in 1 .. n, supply[i] = supply[j] PROVE i = j
      OBVIOUS
    <3>2. i \in 1 .. Len(supply) /\ j \in 1 .. Len(supply)
      BY <1>2
    <3>3. ~(j < i) /\ ~(i < j)
      BY <3>1, <3>2
    <3> QED
      BY <3>2, <3>3
  <2>2. \/ \E i \in own + 1 .. n : NewTable(u, i) /\ frame_of(u)' = supply[i]
        \/ NewPage(u, 1) /\ frame_of(u)' = supply[1] /\ 1 \in 1 .. n
    BY <1>3, <1>6
  <2>3. \/ \E i \in own + 1 .. n : NewTable(v, i) /\ frame_of(v)' = supply[i]
        \/ NewPage(v, 1) /\ frame_of(v)' = supply[1] /\ 1 \in 1 .. n
    BY <1>3, <1>6
  <2>4. \A i \in own + 1 .. n : i \in 1 .. n /\ (own = 1 => i # 1)
    BY <1>1
  <2>5. (\E x : NewPage(x, 1)) => own = 1
    OBVIOUS
  <2> HIDE DEF NewTable, NewPage, n
  <2> QED
    BY <1>4, <1>5, <1>6, <2>1, <2>2, <2>3, <2>4, <2>5
<1>7. \A u \in Users' : IF u \in Users THEN frame_of(u)' = frame_of(u)
                        ELSE \E i \in 1 .. n : frame_of(u)' = supply[i]
  <2> SUFFICES ASSUME NEW u \in Users'
               PROVE  IF u \in Users THEN frame_of(u)' = frame_of(u)
                      ELSE \E i \in 1 .. n : frame_of(u)' = supply[i]
    OBVIOUS
  <2>1. ASSUME NEW i, NewTable(u, i) PROVE u \notin Users
    <3>1. PICK t \in DOMAIN tables'[space] \ DOMAIN tables[space] : u = <<"table", space, t>>
      BY <2>1
    <3>2. ~(\E s \in Spaces : \E r \in DOMAIN tables[s] : u = <<"table", s, r>>)
      BY <3>1
    <3> QED
      BY <3>1, <3>2, UserCases DEF UserFacts
  <2>2. ASSUME NewPage(u, 1) PROVE u \notin Users
    <3>1. page \notin DOMAIN mapped["kernel"] /\ u = <<"page", page>>
      <4>1. own = 1 /\ u = <<"page", page>> /\ page \in page .. page + pages - 1 /\ space = "kernel"
        BY <2>2
      <4> QED
        BY <4>1 DEF MapsTo
    <3> QED
      BY <3>1, UserCases DEF UserFacts
  <2>3. \A i \in own + 1 .. n : i \in 1 .. n
    BY <1>1
  <2> HIDE DEF NewTable, NewPage, n
  <2> QED
    BY <1>3, <2>1, <2>2, <2>3
<1> HIDE DEF n
<1> QED
  BY <1>1, <1>2, <1>6, <1>7, UsersGranted
-----------------------------------------------------------------------------
(***************************************************************************)
(* An iteration of a mapping loop.                                         *)
(***************************************************************************)
LEMMA RankFacts ==
  /\ \A p \in Steps : Rank(p) \in 1 .. 23
  /\ \A p, q \in MapSteps : Rank(p) = Rank(q) => p = q
  /\ MapSteps \subseteq Steps /\ ShownSteps \subseteq MapSteps
<1>1. \A p \in Steps : Rank(p) \in 1 .. 23
  BY DEF Steps, Rank
<1>2. \A p, q \in MapSteps : Rank(p) = Rank(q) => p = q
  BY DEF MapSteps, Rank
<1> QED
  BY <1>1, <1>2 DEF MapSteps, Steps, ShownSteps

NextOf(s) ==
  CASE s = "map_stack"           -> "identity_map"
    [] s = "identity_map"        -> "gdt"
    [] s = "map_gdt"             -> "framebuffer"
    [] s = "map_framebuffer"     -> "ramdisk"
    [] s = "map_ramdisk"         -> "physical_memory"
    [] s = "map_physical_memory" -> "boot_info"
    [] s = "init_heap"           -> "running"

LEMMA NextFacts ==
  ASSUME NEW s \in MapSteps \ {"map_boot_info"}
  PROVE  /\ NextOf(s) \in Steps /\ Rank(NextOf(s)) = Rank(s) + 1
         /\ NextOf(s) \in MapSteps => s = "map_stack" /\ NextOf(s) = "identity_map"
         /\ NextOf(s) # "map_boot_info_again" /\ s # "map_boot_info_again"
         /\ NextOf(s) # "map_boot_info"
         /\ NextOf(s) \in {"init_heap", "running"} <=> s \in {"init_heap", "running"}
         /\ NextOf(s) \in {"kernel_main", "init_heap", "running"} <=> s \in {"kernel_main", "init_heap", "running"}
         /\ Rank(s) > Rank("map_kernel")
         /\ \A t \in Things : Rank(s) > Rank(t) <=> Rank(NextOf(s)) > Rank(t)
         /\ Rank(s) > Rank("gdt") <=> Rank(NextOf(s)) > Rank("gdt")
         /\ Rank(s) > Rank("map_boot_info_again") <=> Rank(NextOf(s)) > Rank("map_boot_info_again")
         /\ Rank(s) > Rank("write_boot_info") <=> Rank(NextOf(s)) > Rank("write_boot_info")
<1> USE DEF MapSteps, NextOf, Steps, Rank, Things
<1>1. CASE s = "map_stack"
  BY <1>1
<1>2. CASE s = "identity_map"
  BY <1>2
<1>3. CASE s = "map_gdt"
  BY <1>3
<1>4. CASE s = "map_framebuffer"
  BY <1>4
<1>5. CASE s = "map_ramdisk"
  BY <1>5
<1>6. CASE s = "map_physical_memory"
  BY <1>6
<1>7. CASE s = "init_heap"
  BY <1>7
<1> QED
  BY <1>1, <1>2, <1>3, <1>4, <1>5, <1>6, <1>7

LEMMA EndDone ==
  ASSUME RefInv, AtInv, LoopInv, NEW s \in MapSteps \ {"map_boot_info"}, pc = s, failure' = None,
         EndIteration(Count(s), NextOf(s))
  PROVE  /\ Done(s)' = Done(s) + 1 /\ \A r \in MapSteps : r # s => Done(r)' = Done(r)
         /\ LoopInv' /\ pc' \in {s, NextOf(s)} /\ Done(s) = loop
         /\ UNCHANGED <<machine, entry_state, at, gdtr, boot_info>>
<1> DEFINE next == NextOf(s)
<1>1. UNCHANGED <<machine, entry_state, at, gdtr, boot_info>>
  BY DEF EndIteration
<1>2. \A r \in MapSteps : Count(r)' = Count(r)
  BY <1>1, Same
<1>3. Done(s) = loop /\ loop \in Nat /\ loop < Count(s) /\ Count(s) \in Nat
  <2>1. Ready(s) /\ Done(s) = loop /\ loop < Count(s)
    BY DoneBound
  <2> QED
    BY <2>1, Areas DEF AreaOK, LoopInv
<1>4. IF loop + 1 < Count(s) THEN loop' = loop + 1 /\ pc' = pc ELSE pc' = next /\ loop' = 0
  BY DEF EndIteration, Goto
<1>5. /\ next \in Steps /\ s \in Steps /\ Rank(next) = Rank(s) + 1 /\ MapSteps \subseteq Steps
      /\ \A p \in Steps : Rank(p) \in Int
      /\ next \in MapSteps => s = "map_stack" /\ next = "identity_map"
      /\ next # "map_boot_info_again" /\ s # "map_boot_info_again"
  BY NextFacts, RankFacts
<1> HIDE DEF next
<1>6. CASE loop + 1 < Count(s)
  <2>1. loop' = loop + 1 /\ pc' = s
    BY <1>4, <1>6
  <2>2. Done(s)' = loop + 1
    BY <2>1 DEF Done
  <2>3. \A r \in MapSteps : r # s => Done(r)' = Done(r)
    BY <1>2, <1>5, <2>1 DEF Done
  <2>4. LoopInv'
    BY <1>2, <1>3, <1>6, <2>1 DEF LoopInv
  <2> QED
    BY <1>1, <1>3, <2>1, <2>2, <2>3, <2>4
<1>7. CASE ~(loop + 1 < Count(s))
  <2>1. pc' = next /\ loop' = 0 /\ Count(s) = loop + 1
    BY <1>3, <1>4, <1>7
  <2>2. next # s
    BY <1>5
  <2>3. Done(s)' = loop + 1
    BY <1>2, <1>5, <2>1, <2>2 DEF Done
  <2>4. ASSUME NEW r \in MapSteps, r # s PROVE Done(r)' = Done(r)
    <3>1. Rank(next) > Rank(r) <=> Rank(s) > Rank(r)
      <4>1. Rank(r) # Rank(s) /\ Rank(r) \in Int /\ Rank(s) \in Int
        BY <1>5, <2>4, RankFacts
      <4> QED
        BY <1>5, <4>1
    <3>2. Rank(s) > Rank(r) => r # next
      <4>1. Rank(s) \in Int
        BY <1>5
      <4> QED
        BY <1>5, <4>1
    <3>3. CASE r = next
      BY <1>2, <1>5, <2>1, <2>4, <3>2, <3>3 DEF Done
    <3>4. CASE r # next
      BY <1>2, <1>5, <2>1, <2>4, <3>1, <3>4 DEF Done
    <3> QED
      BY <3>3, <3>4
  <2>5. LoopInv'
    <3>1. next \in MapSteps => Count(next)' = 2
      BY <1>2, <1>5 DEF Count
    <3> QED
      BY <1>5, <2>1, <3>1 DEF LoopInv
  <2> QED
    BY <1>1, <1>3, <2>1, <2>3, <2>4, <2>5 DEF next
<1> QED
  BY <1>6, <1>7

(***************************************************************************)
(* The pages with a frame of their own.                                    *)
(***************************************************************************)
StillPages ==
  {p \in kernel_pages : p - containing(at["kernel"]) \in Kernel.own}
    \cup PlacedPages("stack", stack_start, STACK_SIZE)
    \cup PlacedPages("boot_info", at["boot_info"], boot_info_size)

OwnSplit == own_pages = StillPages \cup Pages("init_heap")

LEMMA OwnPages == RefInv /\ LoopInv => OwnSplit
<1> SUFFICES ASSUME RefInv, LoopInv PROVE OwnSplit
  OBVIOUS
<1> DEFINE H == IF pc = "running" THEN pages_of(HEAP_START, HEAP_SIZE)
                ELSE IF pc = "init_heap" THEN {containing(HEAP_START) + i : i \in 0 .. loop - 1}
                ELSE {}
           f == containing(HEAP_START)
<1>1. own_pages = StillPages \cup H
  BY DEF own_pages, StillPages
<1>2. f \in Nat /\ loop \in Nat /\ First("init_heap") = f /\ Width("init_heap") = 1
  BY PagingAssumption, PageOfAddress DEF LoopInv, First, Width
<1> HIDE DEF f
<1>3. Pages("init_heap") = f .. f + 1 * Done("init_heap") - 1
  BY <1>2 DEF Pages
<1>4. CASE pc = "running"
  <2>1. Done("init_heap") = Count("init_heap") /\ Count("init_heap") \in Nat
    BY <1>4, HeapArea DEF Done, Rank, AreaOK
  <2>2. f .. f + 1 * Count("init_heap") - 1 = f .. f + Count("init_heap") - 1
    BY <1>2, <2>1
  <2>3. Pages("init_heap") = pages_of(HEAP_START, HEAP_SIZE)
    BY <1>2, <1>3, <2>1, <2>2, HeapArea
  <2> QED
    BY <1>1, <1>4, <2>3 DEF OwnSplit
<1>5. CASE pc = "init_heap"
  <2>1. Done("init_heap") = loop
    BY <1>5 DEF Done
  <2>2. f .. f + 1 * loop - 1 = {f + i : i \in 0 .. loop - 1}
    <3>1. \A x \in f .. f + 1 * loop - 1 : x - f \in 0 .. loop - 1 /\ x = f + (x - f)
      BY <1>2
    <3>2. \A i \in 0 .. loop - 1 : f + i \in f .. f + 1 * loop - 1
      BY <1>2
    <3> QED
      BY <3>1, <3>2
  <2>3. H = {f + i : i \in 0 .. loop - 1}
    BY <1>5 DEF f
  <2> QED
    BY <1>1, <1>3, <2>1, <2>2, <2>3 DEF OwnSplit
<1>6. CASE pc # "running" /\ pc # "init_heap"
  <2>1. ~(Rank(pc) > Rank("init_heap"))
    BY <1>6 DEF RefInv, Steps, Rank
  <2>2. Done("init_heap") = 0
    BY <1>6, <2>1 DEF Done
  <2>3. f .. f + 1 * 0 - 1 = {}
    BY <1>2
  <2>4. H = {}
    BY <1>6
  <2> QED
    BY <1>1, <1>3, <2>2, <2>3, <2>4 DEF OwnSplit
<1> QED
  BY <1>4, <1>5, <1>6

LEMMA OwnPagesNext == RefInv' /\ LoopInv' => OwnSplit'
BY OwnPages, PTL

\* All pages of the stack and of BootInfo, as the loops count them.
LEMMA AreaPages ==
  ASSUME RefInv, AtInv
  PROVE  /\ pages_of(stack_start, STACK_SIZE) =
              First("map_stack") .. First("map_stack") + Width("map_stack") * Count("map_stack") - 1
         /\ pages_of(at["boot_info"], boot_info_size) =
              First("map_boot_info") .. First("map_boot_info") + Width("map_boot_info") * Count("map_boot_info") - 1
<1>1. \A a \in Int : containing(a) \in Int
  <2> DEFINE d == PAGE_SIZE
  <2>1. d \in Nat \ {0}
    BY Paging
  <2>2. \A a \in Int, b \in Nat \ {0} : a \div b \in Int
    OBVIOUS
  <2> QED
    BY <2>1, <2>2 DEF containing
<1>2. at["stack"] \in Int /\ at["boot_info"] \in Int
  BY DEF RefInv, NoAddress, Things
<1>3. stack_start \in Int /\ stack_top - 1 = stack_start + STACK_SIZE - 1 /\ stack_top - 1 \in Int
  BY <1>2, PagingAssumption DEF stack_start, stack_top
<1>4. boot_info_size \in Int
  BY SizeFacts
<1> DEFINE a == containing(stack_start)
           b == containing(stack_top - 1)
           c == containing(at["boot_info"])
           d == containing(at["boot_info"] + boot_info_size - 1)
<1>5. a \in Int /\ b \in Int /\ c \in Int /\ d \in Int
  BY <1>1, <1>2, <1>3, <1>4
<1>6. pages_of(stack_start, STACK_SIZE) = a .. b /\ pages_of(at["boot_info"], boot_info_size) = c .. d
  BY <1>3 DEF pages_of
<1>7. /\ First("map_stack") = a /\ Count("map_stack") = b - a + 1 /\ Width("map_stack") = 1
      /\ First("map_boot_info") = c /\ Count("map_boot_info") = d - c + 1 /\ Width("map_boot_info") = 1
  BY DEF First, Count, Width
<1> HIDE DEF a, b, c, d
<1>8. a + 1 * (b - a + 1) - 1 = b /\ c + 1 * (d - c + 1) - 1 = d
  BY <1>5
<1> QED
  BY <1>6, <1>7, <1>8

\* What is mapped to given frames lies apart from the pages with a frame of their own.
LEMMA ShownApart ==
  ASSUME RefInv, LayoutInv, AtInv, LoopInv, NEW s \in ShownSteps, pc = s,
         NEW p \in Nat, p \div EntryPages \in Home(s)
  PROVE  p \notin own_pages
<1>1. /\ Rank(pc) > Rank("kernel") /\ Rank(pc) >= Rank("map_stack") /\ ~(Rank(pc) > Rank("boot_info"))
      /\ ~(Rank(pc) > Rank("init_heap")) /\ pc # "init_heap"
  <2>1. \A r \in ShownSteps : Rank(r) \in 7 .. 15 /\ r # "init_heap"
    BY DEF ShownSteps, Rank
  <2>2. Rank("kernel") = 3 /\ Rank("map_stack") = 6 /\ Rank("boot_info") = 16 /\ Rank("init_heap") = 22
    BY DEF Rank
  <2> QED
    BY <2>1, <2>2
<1>2. s \in MapSteps \ {"init_heap"} /\ s # "map_stack" /\ "map_stack" \in MapSteps \ {"init_heap"}
  BY DEF ShownSteps, MapSteps
<1>3. p \notin kernel_pages
  BY <1>1, <1>2, KernelArea, HomesDisjoint
<1>4. p \notin PlacedPages("stack", stack_start, STACK_SIZE)
  <2>1. AreaOK("map_stack")
    BY <1>1, StackArea DEF Ready
  <2>2. \A q \in pages_of(stack_start, STACK_SIZE) : q \div EntryPages \in Home("map_stack")
    BY <2>1, AreaPages DEF AreaOK
  <2>3. Home(s) \cap Home("map_stack") = {}
    BY <1>2, HomesDisjoint
  <2> QED
    BY <2>2, <2>3 DEF PlacedPages
<1>5. PlacedPages("boot_info", at["boot_info"], boot_info_size) = {}
  BY <1>1 DEF PlacedPages, AtInv, Things
<1>6. Pages("init_heap") = {}
  <2>1. Done("init_heap") = 0
    BY <1>1 DEF Done
  <2>2. First("init_heap") \in Nat /\ Width("init_heap") = 1
    BY HeapArea DEF AreaOK, Width
  <2> QED
    BY <2>1, <2>2 DEF Pages
<1> QED
  BY <1>3, <1>4, <1>5, <1>6, OwnPages DEF OwnSplit, StillPages

\* The loader's view of BootInfo stays as it is while other pages are mapped for the kernel.
LEMMA BootInvKept ==
  ASSUME RefInv, AtInv, LoopInv, DomInv, BootInv, UNCHANGED <<machine, at, gdtr, boot_info>>,
         mapped'["bootloader"] = mapped["bootloader"], LoaderDone' = LoaderDone,
         \A p \in DOMAIN mapped["kernel"] : mapped'["kernel"][p] = mapped["kernel"][p],
         Rank(pc) > Rank("write_boot_info") <=> Rank(pc') > Rank("write_boot_info")
  PROVE  BootInv'
<1>1. DOMAIN mapped["bootloader"] \subseteq DOMAIN mapped["kernel"]
  <2> DEFINE f == First("map_boot_info")
             d == Done("map_boot_info")
             e == LoaderDone
  <2>1. "map_boot_info" \in MapSteps
    BY DEF MapSteps
  <2>2. f \in Int /\ Width("map_boot_info") = 1 /\ d \in Nat /\ Pages("map_boot_info") = f .. f + 1 * d - 1
    BY <2>1, FirstInt, DoneBound DEF Width, Pages
  <2>3. e \in Int /\ e <= d
    <3>1. loop \in Nat
      BY DEF LoopInv
    <3>2. CASE pc = "map_boot_info"
      BY <3>1, <3>2 DEF LoaderDone, Done
    <3>3. CASE pc = "map_boot_info_again"
      BY <3>1, <3>3 DEF LoaderDone, Done
    <3>4. CASE pc \notin {"map_boot_info", "map_boot_info_again"}
      <4>1. Rank(pc) > Rank("map_boot_info_again") <=> Rank(pc) > Rank("map_boot_info")
        BY <3>4 DEF RefInv, Steps, Rank
      <4>2. e = d
        BY <3>4, <4>1 DEF LoaderDone, Done
      <4> QED
        BY <2>2, <4>2
    <3> QED
      BY <3>2, <3>3, <3>4
  <2>4. DOMAIN mapped["bootloader"] = f .. f + e - 1
    BY DEF BootInv
  <2>5. Pages("map_boot_info") \subseteq DOMAIN mapped["kernel"]
    BY <2>1 DEF DomInv
  <2> HIDE DEF f, d, e
  <2>6. f .. f + e - 1 \subseteq f .. f + 1 * d - 1
    BY <2>2, <2>3
  <2> QED
    BY <2>2, <2>4, <2>5, <2>6
<1>2. First("map_boot_info")' = First("map_boot_info")
  BY Same
<1>3. \A p \in DOMAIN mapped'["bootloader"] : mapped'["bootloader"][p] = mapped'["kernel"][p]
  BY <1>1 DEF BootInv
<1>4. DOMAIN mapped'["bootloader"] = First("map_boot_info")' .. First("map_boot_info")' + LoaderDone' - 1
  BY <1>2 DEF BootInv
<1>5. Ramdisk' = Ramdisk
  BY DEF Ramdisk
<1> QED
  BY <1>3, <1>4, <1>5 DEF BootInv

LEMMA AtInvKept ==
  ASSUME AtInv, UNCHANGED <<machine, at, gdtr>>,
         \A t \in Things : Rank(pc) > Rank(t) <=> Rank(pc') > Rank(t),
         Rank(pc) > Rank("gdt") <=> Rank(pc') > Rank("gdt"),
         Rank(pc) > Rank("bootloader_table")
  PROVE  AtInv'
BY DEF AtInv, Present, Kernel, Framebuffer, Ramdisk

\* A mapping that a loop makes for the kernel.
LEMMA IterationGrows ==
  ASSUME RefInv, RefInv', LayoutInv, MInv, NEW s \in MapSteps, pc = s, failure' = None,
         NEW frame \in Nat, NEW own \in {0, 1}, NEW writes,
         map_to("kernel", First(s) + Width(s) * loop, Width(s), frame, own, writes),
         UNCHANGED <<machine, at, gdtr>>, LoopInv',
         Done(s)' = Done(s) + 1, \A r \in MapSteps : r # s => Done(r)' = Done(r),
         Rank(pc) > Rank("map_kernel"), Rank(pc') > Rank("map_kernel"),
         InNukleus' <=> InNukleus, KernelEntered' <=> KernelEntered,
         own = 1 <=> s \in {"map_stack", "map_boot_info", "init_heap"}, own = 1 => frame = Head(supply),
         s \in ShownSteps => frame = FirstFrame(s) + Width(s) * loop
  PROVE  /\ DomInv' /\ ShowInv' /\ TableInv' /\ SupplyInv' /\ UsersInv'
         /\ mapped'["bootloader"] = mapped["bootloader"]
         /\ \A p \in DOMAIN mapped["kernel"] : mapped'["kernel"][p] = mapped["kernel"][p]
<1> DEFINE w == Width(s)
           page == First(s) + w * Done(s)
<1> USE DEF MInv
<1>1. Done(s) = loop
  BY DoneBound
<1>2. Ready(s) /\ AreaOK(s) /\ loop \in Nat /\ loop < Count(s) /\ w \in Nat \ {0}
  BY DoneBound, Areas, FirstInt DEF LoopInv
<1>3. page \in Nat /\ \A p \in page .. page + w - 1 : p \in Nat /\ p \div EntryPages \in Home(s)
  <2> DEFINE f == First(s)
             c == Count(s)
             x == w * loop
  <2>1. f \in Nat /\ c \in Nat /\ \A p \in f .. f + w * c - 1 : p \in Nat /\ p \div EntryPages \in Home(s)
    BY <1>2 DEF AreaOK
  <2>2. page = f + x
    BY <1>1
  <2>3. x \in Nat /\ w * c \in Nat /\ x + w <= w * c
    <3> HIDE DEF w, c
    <3>1. c > loop /\ w * c >= w * loop + w
      BY <1>2, <2>1, TimesOrdered DEF c
    <3>2. x \in Nat /\ w * c \in Nat
      BY <1>2, <2>1
    <3> QED
      BY <1>2, <3>1, <3>2
  <2> HIDE DEF page, x, f, w, c
  <2> QED
    BY <1>2, <2>1, <2>2, <2>3
<1>4. <<4, 0>> \in DOMAIN tables["kernel"] /\ Rank(pc) > Rank("kernel_table") /\ Rank(pc) > Rank("map_kernel")
      /\ Rank(pc) > Rank("bootloader_table") /\ Rank(pc') > Rank("kernel_table") /\ Rank(pc') > Rank("map_kernel")
  <2>1. Rank(pc) > Rank("map_kernel") /\ Rank(pc) \in Int /\ Rank(pc') \in Int
    BY RankFacts DEF RefInv
  <2>2. Rank("map_kernel") = 4 /\ Rank("kernel_table") = 2 /\ Rank("bootloader_table") = 1
    BY DEF Rank
  <2>3. Rank(pc) > Rank("kernel_table") /\ Rank(pc') > Rank("map_kernel") /\ Rank(pc') > Rank("kernel_table")
        /\ Rank(pc) > Rank("bootloader_table")
    BY <2>1, <2>2
  <2> QED
    BY <2>1, <2>3 DEF TableInv
<1>5. PICK found \in 1 .. 4 : MapsTo("kernel", page, w, frame, own, found)
  <2>1. "kernel" \in Spaces /\ DOMAIN mapped = Spaces /\ DOMAIN tables = Spaces /\ supply \in Seq(frames_of(Memory))
    BY DEF Spaces, DomInv, TableInv, SupplyInv
  <2>2. map_to("kernel", page, w, frame, own, writes)
    BY <1>1
  <2>3. w \in Nat
    BY <1>2
  <2> HIDE DEF page, w
  <2> QED
    BY <1>3, <1>4, <2>1, <2>2, <2>3, MapSucceeds
<1>6. DomInv' /\ ShowInv'
  <2>1. s \in MapSteps /\ s \in ShownSteps => frame = FirstFrame(s) + Width(s) * Done(s)
    BY <1>1
  <2> QED
    BY <1>1, <1>2, <1>4, <1>5, <2>1, KernelGrows
<1>10. TableInv'
  <2>1. ASSUME w = 1, ~InNukleus PROVE page \div EntryPages \in PageEntries
    <3>1. page \div EntryPages \in Home(s)
      BY <1>3, <2>1
    <3>2. s # "map_physical_memory"
      BY <2>1, PagingAssumption DEF Width
    <3>3. s # "init_heap"
      BY <2>1 DEF InNukleus
    <3>4. Home(s) \subseteq PageEntries
      BY <3>2, <3>3 DEF Home, PageEntries, MapSteps, Things
    <3> QED
      BY <3>1, <3>4
  <2>2. "kernel" \in Spaces /\ w \in Nat
    BY <1>2 DEF Spaces
  <2> HIDE DEF w, page
  <2> QED
    BY <1>1, <1>3, <1>4, <1>5, <2>1, <2>2, TablesGrow
<1>11. SupplyInv' /\ UsersInv'
  <2>1. "kernel" \in Spaces /\ w \in Nat
    BY <1>2 DEF Spaces
  <2>2. own = 1 => w = 1 /\ frame = supply[1]
    <3>1. own = 1 => w = 1
      BY DEF Width
    <3>2. Head(supply) = supply[1]
      BY DEF Head
    <3> QED
      BY <3>1, <3>2
  <2>3. ASSUME NEW p \in own_pages' \cap DOMAIN mapped'["kernel"]
        PROVE  p \in own_pages \cap DOMAIN mapped["kernel"] \/ (own = 1 /\ p = page)
    <3>1. p \in DOMAIN mapped["kernel"] \/ p \in page .. page + w - 1
      BY <1>5 DEF MapsTo
    <3>2. own_pages' = StillPages' \cup Pages("init_heap")' /\ own_pages = StillPages \cup Pages("init_heap")
      BY <1>1, OwnPages, OwnPagesNext DEF OwnSplit
    <3>3. StillPages' = StillPages
      BY <1>1, Same DEF StillPages, PlacedPages
    <3>4. CASE own = 1
      <4>1. w = 1 /\ page .. page + w - 1 = {page}
        BY <1>3, <2>2, <3>4
      <4>2. p \in DOMAIN mapped["kernel"] \/ p = page
        BY <3>1, <4>1
      <4>3. Pages("init_heap")' \subseteq Pages("init_heap") \cup {page}
        <5>1. CASE s # "init_heap"
          BY <1>1, <5>1, Same DEF Pages, MapSteps
        <5>2. CASE s = "init_heap"
          <6> DEFINE f == First("init_heap")
          <6>1. /\ Pages("init_heap")' = f .. f + 1 * (loop + 1) - 1 /\ Pages("init_heap") = f .. f + 1 * loop - 1
                /\ f \in Nat /\ page = f + 1 * loop
            BY <1>1, <1>2, <4>1, <5>2, Same DEF Pages, Width, AreaOK
          <6> HIDE DEF f, page
          <6>2. \A q \in f .. f + 1 * (loop + 1) - 1 : q \in f .. f + 1 * loop - 1 \/ q = f + 1 * loop
            BY <1>2, <6>1
          <6> QED
            BY <6>1, <6>2
        <5> QED
          BY <5>1, <5>2
      <4> QED
        BY <3>2, <3>3, <3>4, <4>2, <4>3
    <3>5. CASE own = 0
      <4>1. s \in ShownSteps
        BY <3>5 DEF MapSteps, ShownSteps
      <4>2. Pages("init_heap")' = Pages("init_heap")
        BY <1>1, <4>1, Same DEF Pages, MapSteps, ShownSteps
      <4>3. p \in own_pages
        BY <3>2, <3>3, <4>2
      <4>4. p \notin page .. page + w - 1
        BY <1>3, <4>1, <4>3, ShownApart
      <4> QED
        BY <3>1, <4>3, <4>4
    <3> QED
      BY <3>4, <3>5
  <2> HIDE DEF w, page
  <2> QED
    BY <1>1, <1>3, <1>5, <2>1, <2>2, <2>3, UsersMap
<1>12. /\ mapped'["bootloader"] = mapped["bootloader"]
       /\ \A p \in DOMAIN mapped["kernel"] : mapped'["kernel"][p] = mapped["kernel"][p]
  BY <1>5 DEF MapsTo, Spaces
<1> QED
  BY <1>6, <1>10, <1>11, <1>12

\* A mapping in a loop over what was placed, the identity mappings, or the heap.
LEMMA LoopPreserves ==
  ASSUME RefInv, RefInv', LayoutInv, MInv, NEW s \in MapSteps \ {"map_boot_info"}, pc = s, failure' = None,
         NEW frame \in Nat, NEW own \in {0, 1}, NEW writes,
         map_to("kernel", First(s) + Width(s) * loop, Width(s), frame, own, writes),
         EndIteration(Count(s), NextOf(s)),
         own = 1 <=> s \in {"map_stack", "init_heap"}, own = 1 => frame = Head(supply),
         s \in ShownSteps => frame = FirstFrame(s) + Width(s) * loop
  PROVE  MInv'
<1> USE DEF MInv
<1>1. /\ Done(s)' = Done(s) + 1 /\ \A r \in MapSteps : r # s => Done(r)' = Done(r)
      /\ LoopInv' /\ pc' \in {s, NextOf(s)} /\ Done(s) = loop
      /\ UNCHANGED <<machine, entry_state, at, gdtr, boot_info>>
  BY EndDone
<1>2. Rank(pc) > Rank("map_kernel") /\ Rank(pc') > Rank("map_kernel") /\ Rank(pc) > Rank("bootloader_table")
  <2>1. Rank(pc) > Rank("map_kernel") /\ Rank(pc) \in Int /\ Rank(pc') \in Int /\ Rank(pc') >= Rank(pc)
    BY <1>1, NextFacts, RankFacts DEF RefInv
  <2>2. Rank("map_kernel") = 4 /\ Rank("bootloader_table") = 1
    BY DEF Rank
  <2> QED
    BY <2>1, <2>2
<1>3. (InNukleus' <=> InNukleus) /\ (KernelEntered' <=> KernelEntered)
  BY <1>1, NextFacts DEF InNukleus, KernelEntered
<1>4. /\ DomInv' /\ ShowInv' /\ TableInv' /\ SupplyInv' /\ UsersInv'
      /\ mapped'["bootloader"] = mapped["bootloader"]
      /\ \A p \in DOMAIN mapped["kernel"] : mapped'["kernel"][p] = mapped["kernel"][p]
  BY <1>1, <1>2, <1>3, IterationGrows
<1>5. AtInv'
  BY <1>1, <1>2, NextFacts, AtInvKept
<1>6. BootInv'
  <2>1. LoaderDone' = LoaderDone
    <3>1. Count("map_boot_info")' = Count("map_boot_info")
      BY <1>1, Same
    <3>2. pc \notin {"map_boot_info", "map_boot_info_again"} /\ pc' \notin {"map_boot_info", "map_boot_info_again"}
      BY <1>1, NextFacts
    <3> QED
      BY <1>1, <3>1, <3>2, NextFacts DEF LoaderDone
  <2>2. Rank(pc) > Rank("write_boot_info") <=> Rank(pc') > Rank("write_boot_info")
    BY <1>1, NextFacts
  <2> QED
    BY <1>1, <1>4, <2>1, <2>2, BootInvKept
<1> QED
  BY <1>1, <1>4, <1>5, <1>6

\* A step that fails changes nothing.
LEMMA Kept ==
  ASSUME MInv, UNCHANGED <<machine, pc, loop, supply, tables, mapped, at, gdtr, boot_info>>
  PROVE  MInv'
<1>1. /\ \A s : First(s)' = First(s) /\ Count(s)' = Count(s) /\ FirstFrame(s)' = FirstFrame(s)
      /\ PageEntries' = PageEntries /\ kernel_pages' = kernel_pages /\ Memory' = Memory /\ Kernel' = Kernel
      /\ boot_info_size' = boot_info_size /\ stack_start' = stack_start
  BY Same
<1>2. \A s : Done(s)' = Done(s) /\ Pages(s)' = Pages(s)
  BY <1>1 DEF Done, Pages
<1>3. LoopInv'
  BY <1>1 DEF MInv, LoopInv
<1>4. AtInv'
  BY DEF MInv, AtInv, Present, Framebuffer, Ramdisk, Kernel
<1>5. DomInv'
  BY <1>1, <1>2 DEF MInv, DomInv, unmapped_kernel_pages
<1>6. ShowInv'
  BY <1>1, <1>2 DEF MInv, ShowInv
<1>7. BootInv'
  BY <1>1 DEF MInv, BootInv, LoaderDone, Ramdisk
<1>8. InNukleus' = InNukleus /\ KernelEntered' = KernelEntered
  BY DEF InNukleus, KernelEntered
<1>9. TableInv'
  BY <1>1, <1>8 DEF MInv, TableInv
<1>10. SupplyInv'
  BY <1>1, <1>8 DEF MInv, SupplyInv
<1>11. own_pages' = own_pages
  BY <1>1 DEF own_pages, PlacedPages
<1>12. Users' = Users
  BY <1>11 DEF Users
<1>13. \A u : frame_of(u)' = frame_of(u)
  BY DEF frame_of
<1>14. UsersInv'
  BY <1>1, <1>8, <1>12, <1>13 DEF MInv, UsersInv
<1> QED
  BY <1>3, <1>4, <1>5, <1>6, <1>7, <1>9, <1>10, <1>14 DEF MInv

\* The frame that a loop body allocates.
LEMMA OwnFrame ==
  ASSUME RefInv, SupplyInv, NEW space, NEW page, NEW pages, NEW frame, NEW writes,
         map_to(space, page, pages, frame, 1, writes), failure' = None
  PROVE  Len(supply) >= 1 /\ Head(supply) = supply[1] /\ supply[1] \in Nat /\ supply[1] \in frames_of(Memory)
<1>1. map_to_outcome(space, page, pages, 1, writes) = None
  BY DEF map_to
<1>2. ~(Len(supply) < 1)
  BY <1>1, NoneAssumption DEF map_to_outcome, Failures
<1>3. Len(supply) \in Nat /\ supply \in Seq(frames_of(Memory)) /\ frames_of(Memory) \subseteq Nat
  BY MachineFacts DEF SupplyInv, RefInv
<1> QED
  BY <1>2, <1>3

Iteration(s, frame, own) ==
  /\ map_to("kernel", First(s) + Width(s) * loop, Width(s), frame, own, FALSE)
  /\ EndIteration(Count(s), NextOf(s))

LEMMA LoopKeeps ==
  ASSUME RefInv, RefInv', LayoutInv, MInv, NEW s \in MapSteps \ {"map_boot_info"}, pc = s,
         NEW frame, NEW own \in {0, 1}, Iteration(s, frame, own),
         own = 1 <=> s \in {"map_stack", "init_heap"}, own = 1 => frame = Head(supply),
         own = 0 => frame \in Nat,
         s \in ShownSteps => frame = FirstFrame(s) + Width(s) * loop
  PROVE  MInv'
<1>1. CASE failure' # None
  <2>1. UNCHANGED <<tables, mapped, supply>>
    BY <1>1 DEF Iteration, map_to
  <2>2. UNCHANGED <<machine, pc, loop, at, gdtr, boot_info>>
    BY <1>1 DEF Iteration, EndIteration
  <2> QED
    BY <2>1, <2>2, Kept
<1>2. CASE failure' = None
  <2>1. frame \in Nat
    <3>1. CASE own = 1
      BY <1>2, <3>1, OwnFrame DEF MInv, Iteration
    <3> QED
      BY <3>1
  <2> QED
    BY <1>2, <2>1, LoopPreserves DEF Iteration
<1> QED
  BY <1>1, <1>2

\* What the seven loops have in common.
LoopBody(s, frame, own) ==
  /\ s \in MapSteps \ {"map_boot_info"} /\ pc = s /\ own \in {0, 1} /\ Iteration(s, frame, own)
  /\ own = 1 <=> s \in {"map_stack", "init_heap"}
  /\ own = 1 => frame = Head(supply)
  /\ own = 0 => frame \in Nat
  /\ s \in ShownSteps => frame = FirstFrame(s) + Width(s) * loop

LEMMA LoopForm ==
  ASSUME RefInv, MInv,
         \/ MapStackPage \/ IdentityMapCode \/ MapGdt \/ MapFramebufferPage
         \/ MapRamdiskPage \/ MapPhysicalMemoryPage \/ init_heap
  PROVE  \E s, frame, own : LoopBody(s, frame, own)
<1>1. loop \in Nat /\ \A x \in Int : x + 1 * loop = x + loop
  BY DEF MInv, LoopInv
<1>2. AtInv /\ LoopInv
  BY DEF MInv
<1>3. \A s \in MapSteps : First(s) \in Int
  BY <1>2, FirstInt
<1>4. \A s \in MapSteps \ {"map_physical_memory"} : Width(s) = 1 /\ First(s) + Width(s) * loop = First(s) + loop
  BY <1>1, <1>3 DEF Width
<1>5. \A s \in MapSteps : pc = s => Ready(s)
  BY <1>2, DoneBound
<1>6. CASE MapStackPage
  <2>1. pc = "map_stack" /\ "map_stack" \in MapSteps \ {"map_boot_info", "map_physical_memory"} /\ "map_stack" \notin ShownSteps
    BY <1>6 DEF MapStackPage, At, MapSteps, ShownSteps
  <2>2. map_to("kernel", First("map_stack") + Width("map_stack") * loop, Width("map_stack"), Head(supply), 1, FALSE)
    BY <1>4, <1>6, <2>1 DEF MapStackPage, First
  <2>3. EndIteration(Count("map_stack"), NextOf("map_stack"))
    BY <1>6 DEF MapStackPage, Count, NextOf
  <2>8. Iteration("map_stack", Head(supply), 1)
    BY <2>2, <2>3 DEF Iteration
  <2>9. LoopBody("map_stack", Head(supply), 1)
    BY <2>1, <2>8 DEF LoopBody
  <2> QED
    BY <2>9
<1>7. CASE IdentityMapCode
  <2>1. pc = "identity_map" /\ "identity_map" \in MapSteps \ {"map_boot_info", "map_physical_memory"}
    BY <1>7 DEF IdentityMapCode, At, MapSteps
  <2> DEFINE frame == machine.code + loop
  <2>2. map_to("kernel", First("identity_map") + Width("identity_map") * loop, Width("identity_map"), frame, 0, FALSE)
    BY <1>4, <1>7, <2>1 DEF IdentityMapCode, First
  <2>3. EndIteration(Count("identity_map"), NextOf("identity_map"))
    BY <1>7 DEF IdentityMapCode, Count, NextOf
  <2>4. frame \in Nat /\ frame = FirstFrame("identity_map") + Width("identity_map") * loop
    <3>1. machine.code \in Nat /\ FirstFrame("identity_map") = machine.code /\ Width("identity_map") = 1
      BY MachineFacts DEF RefInv, FirstFrame, Width
    <3> QED
      BY <1>1, <3>1
  <2>8. Iteration("identity_map", frame, 0)
    BY <2>2, <2>3 DEF Iteration
  <2> HIDE DEF frame
  <2>9. LoopBody("identity_map", frame, 0)
    BY <2>1, <2>8, <2>4 DEF LoopBody
  <2> QED
    BY <2>9
<1>8. CASE MapGdt
  <2>1. pc = "map_gdt" /\ "map_gdt" \in MapSteps \ {"map_boot_info", "map_physical_memory"}
    BY <1>8 DEF MapGdt, At, MapSteps
  <2>2. loop = 0 /\ gdtr \in Nat
    <3>1. Count("map_gdt") = 1
      BY DEF Count
    <3>2. gdtr \in 0 .. EntryPages - 1
      BY <1>2, <2>1 DEF AtInv, Rank
    <3> QED
      BY <1>1, <1>2, <2>1, <3>1, <3>2 DEF LoopInv
  <2>3. gdtr = First("map_gdt") + Width("map_gdt") * loop /\ gdtr = FirstFrame("map_gdt") + Width("map_gdt") * loop
    BY <2>2 DEF First, FirstFrame, Width
  <2>4. map_to("kernel", First("map_gdt") + Width("map_gdt") * loop, Width("map_gdt"), gdtr, 0, FALSE)
    BY <1>4, <1>8, <2>1, <2>3 DEF MapGdt
  <2>5. EndIteration(Count("map_gdt"), NextOf("map_gdt"))
    BY <1>8 DEF MapGdt, Count, NextOf
  <2>8. Iteration("map_gdt", gdtr, 0)
    BY <2>4, <2>5 DEF Iteration
  <2>9. LoopBody("map_gdt", gdtr, 0)
    BY <2>1, <2>2, <2>3, <2>8 DEF LoopBody
  <2> QED
    BY <2>9
<1>9. CASE MapFramebufferPage
  <2>1. pc = "map_framebuffer" /\ "map_framebuffer" \in MapSteps \ {"map_boot_info", "map_physical_memory"}
    BY <1>9 DEF MapFramebufferPage, At, MapSteps
  <2> DEFINE frame == containing(Framebuffer.addr) + loop
  <2>2. map_to("kernel", First("map_framebuffer") + Width("map_framebuffer") * loop, Width("map_framebuffer"), frame, 0, FALSE)
    BY <1>4, <1>9, <2>1 DEF MapFramebufferPage, First
  <2>3. EndIteration(Count("map_framebuffer"), NextOf("map_framebuffer")) /\ Framebuffer # None
    BY <1>5, <1>9, <2>1 DEF MapFramebufferPage, Count, NextOf, Ready
  <2>4. containing(Framebuffer.addr) \in Nat
    BY <2>3, SizeFacts, PageOfAddress
  <2>5. frame \in Nat /\ frame = FirstFrame("map_framebuffer") + Width("map_framebuffer") * loop
    BY <1>1, <1>4, <2>1, <2>4 DEF FirstFrame
  <2>8. Iteration("map_framebuffer", frame, 0)
    BY <2>2, <2>3 DEF Iteration
  <2> HIDE DEF frame
  <2>9. LoopBody("map_framebuffer", frame, 0)
    BY <2>1, <2>8, <2>5 DEF LoopBody
  <2> QED
    BY <2>9
<1>10. CASE MapRamdiskPage
  <2>1. pc = "map_ramdisk" /\ "map_ramdisk" \in MapSteps \ {"map_boot_info", "map_physical_memory"}
    BY <1>10 DEF MapRamdiskPage, At, MapSteps
  <2> DEFINE frame == containing(Ramdisk.addr) + loop
  <2>2. map_to("kernel", First("map_ramdisk") + Width("map_ramdisk") * loop, Width("map_ramdisk"), frame, 0, FALSE)
    BY <1>4, <1>10, <2>1 DEF MapRamdiskPage, First
  <2>3. EndIteration(Count("map_ramdisk"), NextOf("map_ramdisk")) /\ Ramdisk # None
    BY <1>5, <1>10, <2>1 DEF MapRamdiskPage, Count, NextOf, Ready
  <2>4. containing(Ramdisk.addr) \in Nat
    BY <2>3, SizeFacts, PageOfAddress
  <2>5. frame \in Nat /\ frame = FirstFrame("map_ramdisk") + Width("map_ramdisk") * loop
    BY <1>1, <1>4, <2>1, <2>4 DEF FirstFrame
  <2>8. Iteration("map_ramdisk", frame, 0)
    BY <2>2, <2>3 DEF Iteration
  <2> HIDE DEF frame
  <2>9. LoopBody("map_ramdisk", frame, 0)
    BY <2>1, <2>8, <2>5 DEF LoopBody
  <2> QED
    BY <2>9
<1>11. CASE MapPhysicalMemoryPage
  <2>1. pc = "map_physical_memory" /\ "map_physical_memory" \in MapSteps \ {"map_boot_info"}
    BY <1>11 DEF MapPhysicalMemoryPage, At, MapSteps
  <2> DEFINE frame == FANOUT * loop
  <2>2. map_to("kernel", First("map_physical_memory") + Width("map_physical_memory") * loop,
               Width("map_physical_memory"), frame, 0, FALSE)
    BY <1>11 DEF MapPhysicalMemoryPage, First, Width
  <2>3. EndIteration(Count("map_physical_memory"), NextOf("map_physical_memory"))
    BY <1>11 DEF MapPhysicalMemoryPage, Count, NextOf
  <2>4. frame \in Nat /\ frame = FirstFrame("map_physical_memory") + Width("map_physical_memory") * loop
    <3>1. frame \in Nat
      BY <1>1, Paging
    <3>2. FirstFrame("map_physical_memory") = 0 /\ Width("map_physical_memory") * loop = frame
      BY DEF FirstFrame, Width
    <3> HIDE DEF frame
    <3> QED
      BY <3>1, <3>2
  <2>8. Iteration("map_physical_memory", frame, 0)
    BY <2>2, <2>3 DEF Iteration
  <2> HIDE DEF frame
  <2>9. LoopBody("map_physical_memory", frame, 0)
    BY <2>1, <2>8, <2>4 DEF LoopBody
  <2> QED
    BY <2>9
<1>12. CASE init_heap
  <2>1. pc = "init_heap" /\ "init_heap" \in MapSteps \ {"map_boot_info", "map_physical_memory"} /\ "init_heap" \notin ShownSteps
    BY <1>12 DEF init_heap, At, MapSteps, ShownSteps
  <2>2. map_to("kernel", First("init_heap") + Width("init_heap") * loop, Width("init_heap"), Head(supply), 1, FALSE)
    BY <1>4, <1>12, <2>1 DEF init_heap, First
  <2>3. EndIteration(Count("init_heap"), NextOf("init_heap"))
    BY <1>12 DEF init_heap, Count, NextOf
  <2>8. Iteration("init_heap", Head(supply), 1)
    BY <2>2, <2>3 DEF Iteration
  <2>9. LoopBody("init_heap", Head(supply), 1)
    BY <2>1, <2>8 DEF LoopBody
  <2> QED
    BY <2>9
<1> QED
  BY <1>6, <1>7, <1>8, <1>9, <1>10, <1>11, <1>12

LEMMA LoopSteps ==
  ASSUME RefInv, RefInv', LayoutInv, MInv,
         \/ MapStackPage \/ IdentityMapCode \/ MapGdt \/ MapFramebufferPage
         \/ MapRamdiskPage \/ MapPhysicalMemoryPage \/ init_heap
  PROVE  MInv'
<1>1. PICK s, frame, own : LoopBody(s, frame, own)
  BY LoopForm
<1> QED
  BY <1>1, LoopKeeps DEF LoopBody

-----------------------------------------------------------------------------
(***************************************************************************)
(* BootInfo, mapped twice.                                                 *)
(***************************************************************************)
LEMMA BootInfoKernelStep ==
  ASSUME RefInv, RefInv', LayoutInv, MInv, MapBootInfoKernel
  PROVE  MInv'
<1> DEFINE s == "map_boot_info"
<1>1. /\ pc = s /\ map_to("kernel", boot_info_page, 1, Head(supply), 1, FALSE)
      /\ pc' = (IF failure' = None THEN "map_boot_info_again" ELSE pc)
      /\ UNCHANGED <<machine, loop, entry_state, at, gdtr, boot_info>>
  BY DEF MapBootInfoKernel, At
<1>2. CASE failure' # None
  <2>1. UNCHANGED <<tables, mapped, supply>>
    BY <1>1, <1>2 DEF map_to
  <2> QED
    BY <1>1, <1>2, <2>1, Kept
<1>3. CASE failure' = None
  <2>1. pc' = "map_boot_info_again"
    BY <1>1, <1>3
  <2>2. loop \in Nat /\ loop < Count(s) /\ First(s) \in Int /\ Width(s) = 1 /\ s \in MapSteps
    BY <1>1, FirstInt DEF MInv, LoopInv, MapSteps, Width
  <2>3. Count(s)' = Count(s)
    BY <1>1, Same
  <2>4. Done(s) = loop /\ Done(s)' = loop + 1
    BY <1>1, <2>1 DEF Done
  <2>5. \A r \in MapSteps : r # s => Done(r)' = Done(r)
    <3>1. \A r \in MapSteps : Count(r)' = Count(r)
      BY <1>1, Same
    <3>2. \A r \in MapSteps : r # s => (Rank("map_boot_info_again") > Rank(r) <=> Rank(s) > Rank(r))
      BY DEF MapSteps, Rank
    <3>3. "map_boot_info_again" \notin MapSteps
      BY DEF MapSteps
    <3> QED
      BY <1>1, <2>1, <3>1, <3>2, <3>3 DEF Done
  <2>6. LoopInv'
    BY <1>1, <2>1, <2>2, <2>3 DEF LoopInv, MapSteps
  <2>7. boot_info_page = First(s) + Width(s) * loop
    BY <2>2 DEF boot_info_page, First
  <2>8. /\ Rank(pc) > Rank("map_kernel") /\ Rank(pc') > Rank("map_kernel")
        /\ (InNukleus' <=> InNukleus) /\ (KernelEntered' <=> KernelEntered)
    BY <1>1, <2>1 DEF Rank, InNukleus, KernelEntered
  <2>9. Head(supply) \in Nat
    BY <1>1, <1>3, OwnFrame DEF MInv
  <2>10. map_to("kernel", First(s) + Width(s) * loop, Width(s), Head(supply), 1, FALSE)
    BY <1>1, <2>2, <2>7
  <2>11. s \notin ShownSteps /\ s \in {"map_stack", "map_boot_info", "init_heap"}
    BY DEF ShownSteps
  <2>12. /\ DomInv' /\ ShowInv' /\ TableInv' /\ SupplyInv' /\ UsersInv'
         /\ mapped'["bootloader"] = mapped["bootloader"]
         /\ \A p \in DOMAIN mapped["kernel"] : mapped'["kernel"][p] = mapped["kernel"][p]
    <3> HIDE DEF s
    <3> QED
      BY <1>1, <1>3, <2>2, <2>4, <2>5, <2>6, <2>8, <2>9, <2>10, <2>11, IterationGrows
  <2>13. AtInv'
    <3>1. \A t \in Things : Rank(pc) > Rank(t) <=> Rank(pc') > Rank(t)
      BY <1>1, <2>1 DEF Things, Rank
    <3>2. Rank(pc) > Rank("gdt") /\ Rank(pc') > Rank("gdt") /\ Rank(pc) > Rank("bootloader_table")
      BY <1>1, <2>1 DEF Rank
    <3> QED
      BY <1>1, <3>1, <3>2, AtInvKept DEF MInv
  <2>14. BootInv'
    <3>1. LoaderDone' = LoaderDone
      BY <1>1, <2>1 DEF LoaderDone
    <3>2. Rank(pc) > Rank("write_boot_info") <=> Rank(pc') > Rank("write_boot_info")
      BY <1>1, <2>1 DEF Rank
    <3> QED
      BY <1>1, <2>12, <3>1, <3>2, BootInvKept DEF MInv
  <2> QED
    BY <2>6, <2>12, <2>13, <2>14 DEF MInv
<1> QED
  BY <1>2, <1>3

\* A kernel page that the loader maps as well.
LEMMA BootInfoLoaderStep ==
  ASSUME RefInv, RefInv', LayoutInv, MInv, MapBootInfoBootloader
  PROVE  MInv'
<1> DEFINE s == "map_boot_info"
           page == boot_info_page
           frame == mapped["kernel"][page]
           f == First(s)
           c == Count(s)
<1>1. /\ pc = "map_boot_info_again" /\ map_to("bootloader", page, 1, frame, 0, FALSE)
      /\ IF failure' # None THEN UNCHANGED <<pc, loop>>
         ELSE IF page < containing(at["boot_info"] + boot_info_size - 1)
           THEN pc' = "map_boot_info" /\ loop' = loop + 1
         ELSE pc' = "write_boot_info" /\ loop' = 0
      /\ UNCHANGED <<machine, entry_state, at, gdtr, boot_info>>
  BY DEF MapBootInfoBootloader, At, Goto
<1>2. CASE failure' # None
  <2>1. UNCHANGED <<tables, mapped, supply>>
    BY <1>1, <1>2 DEF map_to
  <2> QED
    BY <1>1, <1>2, <2>1, Kept
<1>3. CASE failure' = None
  <2>1. s \in MapSteps /\ Ready(s) /\ AreaOK(s)
    <3>1. s \in MapSteps /\ Ready(s)
      BY <1>1 DEF MapSteps, Ready, Rank
    <3> QED
      BY <3>1, Areas DEF MInv
  <2>2. f \in Nat /\ c \in Nat /\ loop \in Nat /\ loop < c /\ Width(s) = 1
    BY <1>1, <2>1 DEF MInv, LoopInv, AreaOK, Width, MapSteps
  <2>3. page = f + loop /\ page \in Nat
    BY <2>2 DEF boot_info_page, First
  <2>4. page < containing(at["boot_info"] + boot_info_size - 1) <=> loop + 1 < c
    <3> DEFINE e == containing(at["boot_info"] + boot_info_size - 1)
    <3>1. c = e - f + 1
      BY DEF Count, First
    <3>2. e \in Int
      <4>1. at["boot_info"] \in Nat
        <5>1. at["boot_info"] # NoAddress
          BY <1>1 DEF MInv, AtInv, Things, Rank, Present
        <5> QED
          BY <5>1 DEF RefInv, Things
      <4>2. at["boot_info"] + boot_info_size - 1 \in Nat
        BY <4>1, SizeFacts
      <4> QED
        BY <4>2, PageOfAddress
    <3> HIDE DEF e, f, c, page
    <3> QED
      BY <2>2, <2>3, <3>1, <3>2 DEF e
  <2>5. /\ Done(s) = loop + 1 /\ Done(s)' = loop + 1 /\ LoaderDone = loop /\ LoaderDone' = loop + 1
        /\ LoopInv'
    <3>1. Count(s)' = c
      BY <1>1, Same
    <3>2. CASE loop + 1 < c
      <4>1. pc' = "map_boot_info" /\ loop' = loop + 1
        BY <1>1, <1>3, <2>4, <3>2
      <4> QED
        BY <1>1, <2>2, <3>1, <3>2, <4>1 DEF Done, LoaderDone, LoopInv, MapSteps
    <3>3. CASE ~(loop + 1 < c)
      <4>1. pc' = "write_boot_info" /\ loop' = 0 /\ c = loop + 1
        BY <1>1, <1>3, <2>2, <2>4, <3>3
      <4>2. "write_boot_info" \notin MapSteps /\ "map_boot_info_again" \notin MapSteps
        BY DEF MapSteps
      <4>3. Rank("write_boot_info") > Rank("map_boot_info") /\ Rank("write_boot_info") > Rank("map_boot_info_again")
        BY DEF Rank
      <4> HIDE DEF c
      <4>4. Done(s)' = loop + 1 /\ LoaderDone' = loop + 1
        BY <3>1, <4>1, <4>3 DEF Done, LoaderDone
      <4> QED
        BY <1>1, <4>1, <4>2, <4>4 DEF Done, LoaderDone, LoopInv
    <3> QED
      BY <3>2, <3>3
  <2>6. pc' \in {"map_boot_info", "write_boot_info"}
    BY <1>1, <1>3
  <2>7. \A r \in MapSteps : Done(r)' = Done(r)
    <3>1. \A r \in MapSteps : Count(r)' = Count(r)
      BY <1>1, Same
    <3>2. \A r \in MapSteps : r # s => /\ Rank("map_boot_info_again") > Rank(r) <=> Rank("map_boot_info") > Rank(r)
                                       /\ Rank("map_boot_info_again") > Rank(r) <=> Rank("write_boot_info") > Rank(r)
      BY DEF MapSteps, Rank
    <3>3. "map_boot_info_again" \notin MapSteps /\ "write_boot_info" \notin MapSteps
      BY DEF MapSteps
    <3>4. \A r \in MapSteps : r # s => Done(r)' = Done(r)
      BY <1>1, <2>6, <3>1, <3>2, <3>3 DEF Done
    <3> QED
      BY <2>5, <3>4
  <2>8. \A r \in MapSteps : Pages(r)' = Pages(r) /\ First(r)' = First(r)
    BY <1>1, <2>7, Same DEF Pages
  <2>9. Rank(pc) > Rank("kernel_table") /\ Rank(pc') > Rank("kernel_table")
        /\ Rank(pc) > Rank("bootloader_table") /\ Rank(pc) > Rank("map_kernel") /\ Rank(pc') > Rank("map_kernel")
        /\ (InNukleus' <=> InNukleus) /\ (KernelEntered' <=> KernelEntered) /\ pc' # "map_kernel"
    <3>1. Rank(pc) = 18 /\ Rank(pc') \in {17, 19}
      BY <1>1, <2>6 DEF Rank
    <3>2. Rank("kernel_table") = 2 /\ Rank("bootloader_table") = 1 /\ Rank("map_kernel") = 4
      BY DEF Rank
    <3>3. (InNukleus' <=> InNukleus) /\ (KernelEntered' <=> KernelEntered) /\ pc' # "map_kernel"
      BY <1>1, <2>6 DEF InNukleus, KernelEntered
    <3> QED
      BY <3>1, <3>2, <3>3
  <2>10. page \in Pages(s) /\ page \in DOMAIN mapped["kernel"] /\ frame \in Nat
    <3>1. Pages(s) = f .. f + 1 * (loop + 1) - 1
      BY <2>2, <2>5 DEF Pages
    <3>2. f + loop \in f .. f + 1 * (loop + 1) - 1
      BY <2>2
    <3>3. page \in Pages(s)
      BY <2>3, <3>1, <3>2
    <3> QED
      BY <2>1, <3>3 DEF MInv, DomInv, ShowInv
  <2>11. PICK found \in 1 .. 4 : MapsTo("bootloader", page, 1, frame, 0, found)
    <3>1. "bootloader" \in Spaces /\ DOMAIN mapped = Spaces /\ DOMAIN tables = Spaces
          /\ supply \in Seq(frames_of(Memory)) /\ <<4, 0>> \in DOMAIN tables["bootloader"]
      BY <2>9 DEF Spaces, MInv, DomInv, TableInv, SupplyInv
    <3> HIDE DEF page, frame
    <3> QED
      BY <1>1, <1>3, <2>3, <3>1, MapSucceeds
  <2>12. /\ mapped'["kernel"] = mapped["kernel"] /\ DOMAIN mapped' = Spaces
         /\ DOMAIN mapped'["bootloader"] = DOMAIN mapped["bootloader"] \cup (page .. page + 1 - 1)
         /\ \A p \in page .. page + 1 - 1 : mapped'["bootloader"][p] = frame + (p - page)
         /\ \A p \in DOMAIN mapped["bootloader"] : mapped'["bootloader"][p] = mapped["bootloader"][p]
    BY <2>11 DEF MapsTo, Spaces, MInv, DomInv
  <2>13. page .. page + 1 - 1 = {page} /\ frame + (page - page) = frame
    BY <2>3, <2>10
  <2>14. AtInv'
    <3>1. \A t \in Things : Rank(pc) > Rank(t) <=> Rank(pc') > Rank(t)
      BY <1>1, <2>6 DEF Things, Rank
    <3>2. Rank(pc) > Rank("gdt") /\ Rank(pc') > Rank("gdt")
      BY <1>1, <2>6 DEF Rank
    <3> QED
      BY <1>1, <2>9, <3>1, <3>2, AtInvKept DEF MInv
  <2>15. DomInv'
    <3>1. kernel_pages' = kernel_pages /\ unmapped_kernel_pages' = unmapped_kernel_pages
      BY <1>1, <2>12, Same DEF unmapped_kernel_pages
    <3> QED
      BY <1>1, <2>8, <2>9, <2>12, <3>1 DEF MInv, DomInv
  <2>16. ShowInv'
    <3>1. \A r \in ShownSteps : FirstFrame(r)' = FirstFrame(r) /\ r \in MapSteps
      BY <1>1, Same, RankFacts
    <3> QED
      BY <2>8, <2>12, <3>1 DEF MInv, ShowInv
  <2>17. BootInv'
    <3>1. DOMAIN mapped["bootloader"] = f .. f + loop - 1
      BY <2>5 DEF MInv, BootInv
    <3>2. (f .. f + loop - 1) \cup {f + loop} = f .. f + (loop + 1) - 1
      BY <2>2
    <3>3. DOMAIN mapped'["bootloader"] = f .. f + (loop + 1) - 1
      BY <2>3, <2>12, <2>13, <3>1, <3>2
    <3>4. \A p \in DOMAIN mapped'["bootloader"] : mapped'["bootloader"][p] = mapped'["kernel"][p]
      BY <2>12, <2>13 DEF MInv, BootInv
    <3>5. ~(Rank(pc) > Rank("write_boot_info")) /\ ~(Rank(pc') > Rank("write_boot_info"))
      BY <1>1, <2>6 DEF Rank
    <3>6. boot_info' = None
      BY <1>1, <3>5 DEF MInv, BootInv
    <3>7. First(s)' = f
      BY <2>1, <2>8
    <3> QED
      BY <2>5, <3>3, <3>4, <3>5, <3>6, <3>7 DEF BootInv
  <2>18. TableInv'
    <3>1. "bootloader" \in Spaces /\ "bootloader" # "kernel"
      BY DEF Spaces
    <3> HIDE DEF page, frame
    <3> QED
      BY <1>1, <2>3, <2>9, <2>11, <3>1, TablesGrow DEF MInv
  <2>19. SupplyInv' /\ UsersInv'
    <3>1. own_pages' \cap DOMAIN mapped'["kernel"] = own_pages \cap DOMAIN mapped["kernel"]
      <4>1. own_pages' = StillPages' \cup Pages("init_heap")' /\ own_pages = StillPages \cup Pages("init_heap")
        BY <2>5, OwnPages, OwnPagesNext DEF MInv, OwnSplit
      <4>2. StillPages' = StillPages
        BY <1>1, Same DEF StillPages, PlacedPages
      <4>3. Pages("init_heap")' = Pages("init_heap")
        BY <2>8 DEF MapSteps
      <4> QED
        BY <2>12, <4>1, <4>2, <4>3
    <3>2. "bootloader" \in Spaces
      BY DEF Spaces
    <3> HIDE DEF page, frame
    <3> QED
      BY <1>1, <2>3, <2>9, <2>10, <2>11, <3>1, <3>2, UsersMap DEF MInv
  <2> QED
    BY <2>5, <2>14, <2>15, <2>16, <2>17, <2>18, <2>19 DEF MInv
<1> QED
  BY <1>2, <1>3

-----------------------------------------------------------------------------
(***************************************************************************)
(* The kernel's image.                                                     *)
(***************************************************************************)
LEMMA KernelAbove ==
  ASSUME RefInv, AtInv, Rank(pc) > Rank("kernel"), NEW p \in kernel_pages
  PROVE  containing(at["kernel"]) \in Nat /\ containing(at["kernel"]) <= p
<1>1. at["kernel"] \in Nat /\ image_offset + min_addr(Kernel.segments) = at["kernel"] /\ image_offset \in Int
  <2>1. "kernel" \in Things /\ Present("kernel")
    BY DEF Things, Present
  <2>2. at["kernel"] # NoAddress /\ at["kernel"] \in Nat
    BY <2>1 DEF AtInv, RefInv
  <2>3. min_addr(Kernel.segments) \in Nat
    BY KernelExtent DEF RefInv
  <2>4. Kernel.fixed => at["kernel"] = min_addr(Kernel.segments)
    BY <2>1, <2>2 DEF AtInv
  <2> QED
    BY <2>2, <2>3, <2>4 DEF image_offset
<1>2. PICK s \in Kernel.segments : p \in pages_of(image_offset + s.virtual_addr, s.mem_size)
  BY DEF kernel_pages, segment_pages
<1>3. s.virtual_addr \in Nat /\ min_addr(Kernel.segments) \in Nat /\ min_addr(Kernel.segments) <= s.virtual_addr
  <2>1. HasSegments(Kernel.segments)
    BY MachinesAssumption DEF RefInv, WellFormed, WellFormedKernel, Kernel
  <2>2. \E a \in {u.virtual_addr : u \in Kernel.segments} : \A t \in Kernel.segments : a <= t.virtual_addr
    BY <2>1 DEF HasSegments
  <2>3. \A t \in Kernel.segments : min_addr(Kernel.segments) <= t.virtual_addr
    BY <2>2 DEF min_addr
  <2> QED
    BY <1>2, <2>1, <2>3, KernelExtent DEF HasSegments, RefInv
<1> DEFINE a == image_offset + s.virtual_addr
<1>4. a \in Nat /\ at["kernel"] <= a
  BY <1>1, <1>3
<1>5. p >= containing(a) /\ p \in Int
  <2>1. p \in containing(a) .. containing(a + s.mem_size - 1)
    BY <1>2 DEF pages_of
  <2> QED
    BY <2>1
<1>6. containing(at["kernel"]) <= containing(a) /\ containing(at["kernel"]) \in Nat /\ containing(a) \in Nat
  BY <1>1, <1>4, PagesOrdered, PageOfAddress
<1> QED
  BY <1>5, <1>6

LEMMA KernelPageStep ==
  ASSUME RefInv, RefInv', LayoutInv, MInv, MapKernelPage
  PROVE  MInv'
<1> DEFINE page == CHOOSE p \in unmapped_kernel_pages : \A q \in unmapped_kernel_pages : p <= q
           nth  == page - containing(at["kernel"])
           own  == IF nth \in Kernel.own THEN 1 ELSE 0
           frame == IF own = 1 THEN Head(supply) ELSE Kernel.file + nth
<1>1. /\ pc = "map_kernel" /\ map_to("kernel", page, 1, frame, own, own = 1)
      /\ IF failure' = None /\ unmapped_kernel_pages \subseteq DOMAIN mapped'["kernel"]
           THEN pc' = "stack" /\ loop' = 0 ELSE UNCHANGED <<pc, loop>>
      /\ UNCHANGED <<machine, entry_state, at, gdtr, boot_info>>
  BY DEF MapKernelPage, At, Goto, kernel_page, image_page, own_frames
<1>2. CASE failure' # None
  <2>1. UNCHANGED <<tables, mapped, supply>>
    BY <1>1, <1>2 DEF map_to
  <2> QED
    BY <1>1, <1>2, <2>1, Kept
<1>3. CASE failure' = None
  <2>1. pc' \in {"map_kernel", "stack"} /\ loop = 0 /\ loop' = 0
    BY <1>1, <1>3 DEF MInv, LoopInv, MapSteps
  <2>2. /\ Rank(pc) = 4 /\ Rank(pc') \in {4, 5} /\ Rank("kernel") = 3 /\ Rank("kernel_table") = 2
        /\ Rank("bootloader_table") = 1 /\ Rank("map_kernel") = 4
    BY <1>1, <2>1 DEF Rank
  <2>3. /\ (InNukleus' <=> InNukleus) /\ (KernelEntered' <=> KernelEntered) /\ ~InNukleus
        /\ \A t \in Things : Rank(pc) > Rank(t) <=> Rank(pc') > Rank(t)
        /\ (Rank(pc) > Rank("gdt") <=> Rank(pc') > Rank("gdt"))
        /\ (Rank(pc) > Rank("write_boot_info") <=> Rank(pc') > Rank("write_boot_info"))
    <3>1. (InNukleus' <=> InNukleus) /\ (KernelEntered' <=> KernelEntered) /\ ~InNukleus
      BY <1>1, <2>1 DEF InNukleus, KernelEntered
    <3>2. \A t \in Things : Rank(t) = 3 \/ Rank(t) \in 5 .. 23
      <4>1. /\ Rank("kernel") = 3 /\ Rank("stack") = 5 /\ Rank("framebuffer") = 10 /\ Rank("ramdisk") = 12
            /\ Rank("physical_memory") = 14 /\ Rank("boot_info") = 16
        BY DEF Rank
      <4> QED
        BY <4>1 DEF Things
    <3>3. Rank("gdt") = 8 /\ Rank("write_boot_info") = 19
      BY DEF Rank
    <3> QED
      BY <2>2, <3>1, <3>2, <3>3
  <2>4. /\ at["kernel"] # NoAddress /\ at["stack"] = NoAddress /\ at["boot_info"] = NoAddress
    <3>1. Rank("stack") = 5 /\ Rank("boot_info") = 16 /\ Present("kernel") /\ {"kernel", "stack", "boot_info"} \subseteq Things
      BY DEF Rank, Present, Things
    <3> QED
      BY <2>2, <3>1 DEF MInv, AtInv
  <2>5. /\ page \in unmapped_kernel_pages /\ page \in kernel_pages /\ page \in Nat
        /\ page \div EntryPages \in placed_entries["kernel"]
    <3>1. unmapped_kernel_pages # {} /\ unmapped_kernel_pages \subseteq kernel_pages
      BY <1>1 DEF MInv, DomInv, unmapped_kernel_pages
    <3>2. \A p \in kernel_pages : p \in Nat /\ p \div EntryPages \in placed_entries["kernel"]
      BY <2>2, KernelArea DEF MInv
    <3>3. unmapped_kernel_pages \subseteq Nat
      BY <3>1, <3>2
    <3>4. \E p \in unmapped_kernel_pages : \A q \in unmapped_kernel_pages : p <= q
      BY <3>1, <3>3, LayoutAssumptions, LayoutThms!LeastNatural
    <3>5. page \in unmapped_kernel_pages
      BY <3>4
    <3> HIDE DEF page
    <3> QED
      BY <3>1, <3>2, <3>5
  <2> HIDE DEF page
  <2>6. nth \in Nat /\ own \in {0, 1} /\ (own = 1 => frame = Head(supply))
    BY <2>2, <2>5, KernelAbove DEF MInv
  <2>7. frame \in Nat
    <3>1. CASE own = 1
      BY <1>1, <1>3, <3>1, OwnFrame DEF MInv
    <3>2. CASE own # 1
      <4>1. Kernel.file \in Nat
        BY MachinesAssumption DEF RefInv, WellFormed, WellFormedKernel, Kernel
      <4> QED
        BY <2>6, <3>2, <4>1
    <3> QED
      BY <3>1, <3>2
  <2>8. own = 0 => nth \notin Kernel.own
    OBVIOUS
  <2>9. PICK found \in 1 .. 4 : MapsTo("kernel", page, 1, frame, own, found)
    <3>1. "kernel" \in Spaces /\ DOMAIN mapped = Spaces /\ DOMAIN tables = Spaces
          /\ supply \in Seq(frames_of(Memory)) /\ <<4, 0>> \in DOMAIN tables["kernel"]
      BY <2>2 DEF Spaces, MInv, DomInv, TableInv, SupplyInv
    <3> DEFINE writes == own = 1
    <3>2. map_to("kernel", page, 1, frame, own, writes)
      BY <1>1
    <3> HIDE DEF frame, own, writes
    <3> QED
      BY <1>3, <2>5, <2>6, <3>1, <3>2, MapSucceeds
  <2> HIDE DEF frame, own
  <2>10. page .. page + 1 - 1 = {page} /\ frame + (page - page) = frame
    BY <2>5, <2>7
  <2>11. /\ DOMAIN mapped' = Spaces /\ DOMAIN mapped'["kernel"] = DOMAIN mapped["kernel"] \cup {page}
         /\ mapped'["kernel"][page] = frame
         /\ \A p \in DOMAIN mapped["kernel"] : mapped'["kernel"][p] = mapped["kernel"][p]
         /\ mapped'["bootloader"] = mapped["bootloader"]
    BY <2>9, <2>10 DEF MapsTo, Spaces, MInv, DomInv
  <2>12. \A r \in MapSteps : Done(r)' = 0 /\ Done(r) = 0 /\ Pages(r)' = {} /\ Pages(r) = {}
    <3>1. \A r \in MapSteps : Rank(r) \in 6 .. 23 /\ r \notin {"map_kernel", "stack"}
      BY DEF MapSteps, Rank
    <3>2. \A r \in MapSteps : Done(r)' = 0 /\ Done(r) = 0
      BY <1>1, <2>1, <2>2, <3>1 DEF Done
    <3>3. \A r \in MapSteps : First(r) \in Int /\ Width(r) \in Nat /\ First(r)' = First(r) /\ Width(r)' = Width(r)
      BY <1>1, Same, FirstInt DEF MInv, Width
    <3>4. \A a \in Int, b \in Nat : a .. a + b * 0 - 1 = {}
      OBVIOUS
    <3> QED
      BY <3>2, <3>3, <3>4 DEF Pages
  <2>13. LoopInv'
    <3>1. "map_kernel" \notin MapSteps /\ "stack" \notin MapSteps
      BY DEF MapSteps
    <3> QED
      BY <2>1, <3>1 DEF LoopInv
  <2>14. AtInv'
    BY <1>1, <2>2, <2>3, AtInvKept DEF MInv
  <2>15. kernel_pages' = kernel_pages /\ unmapped_kernel_pages' = kernel_pages \ DOMAIN mapped'["kernel"]
    BY <1>1, Same DEF unmapped_kernel_pages
  <2>16. DomInv'
    <3>1. IsFiniteSet(DOMAIN mapped'["kernel"])
      BY <2>11, FS_AddElement DEF MInv, DomInv
    <3>2. \A p \in DOMAIN mapped'["kernel"] : at'["kernel"] # NoAddress /\ p \in kernel_pages'
      BY <1>1, <2>4, <2>5, <2>11, <2>12, <2>15 DEF MInv, DomInv
    <3>3. pc' = "map_kernel" => unmapped_kernel_pages' # {}
      BY <1>1, <1>3, <2>15 DEF unmapped_kernel_pages
    <3>4. pc' = "stack" => unmapped_kernel_pages' = {}
      BY <1>1, <1>3, <2>11, <2>15 DEF unmapped_kernel_pages
    <3>5. Rank(pc') > Rank("map_kernel") => pc' = "stack"
      BY <2>1 DEF Rank
    <3> QED
      BY <2>11, <2>12, <3>1, <3>2, <3>3, <3>4, <3>5 DEF DomInv
  <2>17. ShowInv'
    <3>1. ShownSteps \subseteq MapSteps
      BY RankFacts
    <3> QED
      BY <2>7, <2>11, <2>12, <3>1 DEF MInv, ShowInv
  <2>18. BootInv'
    <3>1. LoaderDone = 0 /\ LoaderDone' = 0
      <4>1. Rank("map_boot_info_again") = 18
        BY DEF Rank
      <4> QED
        BY <1>1, <2>1, <2>2, <4>1 DEF LoaderDone
    <3> QED
      BY <1>1, <2>3, <2>11, <3>1, BootInvKept DEF MInv
  <2>19. TableInv'
    <3>1. "kernel" \in Spaces /\ page \div EntryPages \in PageEntries
      BY <2>5 DEF Spaces, PageEntries, Things
    <3>2. Rank(pc) > Rank("kernel_table") /\ Rank(pc') > Rank("kernel_table")
      BY <2>2
    <3> QED
      BY <1>1, <2>3, <2>5, <2>6, <2>9, <3>1, <3>2, TablesGrow DEF MInv
  <2>20. SupplyInv' /\ UsersInv'
    <3>1. own_pages' = own_pages
      <4>1. own_pages' = StillPages' \cup Pages("init_heap")' /\ own_pages = StillPages \cup Pages("init_heap")
        BY <2>13, OwnPages, OwnPagesNext DEF MInv, OwnSplit
      <4>2. StillPages' = StillPages
        BY <1>1, Same DEF StillPages, PlacedPages
      <4> QED
        BY <2>12, <4>1, <4>2 DEF MapSteps
    <3>2. own = 0 => page \notin own_pages
      <4>1. own_pages = StillPages \cup Pages("init_heap")
        BY OwnPages DEF MInv, OwnSplit
      <4>2. StillPages = {p \in kernel_pages : p - containing(at["kernel"]) \in Kernel.own}
        BY <2>4 DEF StillPages, PlacedPages
      <4> QED
        BY <2>8, <2>12, <4>1, <4>2 DEF MapSteps
    <3>3. \A p \in own_pages' \cap DOMAIN mapped'["kernel"] :
            p \in own_pages \cap DOMAIN mapped["kernel"] \/ (own = 1 /\ p = page)
      BY <2>6, <2>11, <3>1, <3>2
    <3>4. own = 1 => frame = supply[1]
      BY <2>6 DEF Head
    <3>5. "kernel" \in Spaces
      BY DEF Spaces
    <3> QED
      BY <1>1, <2>3, <2>5, <2>6, <2>7, <2>9, <3>3, <3>4, <3>5, UsersMap DEF MInv
  <2> QED
    BY <2>13, <2>14, <2>16, <2>17, <2>18, <2>19, <2>20 DEF MInv
<1> QED
  BY <1>2, <1>3

-----------------------------------------------------------------------------
(***************************************************************************)
(* What a loop is still to map is not mapped yet: the heap's pages and the *)
(* GDT's, which nothing keeps apart from the rest, excepted.               *)
(***************************************************************************)
AllPages(s) == First(s) .. First(s) + Width(s) * Count(s) - 1

StillFree ==
  \A s \in MapSteps \ {"init_heap", "map_gdt"} : pc = s =>
    \A p \in AllPages(s) : p >= First(s) + Width(s) * loop => p \notin DOMAIN mapped["kernel"]

LEMMA StillFreeHolds == RefInv /\ LayoutInv /\ AtInv /\ LoopInv /\ DomInv => StillFree
<1> SUFFICES ASSUME RefInv, LayoutInv, AtInv, LoopInv, DomInv, NEW s \in MapSteps \ {"init_heap", "map_gdt"}, pc = s,
                    NEW p \in AllPages(s), p >= First(s) + Width(s) * loop, p \in DOMAIN mapped["kernel"]
             PROVE  FALSE
  BY DEF StillFree
<1>1. Ready(s) /\ Done(s) = loop /\ AreaOK(s)
  BY DoneBound, Areas
<1>2. p \in Nat /\ p \div EntryPages \in Home(s)
  BY <1>1 DEF AreaOK, AllPages
<1>3. Rank(pc) > Rank("kernel") /\ s \in MapSteps \ {"init_heap"}
      /\ (\A r \in {"init_heap"} : pc # r /\ ~(Rank(pc) > Rank(r)))
      /\ (s = "identity_map" => ~(Rank(pc) > Rank("map_gdt")))
  <2>1. Rank("kernel") = 3 /\ Rank("init_heap") = 22 /\ Rank("map_gdt") = 9 /\ Rank("identity_map") = 7
    BY DEF Rank
  <2>2. \A r \in MapSteps \ {"init_heap"} : Rank(r) \in 4 .. 21
    BY DEF MapSteps, Rank
  <2> QED
    BY <2>1, <2>2
<1>4. CASE p \in kernel_pages
  BY <1>2, <1>3, <1>4, KernelArea, HomesDisjoint
<1>5. CASE p \notin kernel_pages
  <2>1. PICK r \in MapSteps : p \in Pages(r)
    BY <1>5 DEF DomInv
  <2>2. p < First(r) + Width(r) * Done(r) /\ p \div EntryPages \in Home(r) /\ First(r) \in Nat
    BY <2>1, PageInArea
  <2>3. Done(r) # 0
    <3>1. Width(r) \in Nat /\ p \in First(r) .. First(r) + Width(r) * Done(r) - 1
      BY <2>1, FirstInt DEF Pages
    <3>2. ASSUME Done(r) = 0 PROVE FALSE
      <4>1. Width(r) * 0 = 0
        BY <3>1
      <4> QED
        BY <2>2, <3>1, <3>2, <4>1
    <3> QED
      BY <3>2
  <2>4. r # "init_heap"
    BY <1>3, <2>3 DEF Done
  <2>5. s = "identity_map" => r # "map_gdt"
    <3>1. s = "identity_map" /\ r = "map_gdt" => Done(r) = 0
      BY <1>3 DEF Done
    <3> QED
      BY <2>3, <3>1
  <2>6. r = s
    <3>1. \/ r = s \/ Home(s) \cap Home(r) = {}
          \/ s \in {"identity_map", "map_gdt"} /\ r \in {"identity_map", "map_gdt"}
      BY <1>3, <2>1, <2>4, HomesDisjoint
    <3> QED
      BY <1>2, <2>2, <2>5, <3>1
  <2>7. First(s) + Width(s) * loop \in Int
    <3>1. Width(s) \in Nat /\ loop \in Nat /\ First(s) \in Int
      BY FirstInt DEF LoopInv
    <3>2. Width(s) * loop \in Nat
      BY <3>1
    <3> QED
      BY <3>1, <3>2
  <2> QED
    BY <1>1, <1>2, <2>2, <2>6, <2>7
<1> QED
  BY <1>4, <1>5

LEMMA StillFreeNext == RefInv' /\ LayoutInv' /\ AtInv' /\ LoopInv' /\ DomInv' => StillFree'
BY StillFreeHolds, PTL

AreasInv == \A s \in MapSteps : Ready(s) => AreaOK(s)

LEMMA AreasHold == RefInv /\ AtInv => AreasInv
BY Areas DEF AreasInv

LEMMA AreasNext == RefInv' /\ AtInv' => AreasInv'
BY AreasHold, PTL

FirstsInt == \A s \in MapSteps : First(s) \in Int /\ Width(s) \in Nat \ {0}

LEMMA FirstsHold == RefInv /\ AtInv => FirstsInt
BY FirstInt DEF FirstsInt

LEMMA FirstsNext == RefInv' /\ AtInv' => FirstsInt'
BY FirstsHold, PTL

AreaPagesFacts ==
  /\ pages_of(stack_start, STACK_SIZE) = AllPages("map_stack")
  /\ pages_of(at["boot_info"], boot_info_size) = AllPages("map_boot_info")

LEMMA AreaPagesHold == RefInv /\ AtInv => AreaPagesFacts
BY AreaPages DEF AreaPagesFacts, AllPages

LEMMA AreaPagesNext == RefInv' /\ AtInv' => AreaPagesFacts'
BY AreaPagesHold, PTL

-----------------------------------------------------------------------------
(***************************************************************************)
(* Placing something.                                                      *)
(***************************************************************************)
MapOf(t) ==
  CASE t = "stack"           -> "map_stack"
    [] t = "framebuffer"     -> "map_framebuffer"
    [] t = "ramdisk"         -> "map_ramdisk"
    [] t = "physical_memory" -> "map_physical_memory"
    [] t = "boot_info"       -> "map_boot_info"

LEMMA MapOfFacts ==
  ASSUME NEW t \in Things \ {"kernel"}
  PROVE  /\ MapOf(t) \in MapSteps \ {"init_heap", "map_gdt", "identity_map"} /\ Rank(MapOf(t)) = Rank(t) + 1
         /\ t \in Steps /\ t \notin MapSteps /\ t # "map_boot_info_again" /\ MapOf(t) # "map_boot_info_again"
         /\ Rank(t) \in 5 .. 16 /\ Rank(t) # Rank("gdt") /\ Rank(t) > Rank("map_kernel")
         /\ \A u \in Things : u # t => Rank(u) # Rank(t)
         /\ t \notin {"kernel_main", "init_heap", "running", "map_kernel"}
         /\ MapOf(t) \notin {"kernel_main", "init_heap", "running", "map_kernel"}
<1> USE DEF Things, MapOf, MapSteps, Steps
<1>0. /\ Rank("kernel") = 3 /\ Rank("stack") = 5 /\ Rank("framebuffer") = 10 /\ Rank("ramdisk") = 12
      /\ Rank("physical_memory") = 14 /\ Rank("boot_info") = 16 /\ Rank("gdt") = 8 /\ Rank("map_kernel") = 4
      /\ Rank("map_stack") = 6 /\ Rank("map_framebuffer") = 11 /\ Rank("map_ramdisk") = 13
      /\ Rank("map_physical_memory") = 15 /\ Rank("map_boot_info") = 17
  BY DEF Rank
<1>1. CASE t = "stack"
  BY <1>0, <1>1
<1>2. CASE t = "framebuffer"
  BY <1>0, <1>2
<1>3. CASE t = "ramdisk"
  BY <1>0, <1>3
<1>4. CASE t = "physical_memory"
  BY <1>0, <1>4
<1>5. CASE t = "boot_info"
  BY <1>0, <1>5
<1> QED
  BY <1>1, <1>2, <1>3, <1>4, <1>5

LEMMA SameFirst ==
  ASSUME UNCHANGED <<machine, gdtr>>, NEW t \in Things \ {"kernel"}, \A u \in Things : u # t => at'[u] = at[u],
         NEW s \in MapSteps, s # MapOf(t)
  PROVE  First(s)' = First(s) /\ Count(s)' = Count(s)
<1>1. /\ Framebuffer' = Framebuffer /\ Ramdisk' = Ramdisk /\ Memory' = Memory
      /\ boot_info_size' = boot_info_size /\ framebuffer_frames' = framebuffer_frames
      /\ ramdisk_page_count' = ramdisk_page_count /\ huge_frames' = huge_frames
  BY DEF Memory, Framebuffer, Ramdisk, boot_info_size, framebuffer_frames, ramdisk_page_count, huge_frames
<1>2. /\ s = "map_stack" => at'["stack"] = at["stack"]
      /\ s = "map_framebuffer" => at'["framebuffer"] = at["framebuffer"]
      /\ s = "map_ramdisk" => at'["ramdisk"] = at["ramdisk"]
      /\ s = "map_physical_memory" => at'["physical_memory"] = at["physical_memory"]
      /\ s = "map_boot_info" => at'["boot_info"] = at["boot_info"]
  BY DEF Things, MapOf
<1>3. s = "map_stack" => stack_start' = stack_start /\ stack_top' = stack_top
  BY <1>2 DEF stack_start, stack_top
<1> QED
  BY <1>1, <1>2, <1>3 DEF First, Count, MapSteps

\* A step that neither grants a frame nor maps a page.
LEMMA UsersSame ==
  ASSUME UsersInv, UNCHANGED <<machine, supply, tables, mapped, gdtr>>,
         own_pages' \cap DOMAIN mapped'["kernel"] = own_pages \cap DOMAIN mapped["kernel"],
         KernelEntered => KernelEntered', InNukleus => InNukleus'
  PROVE  UsersInv'
<1>1. \A u : frame_of(u)' = frame_of(u)
  BY DEF frame_of
<1>2. \A u \in Users' : u \in Users
  <2> SUFFICES ASSUME NEW u \in Users' PROVE u \in Users
    OBVIOUS
  <2>1. \/ \E s \in Spaces : \E t \in DOMAIN tables'[s] : u = <<"table", s, t>>
        \/ \E p \in own_pages' \cap DOMAIN mapped'["kernel"] : u = <<"page", p>>
        \/ u = <<"gdt">> /\ gdtr' # NoAddress
        \/ u = <<"code">> /\ ~KernelEntered'
    BY UserCasesNext DEF UserFacts
  <2> QED
    BY <2>1, UserCases DEF UserFacts
<1>3. Memory' = Memory
  BY DEF Memory
<1> QED
  BY <1>1, <1>2, <1>3 DEF UsersInv

LEMMA PlaceKeeps ==
  ASSUME RefInv, RefInv', LayoutInv, LayoutInv', MInv, failure = None, NEW thing \in Things \ {"kernel"},
         NEW size \in Nat, size = size_of(thing), pc = thing, Present(thing), place(thing, size, MapOf(thing))
  PROVE  MInv'
<1> DEFINE addr == get_free_address(entry_state, size)
           next == MapOf(thing)
<1>1. UNCHANGED <<machine, supply, tables, mapped, gdtr, boot_info>>
  BY DEF place
<1>2. CASE ~has_free_entries(entry_state, level_4_entries(size))
  <2>1. UNCHANGED <<at, entry_state, pc, loop>>
    BY <1>2 DEF place
  <2> QED
    BY <1>1, <2>1, Kept
<1>3. CASE has_free_entries(entry_state, level_4_entries(size))
  <2>1. at' = [at EXCEPT ![thing] = addr] /\ pc' = next /\ loop' = 0
    BY <1>3 DEF place, Goto
  <2>2. addr \in Nat /\ addr # NoAddress /\ \E e \in EntryIndex : addr = e * LEVEL_4_SIZE
    <3>1. level_4_entries(size) \in Nat
      BY EntriesAssumption DEF level_4_entries
    <3>2. get_free_entries(entry_state, level_4_entries(size)) \in EntryIndex
      BY <1>3, <3>1, LayoutAssumptions, EntriesOfThms, LayoutThms!WindowIsFree
    <3> QED
      BY <1>3, <3>2, FreeAddress DEF get_free_address, NoAddress
  <2>3. size > 0
    <3>1. level_4_entries(size) > 0
      BY <1>3 DEF has_free_entries
    <3>2. (LEVEL_4_SIZE - 1) \div LEVEL_4_SIZE = 0
      <4>1. LEVEL_4_SIZE - 1 \in Nat /\ LEVEL_4_SIZE * 0 <= LEVEL_4_SIZE - 1 /\ LEVEL_4_SIZE - 1 < LEVEL_4_SIZE * 0 + LEVEL_4_SIZE
        BY Paging
      <4> QED
        BY <4>1, Paging, DivUnique
    <3>3. size = 0 => level_4_entries(size) = 0
      <4>1. 0 + (LEVEL_4_SIZE - 1) = LEVEL_4_SIZE - 1
        BY Paging
      <4> QED
        BY <3>2, <4>1 DEF level_4_entries
    <3> QED
      BY <3>1, <3>3
  <2> HIDE DEF addr
  <2>4. \A t \in Things : at'[t] = IF t = thing THEN addr ELSE at[t]
    BY <2>1 DEF RefInv
  <2>5. /\ next \in MapSteps \ {"init_heap", "map_gdt", "identity_map"} /\ Rank(next) = Rank(thing) + 1
        /\ thing \in Steps /\ thing \notin MapSteps /\ thing # "map_boot_info_again" /\ next # "map_boot_info_again"
        /\ Rank(thing) \in 5 .. 16 /\ Rank(thing) # Rank("gdt") /\ Rank(thing) > Rank("map_kernel")
        /\ \A u \in Things : u # thing => Rank(u) # Rank(thing)
        /\ thing \notin {"kernel_main", "init_heap", "running", "map_kernel"}
        /\ next \notin {"kernel_main", "init_heap", "running", "map_kernel"}
    BY MapOfFacts
  <2> HIDE DEF next
  <2>6. \A u \in Steps : Rank(u) \in Int
    BY RankFacts
  <2>7. Things \subseteq Steps /\ MapSteps \subseteq Steps /\ {"gdt", "bootloader_table", "kernel_table", "map_kernel"} \subseteq Steps
    BY RankFacts DEF Things, Steps
  <2>8. at[thing] = NoAddress
    <3>1. ~(Rank(pc) > Rank(thing))
      BY <2>5, <2>6
    <3> QED
      BY <3>1 DEF MInv, AtInv
  <2>9. /\ Memory' = Memory /\ Kernel' = Kernel /\ Framebuffer' = Framebuffer /\ Ramdisk' = Ramdisk
        /\ boot_info_size' = boot_info_size /\ \A t : Present(t)' = Present(t) /\ size_of(t)' = size_of(t)
    BY <1>1 DEF Memory, Kernel, Framebuffer, Ramdisk, boot_info_size, Present, size_of
  <2>10. at'["kernel"] = at["kernel"] /\ image_offset' = image_offset /\ kernel_pages' = kernel_pages
    <3>1. at'["kernel"] = at["kernel"]
      BY <2>4 DEF Things
    <3>2. image_offset' = image_offset
      BY <2>9, <3>1 DEF image_offset
    <3> QED
      BY <2>9, <3>1, <3>2 DEF kernel_pages, segment_pages
  <2>11. AtInv'
    <3>1. ASSUME NEW t \in Things
          PROVE  /\ at'[t] # NoAddress <=> Rank(pc') > Rank(t) /\ Present(t)'
                 /\ at'[t] # NoAddress =>
                      IF t = "kernel" /\ Kernel'.fixed THEN at'[t] = min_addr(Kernel'.segments)
                      ELSE \E e \in EntryIndex : at'[t] = e * LEVEL_4_SIZE
      <4>1. CASE t = thing
        <5>1. Rank(pc') > Rank(t) /\ Present(t)'
          BY <2>1, <2>5, <2>6, <2>9, <4>1
        <5> QED
          BY <2>2, <2>4, <4>1, <5>1
      <4>2. CASE t # thing
        <5>1. Rank(pc') > Rank(t) <=> Rank(pc) > Rank(t)
          <6>1. Rank(t) # Rank(thing) /\ Rank(t) \in Int /\ Rank(thing) \in Int /\ Rank(pc') = Rank(thing) + 1
            BY <2>1, <2>5, <2>6, <2>7, <4>2
          <6> QED
            BY <6>1
        <5>2. at'[t] = at[t]
          BY <2>4, <4>2
        <5> QED
          BY <2>9, <5>1, <5>2 DEF MInv, AtInv
      <4> QED
        BY <4>1, <4>2
    <3>2. at'["framebuffer"] # NoAddress => Framebuffer'.byte_len > 0
      <4>1. CASE thing = "framebuffer"
        BY <2>3, <2>9, <4>1 DEF size_of
      <4>2. CASE thing # "framebuffer"
        BY <2>4, <2>9, <4>2 DEF MInv, AtInv, Things
      <4> QED
        BY <4>1, <4>2
    <3>3. Rank(pc') > Rank("gdt") <=> Rank(pc) > Rank("gdt")
      <4>1. Rank("gdt") \in Int /\ Rank(thing) \in Int /\ Rank(pc') = Rank(thing) + 1 /\ Rank(thing) # Rank("gdt")
        BY <2>1, <2>5, <2>6, <2>7
      <4> QED
        BY <4>1
    <3>4. machine'.code < EntryPages
      <4>1. Rank("bootloader_table") = 1
        BY DEF Rank
      <4>2. Rank(pc) > Rank("bootloader_table")
        BY <2>5, <4>1
      <4> QED
        BY <1>1, <4>2 DEF MInv, AtInv
    <3>5. IF Rank(pc') > Rank("gdt") THEN gdtr' \in 0 .. EntryPages - 1 ELSE gdtr' = NoAddress
      BY <1>1, <3>3 DEF MInv, AtInv
    <3> QED
      BY <3>1, <3>2, <3>4, <3>5 DEF AtInv
  <2>12. LoopInv'
    <3>1. Ready(next)'
      <4>1. Rank(pc') >= Rank(next)
        BY <2>1, <2>5, <2>6, <2>7
      <4>2. (next = "map_framebuffer" => Framebuffer # None) /\ (next = "map_ramdisk" => Ramdisk # None)
        BY DEF next, MapOf, Present, Things
      <4> QED
        BY <2>9, <4>1, <4>2 DEF Ready
    <3>2. Count(next)' \in Nat \ {0}
      BY <2>5, <2>11, <3>1, AreasNext DEF AreasInv, AreaOK
    <3> QED
      BY <2>1, <2>5, <3>2 DEF LoopInv
  <2>13. \A r \in MapSteps : Done(r) # 0 => r # next
    <3>1. next # pc /\ ~(Rank(pc) > Rank(next)) /\ pc # "map_boot_info_again"
      BY <2>5, <2>6, <2>7
    <3> QED
      BY <3>1 DEF Done
  <2>14. \A r \in MapSteps : r # next => First(r)' = First(r) /\ Count(r)' = Count(r)
    BY <1>1, <2>4, SameFirst DEF next
  <2>15. \A r \in MapSteps : Done(r)' = Done(r)
    <3> SUFFICES ASSUME NEW r \in MapSteps PROVE Done(r)' = Done(r)
      OBVIOUS
    <3>1. CASE r = next
      BY <2>1, <2>13, <3>1 DEF Done
    <3>2. CASE r # next
      <4>1. Rank(pc') > Rank(r) <=> Rank(pc) > Rank(r)
        <5>1. Rank(r) # Rank(next) /\ Rank(r) \in Int /\ Rank(thing) \in Int /\ Rank(pc') = Rank(thing) + 1
              /\ Rank(next) = Rank(thing) + 1 /\ Rank(r) # Rank(thing)
          <6>1. Rank(r) # Rank(thing)
            <7>1. \A q \in MapSteps : \A u \in Things : Rank(q) # Rank(u)
              <8>1. /\ Rank("kernel") = 3 /\ Rank("stack") = 5 /\ Rank("framebuffer") = 10 /\ Rank("ramdisk") = 12
                    /\ Rank("physical_memory") = 14 /\ Rank("boot_info") = 16
                BY DEF Rank
              <8>2. \A q \in MapSteps : Rank(q) \in {6, 7, 9, 11, 13, 15, 17, 22}
                BY DEF MapSteps, Rank
              <8> QED
                BY <8>1, <8>2 DEF Things
            <7> QED
              BY <7>1
          <6> QED
            BY <2>1, <2>5, <2>6, <2>7, <3>2, <6>1, RankFacts
        <5> QED
          BY <5>1
      <4>2. pc # r /\ pc' # r /\ pc # "map_boot_info_again" /\ pc' # "map_boot_info_again"
        BY <2>1, <2>5, <3>2
      <4> QED
        BY <2>14, <3>2, <4>1, <4>2 DEF Done
    <3> QED
      BY <3>1, <3>2
  <2>16. \A r \in MapSteps : Pages(r)' = Pages(r)
    <3> SUFFICES ASSUME NEW r \in MapSteps PROVE Pages(r)' = Pages(r)
      OBVIOUS
    <3>1. CASE r # next
      BY <2>14, <2>15, <3>1 DEF Pages
    <3>2. CASE r = next
      <4>1. Done(r) = 0 /\ Done(r)' = 0
        BY <2>13, <2>15, <3>2
      <4>2. First(r) \in Int /\ First(r)' \in Int /\ Width(r) \in Nat /\ Width(r)' \in Nat
        BY <2>11, FirstsHold, FirstsNext DEF FirstsInt, MInv
      <4>3. \A a \in Int, b \in Nat : a .. a + b * 0 - 1 = {}
        OBVIOUS
      <4> QED
        BY <4>1, <4>2, <4>3 DEF Pages
    <3> QED
      BY <3>1, <3>2
  <2>17. Rank(pc) > Rank("map_kernel") /\ Rank(pc') > Rank("map_kernel") /\ pc' # "map_kernel"
         /\ Rank(pc) > Rank("kernel_table") /\ Rank(pc') > Rank("kernel_table")
         /\ Rank(pc) > Rank("bootloader_table") /\ Rank(pc') > Rank("bootloader_table")
         /\ ~InNukleus /\ ~InNukleus' /\ ~KernelEntered /\ ~KernelEntered'
    <3>1. Rank("map_kernel") = 4 /\ Rank("kernel_table") = 2 /\ Rank("bootloader_table") = 1
      BY DEF Rank
    <3> QED
      BY <2>1, <2>5, <3>1 DEF InNukleus, KernelEntered
  <2>18. DomInv'
    <3>1. unmapped_kernel_pages' = unmapped_kernel_pages
      BY <1>1, <2>10 DEF unmapped_kernel_pages
    <3> QED
      BY <1>1, <2>10, <2>16, <2>17, <3>1 DEF MInv, DomInv
  <2>19. ShowInv'
    <3>1. \A r \in ShownSteps : Pages(r) # {} => First(r)' = First(r) /\ FirstFrame(r)' = FirstFrame(r)
      <4>1. \A r \in ShownSteps : FirstFrame(r)' = FirstFrame(r) /\ r \in MapSteps
        BY <1>1, <2>9, RankFacts DEF FirstFrame, ShownSteps
      <4>2. \A r \in MapSteps : Done(r) = 0 => Pages(r) = {}
        <5>1. \A r \in MapSteps : First(r) \in Int /\ Width(r) \in Nat
          BY FirstsHold DEF FirstsInt, MInv
        <5>2. \A a \in Int, b \in Nat : a .. a + b * 0 - 1 = {}
          OBVIOUS
        <5> QED
          BY <5>1, <5>2 DEF Pages
      <4> QED
        BY <2>13, <2>14, <4>1, <4>2
    <3>2. ASSUME NEW r \in ShownSteps, NEW p \in Pages(r)'
          PROVE  mapped'["kernel"][p] = FirstFrame(r)' + (p - First(r)')
      <4>1. p \in Pages(r) /\ r \in MapSteps
        BY <2>16, RankFacts
      <4>2. mapped["kernel"][p] = FirstFrame(r) + (p - First(r))
        BY <4>1 DEF MInv, ShowInv
      <4> QED
        BY <1>1, <3>1, <4>1, <4>2
    <3> QED
      BY <1>1, <3>2 DEF MInv, ShowInv
  <2>20. BootInv'
    <3>1. LoaderDone = 0 /\ LoaderDone' = 0
      <4>1. Rank("map_boot_info_again") = 18
        BY DEF Rank
      <4>2. ~(Rank(pc) > 18) /\ ~(Rank(pc') > 18)
        BY <2>1, <2>5
      <4>3. pc \notin {"map_boot_info", "map_boot_info_again"}
        BY <2>5 DEF MapSteps
      <4> QED
        BY <2>1, <2>5, <4>1, <4>2, <4>3 DEF LoaderDone
    <3>2. First("map_boot_info") \in Int /\ First("map_boot_info")' \in Int
      BY <2>11, FirstsHold, FirstsNext DEF FirstsInt, MInv, MapSteps
    <3>3. \A a \in Int : a .. a + 0 - 1 = {}
      OBVIOUS
    <3>4. DOMAIN mapped["bootloader"] = {}
      BY <3>1, <3>2, <3>3 DEF MInv, BootInv
    <3>5. ~(Rank(pc) > Rank("write_boot_info")) /\ ~(Rank(pc') > Rank("write_boot_info"))
      <4>1. Rank("write_boot_info") = 19
        BY DEF Rank
      <4> QED
        BY <2>1, <2>5, <4>1
    <3>6. boot_info' = None
      BY <1>1, <3>5 DEF MInv, BootInv
    <3> QED
      BY <1>1, <3>1, <3>2, <3>3, <3>4, <3>5, <3>6 DEF BootInv
  <2>21. \A t \in Things : placed_entries[t] \subseteq placed_entries'[t]
    <3>1. \A t \in Things : t # thing => placed_entries'[t] = placed_entries[t]
      BY <2>4, <2>9, <2>10 DEF placed_entries
    <3>2. placed_entries[thing] = {}
      BY <2>8 DEF placed_entries
    <3> QED
      BY <3>1, <3>2
  <2>22. TableInv'
    <3>1. PageEntries \subseteq PageEntries'
      BY <2>21 DEF PageEntries
    <3> QED
      BY <1>1, <2>9, <2>17, <3>1 DEF MInv, TableInv
  <2>23. SupplyInv'
    BY <1>1, <2>9, <2>17 DEF MInv, SupplyInv
  <2>24. own_pages' \cap DOMAIN mapped'["kernel"] = own_pages \cap DOMAIN mapped["kernel"]
    <3>1. own_pages' = StillPages' \cup Pages("init_heap")' /\ own_pages = StillPages \cup Pages("init_heap")
      BY <2>12, OwnPages, OwnPagesNext DEF MInv, OwnSplit
    <3>2. Pages("init_heap")' = Pages("init_heap")
      BY <2>16 DEF MapSteps
    <3>3. StillFree'
      BY <2>11, <2>12, <2>18, StillFreeNext
    <3>4. AreaPagesFacts'
      BY <2>11, AreaPagesNext
    <3>5. ASSUME NEW p \in AllPages(next)' PROVE p \notin DOMAIN mapped["kernel"]
      <4>1. p >= First(next)' + Width(next)' * loop'
        <5>1. First(next)' \in Int /\ Width(next)' \in Nat
          BY <2>5, <2>11, FirstsNext DEF FirstsInt
        <5>2. p \in First(next)' .. First(next)' + Width(next)' * Count(next)' - 1
          BY DEF AllPages
        <5>3. Width(next)' * 0 = 0
          BY <5>1
        <5> QED
          BY <2>1, <5>1, <5>2, <5>3
      <4> QED
        BY <1>1, <2>1, <2>5, <3>3, <4>1 DEF StillFree
    <3>6. CASE thing \notin {"stack", "boot_info"}
      <4>1. at'["stack"] = at["stack"] /\ at'["boot_info"] = at["boot_info"]
        BY <2>4, <3>6 DEF Things
      <4>2. StillPages' = StillPages
        BY <2>9, <2>10, <4>1 DEF StillPages, PlacedPages, stack_start
      <4> QED
        BY <1>1, <3>1, <3>2, <4>2
    <3>7. CASE thing = "stack"
      <4>1. at'["boot_info"] = at["boot_info"] /\ at["stack"] = NoAddress /\ at'["stack"] # NoAddress /\ next = "map_stack"
        BY <2>2, <2>4, <2>8, <3>7 DEF Things, next, MapOf
      <4>2. StillPages' = StillPages \cup AllPages("map_stack")'
        <5>1. PlacedPages("stack", stack_start, STACK_SIZE)' = AllPages("map_stack")'
          BY <3>4, <4>1 DEF PlacedPages, AreaPagesFacts
        <5>2. PlacedPages("stack", stack_start, STACK_SIZE) = {}
          BY <4>1 DEF PlacedPages
        <5>3. PlacedPages("boot_info", at["boot_info"], boot_info_size)' = PlacedPages("boot_info", at["boot_info"], boot_info_size)
          BY <2>9, <4>1 DEF PlacedPages
        <5> QED
          BY <2>9, <2>10, <5>1, <5>2, <5>3 DEF StillPages
      <4> QED
        BY <1>1, <3>1, <3>2, <3>5, <4>1, <4>2
    <3>8. CASE thing = "boot_info"
      <4>1. at'["stack"] = at["stack"] /\ at["boot_info"] = NoAddress /\ at'["boot_info"] # NoAddress /\ next = "map_boot_info"
        BY <2>2, <2>4, <2>8, <3>8 DEF Things, next, MapOf
      <4>2. StillPages' = StillPages \cup AllPages("map_boot_info")'
        <5>1. PlacedPages("boot_info", at["boot_info"], boot_info_size)' = AllPages("map_boot_info")'
          BY <3>4, <4>1 DEF PlacedPages, AreaPagesFacts
        <5>2. PlacedPages("boot_info", at["boot_info"], boot_info_size) = {}
          BY <4>1 DEF PlacedPages
        <5>3. PlacedPages("stack", stack_start, STACK_SIZE)' = PlacedPages("stack", stack_start, STACK_SIZE)
          BY <2>9, <4>1 DEF PlacedPages, stack_start
        <5> QED
          BY <2>9, <2>10, <5>1, <5>2, <5>3 DEF StillPages
      <4> QED
        BY <1>1, <3>1, <3>2, <3>5, <4>1, <4>2
    <3> QED
      BY <3>6, <3>7, <3>8
  <2>25. UsersInv'
    <3>1. UNCHANGED <<machine, supply, tables, mapped, gdtr>> /\ (KernelEntered' <=> KernelEntered) /\ (InNukleus' <=> InNukleus)
      BY <1>1, <2>17
    <3> QED
      BY <2>24, <3>1, UsersSame DEF MInv
  <2> QED
    BY <2>11, <2>12, <2>18, <2>19, <2>20, <2>22, <2>23, <2>25 DEF MInv
<1> QED
  BY <1>2, <1>3

LEMMA PlaceSteps ==
  ASSUME RefInv, RefInv', LayoutInv, LayoutInv', MInv,
         \/ PlaceStack \/ PlaceFramebuffer \/ PlaceRamdisk \/ PlacePhysicalMemory \/ PlaceBootInfo
  PROVE  MInv'
<1>1. /\ PAGE_SIZE + STACK_SIZE \in Nat /\ Memory.max_phys \in Nat /\ boot_info_size \in Nat
      /\ (Framebuffer # None => Framebuffer.byte_len \in Nat)
      /\ (Ramdisk # None => Ramdisk.len \in Nat)
  BY SizeFacts, MachineFacts, PagingAssumption DEF RefInv
<1>2. PICK t \in Things \ {"kernel"} : /\ At(t) /\ Present(t) /\ size_of(t) \in Nat
                                       /\ place(t, size_of(t), MapOf(t))
  <2>1. CASE PlaceStack
    <3>1. "stack" \in Things \ {"kernel"} /\ At("stack") /\ Present("stack") /\ size_of("stack") \in Nat
          /\ place("stack", size_of("stack"), MapOf("stack"))
      BY <1>1, <2>1 DEF PlaceStack, Things, Present, size_of, MapOf
    <3> QED
      BY <3>1
  <2>2. CASE PlaceFramebuffer
    <3>1. "framebuffer" \in Things \ {"kernel"} /\ At("framebuffer") /\ Present("framebuffer")
          /\ size_of("framebuffer") \in Nat /\ place("framebuffer", size_of("framebuffer"), MapOf("framebuffer"))
      BY <1>1, <2>2 DEF PlaceFramebuffer, Things, Present, size_of, MapOf
    <3> QED
      BY <3>1
  <2>3. CASE PlaceRamdisk
    <3>1. "ramdisk" \in Things \ {"kernel"} /\ At("ramdisk") /\ Present("ramdisk")
          /\ size_of("ramdisk") \in Nat /\ place("ramdisk", size_of("ramdisk"), MapOf("ramdisk"))
      BY <1>1, <2>3 DEF PlaceRamdisk, Things, Present, size_of, MapOf
    <3> QED
      BY <3>1
  <2>4. CASE PlacePhysicalMemory
    <3>1. "physical_memory" \in Things \ {"kernel"} /\ At("physical_memory") /\ Present("physical_memory")
          /\ size_of("physical_memory") \in Nat
          /\ place("physical_memory", size_of("physical_memory"), MapOf("physical_memory"))
      BY <1>1, <2>4 DEF PlacePhysicalMemory, Things, Present, size_of, MapOf
    <3> QED
      BY <3>1
  <2>5. CASE PlaceBootInfo
    <3>1. "boot_info" \in Things \ {"kernel"} /\ At("boot_info") /\ Present("boot_info")
          /\ size_of("boot_info") \in Nat /\ place("boot_info", size_of("boot_info"), MapOf("boot_info"))
      BY <1>1, <2>5 DEF PlaceBootInfo, Things, Present, size_of, MapOf
    <3> QED
      BY <3>1
  <2> QED
    BY <2>1, <2>2, <2>3, <2>4, <2>5
<1> QED
  BY <1>2, PlaceKeeps DEF At

-----------------------------------------------------------------------------
(***************************************************************************)
(* Steps that map nothing and place nothing.                               *)
(***************************************************************************)
LEMMA MovesOn ==
  ASSUME RefInv, RefInv', MInv, UNCHANGED <<machine, supply, tables, mapped, at, gdtr>>, LoopInv', AtInv', BootInv',
         \A r \in MapSteps : Done(r)' = Done(r),
         Rank(pc) > Rank("map_kernel"), pc' # "map_kernel", Rank(pc') > Rank("kernel_table"), ~InNukleus,
         KernelEntered => KernelEntered'
  PROVE  /\ DomInv' /\ ShowInv' /\ TableInv' /\ SupplyInv' /\ UsersInv'
<1>1. \A r \in MapSteps : Pages(r)' = Pages(r) /\ First(r)' = First(r) /\ FirstFrame(r)' = FirstFrame(r)
  BY Same DEF Pages
<1>2. kernel_pages' = kernel_pages /\ unmapped_kernel_pages' = unmapped_kernel_pages
      /\ PageEntries' = PageEntries /\ Memory' = Memory
  BY Same DEF unmapped_kernel_pages
<1>3. Rank(pc) > Rank("kernel_table")
  <2>1. Rank("kernel_table") = 2 /\ Rank("map_kernel") = 4
    BY DEF Rank
  <2>2. Rank(pc) \in Int
    BY RankFacts DEF RefInv
  <2> QED
    BY <2>1, <2>2
<1>4. Rank(pc) > Rank("bootloader_table")
  <2>1. Rank("bootloader_table") = 1 /\ Rank("map_kernel") = 4
    BY DEF Rank
  <2>2. Rank(pc) \in Int
    BY RankFacts DEF RefInv
  <2> QED
    BY <2>1, <2>2
<1>5. DomInv'
  BY <1>1, <1>2 DEF MInv, DomInv
<1>6. ShowInv'
  <2>1. ShownSteps \subseteq MapSteps
    BY RankFacts
  <2> QED
    BY <1>1, <2>1 DEF MInv, ShowInv
<1>7. TableInv'
  BY <1>2, <1>3, <1>4 DEF MInv, TableInv
<1>8. SupplyInv'
  BY <1>2 DEF MInv, SupplyInv
<1>9. own_pages' \cap DOMAIN mapped'["kernel"] = own_pages \cap DOMAIN mapped["kernel"]
  <2>1. own_pages' = StillPages' \cup Pages("init_heap")' /\ own_pages = StillPages \cup Pages("init_heap")
    BY OwnPages, OwnPagesNext DEF MInv, OwnSplit
  <2>2. StillPages' = StillPages
    BY Same DEF StillPages, PlacedPages
  <2>3. Pages("init_heap")' = Pages("init_heap")
    BY <1>1 DEF MapSteps
  <2> QED
    BY <2>1, <2>2, <2>3
<1>10. UsersInv'
  BY <1>9, UsersSame DEF MInv
<1> QED
  BY <1>5, <1>6, <1>7, <1>8, <1>10

\* What AtInv says of the order of the steps.
LEMMA MovesOnAt ==
  ASSUME RefInv, AtInv, UNCHANGED <<machine, at, gdtr>>, Rank(pc') > Rank(pc), Rank(pc) > Rank("bootloader_table"),
         \A t \in Things : Present(t) => (Rank(pc') > Rank(t) <=> Rank(pc) > Rank(t)),
         Rank(pc') > Rank("gdt") <=> Rank(pc) > Rank("gdt")
  PROVE  AtInv'
<1>1. \A t : Present(t)' = Present(t)
  BY Same
<1> QED
  BY <1>1 DEF AtInv, Framebuffer, Kernel

LEMMA SkipSteps ==
  ASSUME RefInv, RefInv', MInv, NoFramebuffer \/ NoRamdisk
  PROVE  MInv'
<1>1. /\ \/ pc = "framebuffer" /\ Framebuffer = None /\ pc' = "ramdisk"
         \/ pc = "ramdisk" /\ Ramdisk = None /\ pc' = "physical_memory"
      /\ loop' = 0 /\ UNCHANGED <<machine, supply, tables, mapped, at, gdtr, boot_info>>
  BY DEF NoFramebuffer, NoRamdisk, At, Skip, Goto
<1>2. /\ Rank("framebuffer") = 10 /\ Rank("ramdisk") = 12 /\ Rank("physical_memory") = 14
      /\ Rank("bootloader_table") = 1 /\ Rank("kernel_table") = 2 /\ Rank("map_kernel") = 4 /\ Rank("gdt") = 8
      /\ Rank("kernel") = 3 /\ Rank("stack") = 5 /\ Rank("boot_info") = 16 /\ Rank("map_boot_info_again") = 18
      /\ Rank("write_boot_info") = 19
  BY DEF Rank
<1>3. LoopInv'
  BY <1>1 DEF LoopInv, MapSteps
<1>4. AtInv'
  <2>1. \A t \in Things : Present(t) => (Rank(pc') > Rank(t) <=> Rank(pc) > Rank(t))
    BY <1>1, <1>2 DEF Things, Present
  <2> QED
    BY <1>1, <1>2, <2>1, MovesOnAt DEF MInv
<1>5. \A r \in MapSteps : Done(r)' = Done(r)
  <2>1. \A r \in MapSteps : Count(r)' = Count(r)
    BY <1>1, Same
  <2>2. pc \notin MapSteps /\ pc' \notin MapSteps /\ pc # "map_boot_info_again" /\ pc' # "map_boot_info_again"
    BY <1>1 DEF MapSteps
  <2>3. (Framebuffer = None => Count("map_framebuffer") = 0) /\ (Ramdisk = None => Count("map_ramdisk") = 0)
    BY DEF Count
  <2>4. ASSUME NEW r \in MapSteps
        PROVE  \/ Rank(pc') > Rank(r) <=> Rank(pc) > Rank(r)
               \/ Count(r) = 0
    <3>1. CASE r \in {"map_framebuffer", "map_ramdisk"}
      <4>1. Rank("map_framebuffer") = 11 /\ Rank("map_ramdisk") = 13
        BY DEF Rank
      <4> QED
        BY <1>1, <1>2, <2>3, <3>1, <4>1
    <3>2. CASE r \notin {"map_framebuffer", "map_ramdisk"}
      <4>1. Rank(r) \in {6, 7, 9, 15, 17, 22}
        BY <3>2 DEF MapSteps, Rank
      <4> QED
        BY <1>1, <1>2, <4>1
    <3> QED
      BY <3>1, <3>2
  <2> QED
    BY <2>1, <2>2, <2>4 DEF Done
<1>6. BootInv'
  <2>1. LoaderDone' = LoaderDone
    BY <1>1, <1>2 DEF LoaderDone
  <2> QED
    BY <1>1, <1>2, <2>1, BootInvKept DEF MInv
<1>7. ~InNukleus /\ ~KernelEntered
  BY <1>1 DEF InNukleus, KernelEntered
<1>8. Rank(pc) > Rank("map_kernel") /\ pc' # "map_kernel" /\ Rank(pc') > Rank("kernel_table")
  BY <1>1, <1>2
<1> QED
  BY <1>1, <1>3, <1>4, <1>5, <1>6, <1>7, <1>8, MovesOn DEF MInv

LEMMA HandoffSteps ==
  ASSUME RefInv, RefInv', MInv, WriteBootInfo \/ context_switch
  PROVE  MInv'
<1>1. UNCHANGED <<machine, supply, tables, mapped, at, gdtr>>
  BY DEF WriteBootInfo, context_switch
<1>2. \/ UNCHANGED <<pc, loop, boot_info>>
      \/ /\ pc = "write_boot_info" /\ pc' = "switch" /\ loop' = 0
         /\ boot_info' = [framebuffer            |-> at["framebuffer"],
                          physical_memory_offset |-> at["physical_memory"],
                          ramdisk_address        |-> at["ramdisk"],
                          ramdisk_len            |-> IF Ramdisk = None THEN 0 ELSE Ramdisk.len]
      \/ pc = "switch" /\ pc' = "kernel_main" /\ loop' = 0 /\ UNCHANGED boot_info
  BY DEF WriteBootInfo, context_switch, At, Goto
<1>3. CASE UNCHANGED <<pc, loop, boot_info>>
  BY <1>1, <1>3, Kept
<1>4. CASE ~UNCHANGED <<pc, loop, boot_info>>
  <2>1. /\ pc \in {"write_boot_info", "switch"} /\ pc' \in {"switch", "kernel_main"} /\ loop' = 0
        /\ Rank(pc) \in {19, 20} /\ Rank(pc') \in {20, 21} /\ Rank(pc') > Rank(pc)
    BY <1>2, <1>4 DEF Rank
  <2>2. /\ Rank("bootloader_table") = 1 /\ Rank("kernel_table") = 2 /\ Rank("map_kernel") = 4 /\ Rank("gdt") = 8
        /\ Rank("map_boot_info_again") = 18 /\ Rank("write_boot_info") = 19
    BY DEF Rank
  <2>3. LoopInv'
    BY <2>1 DEF LoopInv, MapSteps
  <2>4. AtInv'
    <3>1. \A t \in Things : Rank(t) \in {3, 5, 10, 12, 14, 16}
      BY DEF Things, Rank
    <3> QED
      BY <1>1, <2>1, <2>2, <3>1, MovesOnAt DEF MInv
  <2>5. \A r \in MapSteps : Done(r)' = Done(r)
    <3>1. \A r \in MapSteps : Count(r)' = Count(r)
      BY <1>1, Same
    <3>2. pc \notin MapSteps /\ pc' \notin MapSteps /\ pc # "map_boot_info_again" /\ pc' # "map_boot_info_again"
      BY <2>1 DEF MapSteps
    <3>3. \A r \in MapSteps : Rank(r) \in {6, 7, 9, 11, 13, 15, 17, 22}
      BY DEF MapSteps, Rank
    <3> QED
      BY <2>1, <3>1, <3>2, <3>3 DEF Done
  <2>6. BootInv'
    <3>1. LoaderDone' = LoaderDone /\ First("map_boot_info")' = First("map_boot_info")
      <4>1. Count("map_boot_info")' = Count("map_boot_info") /\ First("map_boot_info")' = First("map_boot_info")
        BY <1>1, Same
      <4> QED
        BY <2>1, <2>2, <4>1 DEF LoaderDone
    <3>2. Ramdisk' = Ramdisk
      BY <1>1 DEF Ramdisk
    <3>3. CASE pc = "write_boot_info"
      <4>1. Rank(pc') > Rank("write_boot_info")
        BY <2>1, <2>2, <3>3
      <4> QED
        BY <1>1, <1>2, <1>4, <3>1, <3>2, <3>3, <4>1 DEF MInv, BootInv
    <3>4. CASE pc = "switch"
      <4>1. Rank(pc') > Rank("write_boot_info") /\ Rank(pc) > Rank("write_boot_info")
        BY <2>1, <2>2, <3>4 DEF Rank
      <4> QED
        BY <1>1, <1>2, <1>4, <3>1, <3>2, <3>4, <4>1 DEF MInv, BootInv
    <3> QED
      BY <2>1, <3>3, <3>4
  <2>7. ~InNukleus /\ ~KernelEntered /\ pc' # "map_kernel"
    BY <2>1 DEF InNukleus, KernelEntered
  <2>8. Rank(pc) > Rank("map_kernel") /\ Rank(pc') > Rank("kernel_table")
    BY <2>1, <2>2
  <2> QED
    BY <1>1, <2>3, <2>4, <2>5, <2>6, <2>7, <2>8, MovesOn DEF MInv
<1> QED
  BY <1>3, <1>4

\* nukleus starts to allocate: its frames are none that initium was granted.
LEMMA KernelMainStep ==
  ASSUME RefInv, RefInv', MInv, KernelMain
  PROVE  MInv'
<1> DEFINE k == Len(Memory.free) - Len(supply)
<1>1. pc = "kernel_main" /\ UNCHANGED <<machine, tables, mapped, at, gdtr, boot_info>>
  BY DEF KernelMain, At
<1>2. CASE UNCHANGED <<pc, loop, supply>>
  BY <1>1, <1>2, Kept
<1>3. CASE ~UNCHANGED <<pc, loop, supply>>
  <2>1. supply' = usable_after(Memory, k) /\ pc' = "init_heap" /\ loop' = 0
    BY <1>3 DEF KernelMain, Goto
  <2>2. Rank(pc) = 21 /\ Rank(pc') = 22 /\ ~InNukleus /\ InNukleus' /\ KernelEntered /\ KernelEntered'
    BY <1>1, <2>1 DEF Rank, InNukleus, KernelEntered
  <2>3. /\ Rank("bootloader_table") = 1 /\ Rank("kernel_table") = 2 /\ Rank("map_kernel") = 4 /\ Rank("gdt") = 8
        /\ Rank("map_boot_info_again") = 18 /\ Rank("write_boot_info") = 19
    BY DEF Rank
  <2>4. LoopInv'
    <3>1. Count("init_heap")' = Count("init_heap") /\ Count("init_heap") \in Nat \ {0}
      BY <1>1, Same, HeapArea DEF AreaOK
    <3> QED
      BY <2>1, <3>1 DEF LoopInv, MapSteps
  <2>5. AtInv'
    <3>1. \A t \in Things : Rank(t) \in {3, 5, 10, 12, 14, 16}
      BY DEF Things, Rank
    <3> QED
      BY <1>1, <2>2, <2>3, <3>1, MovesOnAt DEF MInv
  <2>6. \A r \in MapSteps : Done(r)' = Done(r)
    <3>1. \A r \in MapSteps : Count(r)' = Count(r)
      BY <1>1, Same
    <3>2. pc \notin MapSteps /\ pc # "map_boot_info_again" /\ pc' # "map_boot_info_again" /\ pc' = "init_heap"
      BY <1>1, <2>1 DEF MapSteps
    <3>3. \A r \in MapSteps : r # "init_heap" => Rank(r) \in {6, 7, 9, 11, 13, 15, 17}
      BY DEF MapSteps, Rank
    <3>4. \A r \in MapSteps : r # "init_heap" => Done(r)' = Done(r)
      BY <2>2, <3>1, <3>2, <3>3 DEF Done
    <3>5. Done("init_heap")' = 0 /\ Done("init_heap") = 0
      <4>1. Rank("init_heap") = 22
        BY DEF Rank
      <4> QED
        BY <1>1, <2>1, <2>2, <4>1 DEF Done
    <3> QED
      BY <3>4, <3>5
  <2>7. BootInv'
    <3>1. LoaderDone' = LoaderDone
      <4>1. Count("map_boot_info")' = Count("map_boot_info")
        BY <1>1, Same
      <4> QED
        BY <1>1, <2>1, <2>2, <2>3, <4>1 DEF LoaderDone
    <3> QED
      BY <1>1, <2>2, <2>3, <3>1, BootInvKept DEF MInv
  <2>8. \A r \in MapSteps : Pages(r)' = Pages(r) /\ First(r)' = First(r) /\ FirstFrame(r)' = FirstFrame(r)
    BY <1>1, <2>6, Same DEF Pages
  <2>9. kernel_pages' = kernel_pages /\ unmapped_kernel_pages' = unmapped_kernel_pages /\ Memory' = Memory
    BY <1>1, Same DEF unmapped_kernel_pages
  <2>10. DomInv'
    BY <1>1, <2>1, <2>2, <2>3, <2>8, <2>9 DEF MInv, DomInv
  <2>11. ShowInv'
    <3>1. ShownSteps \subseteq MapSteps
      BY RankFacts
    <3> QED
      BY <1>1, <2>8, <3>1 DEF MInv, ShowInv
  <2>12. TableInv'
    BY <1>1, <2>2, <2>3, <2>9 DEF MInv, TableInv
  <2>13. WellReported(Memory, k) /\ k \in 0 .. Len(Memory.free)
    <3>1. Memory \in {m.memory : m \in Machines}
      BY DEF RefInv, Memory
    <3>2. Len(supply) \in Nat /\ Len(Memory.free) \in Nat /\ Len(supply) <= Len(Memory.free)
      BY <2>2, MachineFacts DEF MInv, SupplyInv, RefInv
    <3>3. k \in 0 .. Len(Memory.free)
      BY <3>2
    <3> QED
      BY <3>1, <3>3, ReportAssumption
  <2>14. /\ supply' \in Seq(frames_of(Memory))
         /\ \A i \in 1 .. Len(supply') : \A j \in 1 .. i - 1 : supply'[i] # supply'[j]
         /\ \A i \in 1 .. Len(supply'), j \in 1 .. k : supply'[i] # Memory.free[j]
    BY <2>1, <2>13 DEF WellReported
  <2>15. SupplyInv'
    BY <2>2, <2>9, <2>14 DEF SupplyInv
  <2>16. own_pages' = own_pages
    <3>1. own_pages' = StillPages' \cup Pages("init_heap")' /\ own_pages = StillPages \cup Pages("init_heap")
      BY <2>4, OwnPages, OwnPagesNext DEF MInv, OwnSplit
    <3>2. StillPages' = StillPages
      BY <1>1, Same DEF StillPages, PlacedPages
    <3>3. Pages("init_heap")' = Pages("init_heap")
      BY <2>8 DEF MapSteps
    <3> QED
      BY <3>1, <3>2, <3>3
  <2>17. \A u \in Users' : u \in Users /\ u # <<"code">> /\ frame_of(u)' = frame_of(u)
    <3>1. \A u : frame_of(u)' = frame_of(u)
      BY <1>1 DEF frame_of
    <3>2. \A u \in Users' : u \in Users /\ u # <<"code">>
      <4> SUFFICES ASSUME NEW u \in Users' PROVE u \in Users /\ u # <<"code">>
        OBVIOUS
      <4>1. \/ \E s \in Spaces : \E t \in DOMAIN tables[s] : u = <<"table", s, t>>
            \/ \E p \in own_pages \cap DOMAIN mapped["kernel"] : u = <<"page", p>>
            \/ u = <<"gdt">> /\ gdtr # NoAddress
        BY <1>1, <2>2, <2>16, UserCasesNext DEF UserFacts
      <4> QED
        BY <4>1, UserCases DEF UserFacts
    <3> QED
      BY <3>1, <3>2
  <2>18. UsersInv'
    <3>1. \A u \in Users' : \A i \in 1 .. Len(supply') : supply'[i] # frame_of(u)'
      <4> SUFFICES ASSUME NEW u \in Users', NEW i \in 1 .. Len(supply') PROVE supply'[i] # frame_of(u)'
        OBVIOUS
      <4>1. PICK j \in 1 .. k : frame_of(u) = Memory.free[j]
        BY <2>2, <2>17 DEF MInv, UsersInv
      <4> QED
        BY <2>14, <2>17, <4>1
    <3> QED
      BY <2>2, <2>17, <3>1 DEF MInv, UsersInv
  <2> QED
    BY <2>4, <2>5, <2>7, <2>10, <2>11, <2>12, <2>15, <2>18 DEF MInv
<1> QED
  BY <1>2, <1>3

-----------------------------------------------------------------------------
(***************************************************************************)
(* The first steps, before a loop has mapped a page.                       *)
(***************************************************************************)
FirstSteps == {"bootloader_table", "kernel_table", "kernel", "map_kernel", "stack"}

NoneDone == pc \in FirstSteps =>
  /\ \A r \in MapSteps : Done(r) = 0 /\ Pages(r) = {}
  /\ LoaderDone = 0 /\ ~(Rank(pc) > Rank("write_boot_info")) /\ ~(Rank(pc) > Rank("gdt"))
  /\ ~InNukleus /\ ~KernelEntered /\ pc \notin MapSteps /\ pc # "map_boot_info_again"

LEMMA NoneDoneHolds == RefInv /\ AtInv => NoneDone
<1> SUFFICES ASSUME RefInv, AtInv, pc \in FirstSteps
             PROVE  /\ \A r \in MapSteps : Done(r) = 0 /\ Pages(r) = {}
                    /\ LoaderDone = 0 /\ ~(Rank(pc) > Rank("write_boot_info")) /\ ~(Rank(pc) > Rank("gdt"))
                    /\ ~InNukleus /\ ~KernelEntered /\ pc \notin MapSteps /\ pc # "map_boot_info_again"
  BY DEF NoneDone
<1>1. Rank(pc) \in 1 .. 5
  BY DEF FirstSteps, Rank
<1>2. \A r \in MapSteps : Rank(r) \in {6, 7, 9, 11, 13, 15, 17, 22}
  BY DEF MapSteps, Rank
<1>3. Rank("write_boot_info") = 19 /\ Rank("gdt") = 8 /\ Rank("map_boot_info_again") = 18
  BY DEF Rank
<1>4. ~InNukleus /\ ~KernelEntered /\ pc \notin MapSteps /\ pc # "map_boot_info_again" /\ pc # "map_boot_info"
  BY DEF InNukleus, KernelEntered, FirstSteps, MapSteps
<1>5. \A r \in MapSteps : Done(r) = 0
  BY <1>1, <1>2, <1>4 DEF Done
<1>6. \A r \in MapSteps : Pages(r) = {}
  <2>1. \A r \in MapSteps : First(r) \in Int /\ Width(r) \in Nat
    BY FirstsHold DEF FirstsInt
  <2>2. \A a \in Int, b \in Nat : a .. a + b * 0 - 1 = {}
    OBVIOUS
  <2> QED
    BY <1>5, <2>1, <2>2 DEF Pages
<1>7. LoaderDone = 0
  BY <1>1, <1>3, <1>4 DEF LoaderDone
<1> QED
  BY <1>1, <1>3, <1>4, <1>5, <1>6, <1>7

LEMMA NoneDoneNext == RefInv' /\ AtInv' => NoneDone'
BY NoneDoneHolds, PTL

\* Until the kernel is placed nothing is mapped, and until its table is made it has none.
EarlyInv ==
  /\ pc = "bootloader_table" => DOMAIN tables["bootloader"] = {}
  /\ pc \in {"bootloader_table", "kernel_table"} => DOMAIN tables["kernel"] = {}

LEMMA NothingMapped ==
  ASSUME RefInv, MInv, pc \in {"bootloader_table", "kernel_table", "kernel"}
  PROVE  DOMAIN mapped["kernel"] = {} /\ DOMAIN mapped["bootloader"] = {} /\ boot_info = None
<1>1. NoneDone /\ pc \in FirstSteps
  BY NoneDoneHolds DEF MInv, FirstSteps
<1>2. at["kernel"] = NoAddress
  <2>1. Rank(pc) \in 1 .. 3 /\ Rank("kernel") = 3 /\ "kernel" \in Things
    BY DEF Rank, Things
  <2> QED
    BY <2>1 DEF MInv, AtInv
<1>3. DOMAIN mapped["kernel"] = {}
  BY <1>1, <1>2 DEF MInv, DomInv, NoneDone
<1>4. First("map_boot_info") \in Int
  BY FirstsHold DEF FirstsInt, MInv, MapSteps
<1>5. \A a \in Int : a .. a + 0 - 1 = {}
  OBVIOUS
<1> QED
  BY <1>1, <1>3, <1>4, <1>5 DEF NoneDone, MInv, BootInv

LEMMA InitInv == Init => RefInv /\ MInv /\ EarlyInv
<1> SUFFICES ASSUME Init PROVE RefInv /\ MInv /\ EarlyInv
  OBVIOUS
<1>1. RefInv
  BY InitRefines
<1>2. /\ pc = "bootloader_table" /\ loop = 0 /\ supply = Memory.free /\ gdtr = NoAddress /\ boot_info = None
      /\ tables = [s \in Spaces |-> <<>>] /\ mapped = [s \in Spaces |-> <<>>] /\ at = [t \in Things |-> NoAddress]
  BY DEF Init
<1>3. Rank(pc) = 1 /\ pc \in FirstSteps /\ pc \notin MapSteps /\ pc # "map_boot_info_again" /\ pc # "map_kernel"
  BY <1>2 DEF Rank, FirstSteps, MapSteps
<1>4. LoopInv
  BY <1>2, <1>3 DEF LoopInv
<1>5. \A t \in Things : at[t] = NoAddress
  BY <1>2
<1>6. /\ Rank("bootloader_table") = 1 /\ Rank("kernel_table") = 2 /\ Rank("map_kernel") = 4 /\ Rank("gdt") = 8
  BY DEF Rank
<1>7. AtInv
  <2>1. \A t \in Things : Rank(t) \in {3, 5, 10, 12, 14, 16}
    BY DEF Things, Rank
  <2>2. "framebuffer" \in Things
    BY DEF Things
  <2> QED
    BY <1>2, <1>3, <1>5, <1>6, <2>1, <2>2 DEF AtInv
<1>8. NoneDone
  BY <1>1, <1>7, NoneDoneHolds
<1>9. DOMAIN mapped["kernel"] = {} /\ DOMAIN mapped["bootloader"] = {}
      /\ DOMAIN tables["kernel"] = {} /\ DOMAIN tables["bootloader"] = {}
      /\ DOMAIN mapped = Spaces /\ DOMAIN tables = Spaces /\ \A s \in Spaces : DOMAIN tables[s] = {}
  BY <1>2 DEF Spaces
<1>10. DomInv
  BY <1>3, <1>6, <1>8, <1>9, FS_EmptySet DEF DomInv, NoneDone
<1>11. ShowInv
  <2>1. ShownSteps \subseteq MapSteps
    BY RankFacts
  <2> QED
    BY <1>3, <1>8, <1>9, <2>1 DEF ShowInv, NoneDone
<1>12. BootInv
  <2>1. First("map_boot_info") \in Int
    BY <1>1, <1>7, FirstsHold DEF FirstsInt, MapSteps
  <2>2. \A a \in Int : a .. a + 0 - 1 = {}
    OBVIOUS
  <2> QED
    BY <1>2, <1>3, <1>8, <1>9, <2>1, <2>2 DEF BootInv, NoneDone
<1>13. TableInv
  BY <1>3, <1>6, <1>9, FS_EmptySet DEF TableInv
<1>14. SupplyInv
  <2>1. /\ Memory.free \in Seq(frames_of(Memory)) /\ Len(Memory.free) \in Nat
        /\ frames_of(Memory) \subseteq Nat
        /\ \A i \in 1 .. Len(Memory.free) : \A j \in 1 .. i - 1 : Memory.free[j] < Memory.free[i]
    BY <1>1, MachineFacts DEF RefInv
  <2>2. \A i \in 1 .. Len(Memory.free) : Memory.free[i] \in Nat
    BY <2>1
  <2>3. \A i \in 1 .. Len(Memory.free) : \A j \in 1 .. i - 1 : Memory.free[i] # Memory.free[j]
    <3> SUFFICES ASSUME NEW i \in 1 .. Len(Memory.free), NEW j \in 1 .. i - 1 PROVE Memory.free[i] # Memory.free[j]
      OBVIOUS
    <3>1. j \in 1 .. Len(Memory.free)
      BY <2>1
    <3> QED
      BY <2>1, <2>2, <3>1
  <2>4. \A i \in 1 .. Len(Memory.free) : Len(Memory.free) - Len(Memory.free) + i = i
    BY <2>1
  <2> QED
    BY <1>2, <2>1, <2>3, <2>4 DEF SupplyInv
<1>15. UsersInv
  <2>1. \A u \in Users : u = <<"code">>
    <3> SUFFICES ASSUME NEW u \in Users PROVE u = <<"code">>
      OBVIOUS
    <3>1. \/ \E s \in Spaces : \E t \in DOMAIN tables[s] : u = <<"table", s, t>>
          \/ \E p \in own_pages \cap DOMAIN mapped["kernel"] : u = <<"page", p>>
          \/ u = <<"gdt">> /\ gdtr # NoAddress
          \/ u = <<"code">>
      BY UserCases DEF UserFacts
    <3> QED
      BY <1>2, <1>9, <3>1
  <2>2. \A i \in 1 .. Len(supply) : supply[i] # machine.code
    BY <1>1, <1>2, MachineFacts DEF RefInv
  <2> QED
    BY <2>1, <2>2, FrameCases DEF UsersInv
<1>16. EarlyInv
  BY <1>9 DEF EarlyInv
<1> QED
  BY <1>1, <1>4, <1>7, <1>10, <1>11, <1>12, <1>13, <1>14, <1>15, <1>16 DEF MInv

-----------------------------------------------------------------------------
(***************************************************************************)
(* A step that takes one frame for a table of level 4 or for the GDT.      *)
(***************************************************************************)
LEMMA HeadGranted ==
  ASSUME RefInv, SupplyInv, supply # <<>>
  PROVE  /\ Head(supply) = supply[1] /\ supply[1] \in frames_of(Memory) /\ supply[1] \in Nat
         /\ 1 \in 0 .. Len(supply) /\ Len(supply) \in Nat
         /\ Tail(supply) = SubSeq(supply, 1 + 1, Len(supply))
<1>1. supply \in Seq(frames_of(Memory)) /\ frames_of(Memory) \subseteq Nat
  BY MachineFacts DEF SupplyInv, RefInv
<1>2. Len(supply) \in Nat \ {0}
  BY <1>1
<1>3. Tail(supply) = SubSeq(supply, 1 + 1, Len(supply))
  BY <1>1, <1>2
<1> QED
  BY <1>1, <1>2, <1>3

LEMMA UsersOne ==
  ASSUME RefInv, SupplyInv, UsersInv, UNCHANGED machine, InNukleus' <=> InNukleus,
         supply # <<>>, supply' = Tail(supply), NEW x, x \notin Users, frame_of(x)' = Head(supply),
         \A u \in Users' : u = x \/ (u \in Users /\ frame_of(u)' = frame_of(u))
  PROVE  SupplyInv' /\ UsersInv'
<1>1. /\ 1 \in 0 .. Len(supply) /\ supply' = SubSeq(supply, 1 + 1, Len(supply)) /\ frame_of(x)' = supply[1]
  BY HeadGranted
<1>2. \A u \in Users' : IF u \in Users THEN frame_of(u)' = frame_of(u)
                        ELSE \E i \in 1 .. 1 : frame_of(u)' = supply[i]
  BY <1>1
<1>3. \A u, v \in Users' : u \notin Users /\ v \notin Users /\ frame_of(u)' = frame_of(v)' => u = v
  OBVIOUS
<1> QED
  BY <1>1, <1>2, <1>3, UsersGranted

LEMMA TableSteps ==
  ASSUME RefInv, RefInv', MInv, EarlyInv, CreateBootloaderTable \/ CreateKernelTable
  PROVE  MInv' /\ EarlyInv'
<1>1. PICK space \in Spaces : \E next :
        /\ failure = None /\ NewLevel4Table(space, next)
        /\ \/ space = "bootloader" /\ pc = "bootloader_table" /\ next = "kernel_table"
           \/ space = "kernel" /\ pc = "kernel_table" /\ next = "kernel"
  <2>1. CASE CreateBootloaderTable
    BY <2>1 DEF CreateBootloaderTable, At, Spaces
  <2>2. CASE CreateKernelTable
    BY <2>2 DEF CreateKernelTable, At, Spaces
  <2> QED
    BY <2>1, <2>2
<1>2. PICK next : /\ NewLevel4Table(space, next)
                  /\ \/ space = "bootloader" /\ pc = "bootloader_table" /\ next = "kernel_table"
                     \/ space = "kernel" /\ pc = "kernel_table" /\ next = "kernel"
  BY <1>1
<1>3. UNCHANGED <<machine, mapped, at, gdtr, boot_info>>
  BY <1>2 DEF NewLevel4Table
<1>4. CASE failure' # None
  <2>1. UNCHANGED <<tables, supply, pc, loop>>
    BY <1>2, <1>4 DEF NewLevel4Table
  <2>2. EarlyInv'
    BY <2>1 DEF EarlyInv
  <2> QED
    BY <1>3, <2>1, <2>2, Kept
<1>5. CASE failure' = None
  <2>1. /\ tables' = [tables EXCEPT ![space] = [t \in {<<4, 0>>} |-> Head(supply)]]
        /\ supply' = Tail(supply) /\ pc' = next /\ loop' = 0
    BY <1>2, <1>5 DEF NewLevel4Table, Goto
  <2>2. /\ supply # <<>> /\ accessible(Head(supply))
        /\ (space = "bootloader" => ~(machine.code >= EntryPages))
    <3>1. None # "no_frame" /\ None # "fault"
      BY NoneAssumption DEF Failures
    <3> QED
      BY <1>2, <1>5, <3>1 DEF NewLevel4Table, loader_frames
  <2>3. /\ Rank("bootloader_table") = 1 /\ Rank("kernel_table") = 2 /\ Rank("kernel") = 3
        /\ Rank("map_kernel") = 4 /\ Rank("gdt") = 8
    BY DEF Rank
  <2>4. /\ pc \in FirstSteps /\ pc' \in FirstSteps /\ pc' # "map_kernel" /\ pc \in {"bootloader_table", "kernel_table", "kernel"}
        /\ Rank(pc) \in 1 .. 2 /\ Rank(pc') = Rank(pc) + 1 /\ pc' \in {"kernel_table", "kernel"}
    BY <1>2, <2>1, <2>3 DEF FirstSteps
  <2>5. machine.code < EntryPages /\ machine.code \in Nat
    <3>1. machine.code \in Nat /\ EntryPages \in Nat
      BY MachineFacts, Paging DEF RefInv
    <3>2. CASE space = "bootloader"
      BY <2>2, <3>1, <3>2
    <3>3. CASE space # "bootloader"
      <4>1. Rank(pc) > Rank("bootloader_table")
        BY <1>2, <2>3, <3>3
      <4> QED
        BY <3>1, <4>1 DEF MInv, AtInv
    <3> QED
      BY <3>2, <3>3
  <2>6. AtInv'
    <3>1. \A t \in Things : Rank(t) \in {3, 5, 10, 12, 14, 16}
      BY DEF Things, Rank
    <3>2. \A t \in Things : ~(Rank(pc) > Rank(t)) /\ ~(Rank(pc') > Rank(t))
      BY <2>4, <3>1
    <3>3. \A t \in Things : at[t] = NoAddress
      BY <3>2 DEF MInv, AtInv
    <3>4. "framebuffer" \in Things
      BY DEF Things
    <3>5. ~(Rank(pc) > Rank("gdt")) /\ ~(Rank(pc') > Rank("gdt"))
      BY <2>3, <2>4
    <3>6. gdtr = NoAddress
      BY <3>5 DEF MInv, AtInv
    <3> QED
      BY <1>3, <2>5, <3>2, <3>3, <3>4, <3>5, <3>6 DEF AtInv
  <2>7. NoneDone' /\ NoneDone
    BY <2>6, NoneDoneHolds, NoneDoneNext DEF MInv
  <2>8. LoopInv'
    BY <2>1, <2>4, <2>7 DEF LoopInv, NoneDone
  <2>9. DOMAIN mapped["kernel"] = {} /\ DOMAIN mapped["bootloader"] = {} /\ boot_info = None
    BY <2>4, NothingMapped
  <2>10. DomInv'
    <3>1. ~(Rank(pc') > Rank("map_kernel"))
      BY <2>3, <2>4
    <3> QED
      BY <1>3, <2>4, <2>7, <2>9, <3>1 DEF MInv, DomInv, NoneDone
  <2>11. ShowInv'
    <3>1. ShownSteps \subseteq MapSteps
      BY RankFacts
    <3> QED
      BY <1>3, <2>4, <2>7, <2>9, <3>1 DEF ShowInv, NoneDone
  <2>12. BootInv'
    <3>1. First("map_boot_info")' \in Int
      BY <2>6, FirstsNext DEF FirstsInt, MapSteps
    <3>2. \A a \in Int : a .. a + 0 - 1 = {}
      OBVIOUS
    <3> QED
      BY <1>3, <2>4, <2>7, <2>9, <3>1, <3>2 DEF BootInv, NoneDone
  <2>13. /\ Head(supply) = supply[1] /\ supply[1] \in frames_of(Memory) /\ supply[1] \in Nat /\ Len(supply) \in Nat
         /\ 1 \in 0 .. Len(supply)
    BY <2>2, HeadGranted DEF MInv
  <2>14. /\ DOMAIN tables' = Spaces /\ DOMAIN tables'[space] = {<<4, 0>>} /\ tables'[space][<<4, 0>>] = supply[1]
         /\ \A s \in Spaces \ {space} : tables'[s] = tables[s]
         /\ DOMAIN tables[space] = {} /\ DOMAIN tables["kernel"] = {}
    BY <1>2, <2>1, <2>13 DEF MInv, TableInv, EarlyInv
  <2>15. Memory' = Memory
    BY <1>3 DEF Memory
  <2>16. own_pages' \cap DOMAIN mapped'["kernel"] = {}
    BY <1>3, <2>9
  <2>17. SupplyInv' /\ UsersInv'
    <3> DEFINE x == <<"table", space, <<4, 0>>>>
    <3>1. x \notin Users
      <4>1. ASSUME x \in Users PROVE FALSE
        <5>1. \/ \E s \in Spaces : \E t \in DOMAIN tables[s] : x = <<"table", s, t>>
              \/ \E p \in own_pages \cap DOMAIN mapped["kernel"] : x = <<"page", p>>
              \/ x = <<"gdt">>
              \/ x = <<"code">>
          BY <4>1, UserCases DEF UserFacts
        <5>2. PICK s \in Spaces : \E t \in DOMAIN tables[s] : x = <<"table", s, t>>
          BY <5>1
        <5> QED
          BY <2>14, <5>2
      <4> QED
        BY <4>1
    <3>2. frame_of(x)' = Head(supply)
      BY <2>13, <2>14, FrameCases
    <3>3. \A u \in Users' : u = x \/ (u \in Users /\ frame_of(u)' = frame_of(u))
      <4> SUFFICES ASSUME NEW u \in Users', u # x PROVE u \in Users /\ frame_of(u)' = frame_of(u)
        OBVIOUS
      <4>1. \/ \E s \in Spaces : \E t \in DOMAIN tables'[s] : u = <<"table", s, t>>
            \/ u = <<"gdt">> /\ gdtr' # NoAddress
            \/ u = <<"code">> /\ ~KernelEntered'
        BY <2>16, UserCasesNext DEF UserFacts
      <4>2. CASE \E s \in Spaces : \E t \in DOMAIN tables'[s] : u = <<"table", s, t>>
        <5>0. PICK s \in Spaces : \E t \in DOMAIN tables'[s] : u = <<"table", s, t>>
          BY <4>2
        <5>1. PICK t \in DOMAIN tables'[s] : u = <<"table", s, t>>
          BY <5>0
        <5>2. s # space
          BY <2>14, <5>1
        <5>3. tables'[s] = tables[s]
          BY <2>14, <5>2
        <5> QED
          BY <5>1, <5>3, UserCases, FrameCases DEF UserFacts
      <4>3. CASE ~\E s \in Spaces : \E t \in DOMAIN tables'[s] : u = <<"table", s, t>>
        <5>1. ~KernelEntered
          BY <2>4, <2>7 DEF NoneDone
        <5> QED
          BY <1>3, <4>1, <4>3, <5>1, UserCases, FrameCases DEF UserFacts
      <4> QED
        BY <4>2, <4>3
    <3>4. ~InNukleus /\ ~InNukleus'
      BY <2>4, <2>7 DEF NoneDone
    <3> HIDE DEF x
    <3> QED
      BY <1>3, <2>1, <2>2, <3>1, <3>2, <3>3, <3>4, UsersOne DEF MInv
  <2>18. Rank(pc') > Rank("kernel_table") => \A s \in Spaces : \A t \in DOMAIN tables'[s] : tables'[s][t] < EntryPages
    <3> SUFFICES ASSUME Rank(pc') > Rank("kernel_table"), NEW s \in Spaces, NEW t \in DOMAIN tables'[s]
                 PROVE  tables'[s][t] < EntryPages
      OBVIOUS
    <3>1. space = "kernel" /\ pc = "kernel_table"
      BY <1>2, <2>1, <2>3
    <3>2. supply[1] < EntryPages
      BY <2>2, <2>13, <3>1 DEF accessible
    <3>3. CASE s = space
      BY <2>14, <3>2, <3>3
    <3>4. CASE s # space
      <4> DEFINE u == <<"table", s, t>>
                 k == Len(Memory.free) - Len(supply)
      <4>1. tables'[s] = tables[s] /\ t \in DOMAIN tables[s]
        BY <2>14, <3>4
      <4>2. u \in Users /\ frame_of(u) = tables[s][t] /\ u # <<"code">>
        BY <4>1, UserCases, FrameCases DEF UserFacts
      <4>3. ~InNukleus
        BY <2>4, <2>7 DEF NoneDone
      <4>4. PICK i \in 1 .. k : tables[s][t] = Memory.free[i]
        BY <4>2, <4>3 DEF MInv, UsersInv
      <4>5. /\ Len(Memory.free) \in Nat /\ Len(supply) <= Len(Memory.free) /\ supply[1] = Memory.free[k + 1]
        BY <2>13, <4>3, MachineFacts DEF MInv, SupplyInv, RefInv
      <4>6. k + 1 \in 1 .. Len(Memory.free) /\ i \in 1 .. (k + 1) - 1
        BY <2>13, <4>4, <4>5
      <4>7. Memory.free[i] < Memory.free[k + 1]
        BY <4>6, MachineFacts DEF RefInv
      <4>8. Memory.free[i] \in Nat /\ EntryPages \in Nat
        <5>1. i \in 1 .. Len(Memory.free)
          BY <4>5, <4>6
        <5> QED
          BY <5>1, MachineFacts, Paging DEF RefInv
      <4> HIDE DEF k
      <4> QED
        BY <2>13, <3>2, <4>1, <4>4, <4>5, <4>7, <4>8
    <3> QED
      BY <3>3, <3>4
  <2>19. TableInv'
    <3>1. Rank(pc') > Rank("bootloader_table") => <<4, 0>> \in DOMAIN tables'["bootloader"]
      <4>1. CASE space = "bootloader"
        BY <2>14, <4>1
      <4>2. CASE space = "kernel"
        <5>1. Rank(pc) > Rank("bootloader_table") /\ tables'["bootloader"] = tables["bootloader"]
          BY <1>2, <2>3, <2>14, <4>2 DEF Spaces
        <5> QED
          BY <5>1 DEF MInv, TableInv
      <4> QED
        BY <4>1, <4>2 DEF Spaces
    <3>2. Rank(pc') > Rank("kernel_table") => <<4, 0>> \in DOMAIN tables'["kernel"]
      BY <1>2, <2>1, <2>3, <2>14
    <3>3. \A s \in Spaces : IsFiniteSet(DOMAIN tables'[s])
      <4>1. IsFiniteSet({<<4, 0>>})
        BY FS_Singleton
      <4>2. \A s \in Spaces \ {space} : IsFiniteSet(DOMAIN tables'[s])
        BY <2>14 DEF MInv, TableInv
      <4> QED
        BY <2>14, <4>1, <4>2
    <3>4. \A s \in Spaces : \A t \in DOMAIN tables'[s] : t \in (1 .. 4) \X Nat /\ tables'[s][t] \in frames_of(Memory)
      BY <2>13, <2>14 DEF MInv, TableInv
    <3>5. \A t \in DOMAIN tables'["kernel"] : t[1] # 1
      BY <2>14 DEF Spaces
    <3> QED
      BY <2>14, <2>15, <2>18, <3>1, <3>2, <3>3, <3>4, <3>5 DEF TableInv
  <2>20. EarlyInv'
    BY <1>2, <2>1, <2>14 DEF EarlyInv, Spaces
  <2> QED
    BY <2>6, <2>8, <2>10, <2>11, <2>12, <2>17, <2>19, <2>20 DEF MInv
<1> QED
  BY <1>4, <1>5

LEMMA GdtStep ==
  ASSUME RefInv, RefInv', MInv, create_and_load
  PROVE  MInv'
<1>1. pc = "gdt" /\ UNCHANGED <<machine, tables, mapped, at, boot_info>>
  BY DEF create_and_load, At
<1>2. CASE failure' # None
  <2>1. UNCHANGED <<gdtr, supply, pc, loop>>
    BY <1>2 DEF create_and_load
  <2> QED
    BY <1>1, <2>1, Kept
<1>3. CASE failure' = None
  <2>1. gdtr' = Head(supply) /\ supply' = Tail(supply) /\ pc' = "map_gdt" /\ loop' = 0
    BY <1>3 DEF create_and_load, Goto
  <2>2. supply # <<>> /\ accessible(Head(supply))
    <3>1. None # "no_frame" /\ None # "fault"
      BY NoneAssumption DEF Failures
    <3> QED
      BY <1>3, <3>1 DEF create_and_load
  <2>3. Head(supply) = supply[1] /\ supply[1] \in Nat /\ supply[1] < EntryPages
    <3>1. Head(supply) = supply[1] /\ supply[1] \in Nat
      BY <2>2, HeadGranted DEF MInv
    <3> QED
      BY <1>1, <2>2, <3>1 DEF accessible
  <2>4. Rank(pc) = 8 /\ Rank(pc') = 9 /\ ~InNukleus /\ ~InNukleus' /\ ~KernelEntered /\ ~KernelEntered'
        /\ pc \notin MapSteps /\ pc # "map_boot_info_again" /\ pc' # "map_boot_info_again"
    BY <1>1, <2>1 DEF Rank, InNukleus, KernelEntered, MapSteps
  <2>5. /\ Rank("bootloader_table") = 1 /\ Rank("kernel_table") = 2 /\ Rank("map_kernel") = 4 /\ Rank("gdt") = 8
        /\ Rank("map_boot_info_again") = 18 /\ Rank("write_boot_info") = 19 /\ Rank("map_gdt") = 9
    BY DEF Rank
  <2>6. \A t \in Things : Rank(t) \in {3, 5, 10, 12, 14, 16}
    BY DEF Things, Rank
  <2>7. AtInv'
    <3>1. /\ \A t : Present(t)' = Present(t)
          /\ Kernel' = Kernel /\ Framebuffer' = Framebuffer
      BY <1>1 DEF Present, Kernel, Framebuffer, Ramdisk
    <3>2. \A t \in Things : Rank(pc') > Rank(t) <=> Rank(pc) > Rank(t)
      BY <2>4, <2>6
    <3>3. gdtr' \in 0 .. EntryPages - 1
      BY <2>1, <2>3, Paging
    <3>4. machine'.code < EntryPages
      BY <1>1, <2>4, <2>5 DEF MInv, AtInv
    <3> QED
      BY <1>1, <2>4, <2>5, <3>1, <3>2, <3>3, <3>4 DEF MInv, AtInv
  <2>8. gdtr = NoAddress
    BY <2>4, <2>5 DEF MInv, AtInv
  <2>9. LoopInv'
    <3>1. Count("map_gdt")' = 1
      BY DEF Count
    <3> QED
      BY <2>1, <3>1 DEF LoopInv, MapSteps
  <2>10. \A r \in MapSteps : r # "map_gdt" =>
           First(r)' = First(r) /\ Count(r)' = Count(r) /\ FirstFrame(r)' = FirstFrame(r)
    <3>1. /\ Framebuffer' = Framebuffer /\ Ramdisk' = Ramdisk /\ Memory' = Memory
          /\ boot_info_size' = boot_info_size /\ framebuffer_frames' = framebuffer_frames
          /\ ramdisk_page_count' = ramdisk_page_count /\ huge_frames' = huge_frames
          /\ stack_start' = stack_start /\ stack_top' = stack_top
      BY <1>1 DEF Memory, Framebuffer, Ramdisk, boot_info_size, framebuffer_frames, ramdisk_page_count, huge_frames,
                  stack_start, stack_top
    <3> QED
      BY <1>1, <3>1 DEF First, Count, MapSteps, FirstFrame
  <2>11. Done("map_gdt") = 0 /\ Done("map_gdt")' = 0
    BY <2>1, <2>4, <2>5 DEF Done
  <2>12. \A r \in MapSteps : r # "map_gdt" => Done(r)' = Done(r)
    <3>1. \A r \in MapSteps : r # "map_gdt" => Rank(r) \in {6, 7, 11, 13, 15, 17, 22}
      BY DEF MapSteps, Rank
    <3> QED
      BY <2>1, <2>4, <2>10, <3>1 DEF Done
  <2>13. Pages("map_gdt") = {} /\ Pages("map_gdt")' = {}
    <3>1. "map_gdt" \in MapSteps
      BY DEF MapSteps
    <3>2. First("map_gdt") \in Int /\ First("map_gdt")' \in Int /\ Width("map_gdt") \in Nat /\ Width("map_gdt")' \in Nat
      BY <2>7, <3>1, FirstsHold, FirstsNext DEF FirstsInt, MInv
    <3>3. \A a \in Int, b \in Nat : a .. a + b * 0 - 1 = {}
      OBVIOUS
    <3> QED
      BY <2>11, <3>2, <3>3 DEF Pages
  <2>14. \A r \in MapSteps : Pages(r)' = Pages(r)
    <3>1. \A r \in MapSteps : r # "map_gdt" => Pages(r)' = Pages(r)
      BY <2>10, <2>12 DEF Pages
    <3> QED
      BY <2>13, <3>1
  <2>15. Memory' = Memory /\ Kernel' = Kernel /\ kernel_pages' = kernel_pages /\ unmapped_kernel_pages' = unmapped_kernel_pages
         /\ placed_entries' = placed_entries /\ boot_info_size' = boot_info_size /\ stack_start' = stack_start
    BY <1>1 DEF Memory, Kernel, kernel_pages, segment_pages, unmapped_kernel_pages, image_offset, placed_entries, size_of,
                Framebuffer, Ramdisk, boot_info_size, stack_start
  <2>16. DomInv'
    BY <1>1, <2>1, <2>4, <2>5, <2>14, <2>15 DEF MInv, DomInv
  <2>17. ShowInv'
    <3>1. ShownSteps \subseteq MapSteps
      BY RankFacts
    <3>2. \A r \in ShownSteps : r # "map_gdt" => \A p \in Pages(r)' : mapped'["kernel"][p] = FirstFrame(r)' + (p - First(r)')
      BY <1>1, <2>10, <2>14, <3>1 DEF MInv, ShowInv
    <3> QED
      BY <1>1, <2>13, <3>2 DEF MInv, ShowInv
  <2>18. BootInv'
    <3>1. LoaderDone' = 0 /\ LoaderDone = 0 /\ First("map_boot_info")' = First("map_boot_info")
      BY <1>1, <2>1, <2>4, <2>5, <2>10 DEF LoaderDone, MapSteps
    <3>2. ~(Rank(pc) > Rank("write_boot_info")) /\ ~(Rank(pc') > Rank("write_boot_info"))
      BY <2>4, <2>5
    <3>3. boot_info' = None
      BY <1>1, <3>2 DEF MInv, BootInv
    <3>4. DOMAIN mapped'["bootloader"] = First("map_boot_info")' .. First("map_boot_info")' + LoaderDone' - 1
      BY <1>1, <3>1 DEF MInv, BootInv
    <3>5. \A p \in DOMAIN mapped'["bootloader"] : mapped'["bootloader"][p] = mapped'["kernel"][p]
      BY <1>1 DEF MInv, BootInv
    <3> QED
      BY <3>2, <3>3, <3>4, <3>5 DEF BootInv
  <2>19. TableInv'
    <3>1. PageEntries' = PageEntries
      BY <2>15 DEF PageEntries
    <3> QED
      BY <1>1, <2>4, <2>5, <2>15, <3>1 DEF MInv, TableInv
  <2>20. own_pages' = own_pages
    <3>1. own_pages' = StillPages' \cup Pages("init_heap")' /\ own_pages = StillPages \cup Pages("init_heap")
      BY <2>9, OwnPages, OwnPagesNext DEF MInv, OwnSplit
    <3>2. StillPages' = StillPages
      BY <1>1, <2>15 DEF StillPages, PlacedPages
    <3>3. Pages("init_heap")' = Pages("init_heap")
      BY <2>14 DEF MapSteps
    <3> QED
      BY <3>1, <3>2, <3>3
  <2>21. SupplyInv' /\ UsersInv'
    <3> DEFINE x == <<"gdt">>
    <3>1. x \notin Users
      BY <2>8, UserCases DEF UserFacts
    <3>2. frame_of(x)' = Head(supply)
      BY <2>1, FrameCases
    <3>3. \A u \in Users' : u = x \/ (u \in Users /\ frame_of(u)' = frame_of(u))
      <4> SUFFICES ASSUME NEW u \in Users', u # x PROVE u \in Users /\ frame_of(u)' = frame_of(u)
        OBVIOUS
      <4>1. \/ \E s \in Spaces : \E t \in DOMAIN tables[s] : u = <<"table", s, t>>
            \/ \E p \in own_pages \cap DOMAIN mapped["kernel"] : u = <<"page", p>>
            \/ u = <<"code">>
        BY <1>1, <2>20, UserCasesNext DEF UserFacts
      <4>2. u \in Users
        BY <2>4, <4>1, UserCases DEF UserFacts
      <4>3. frame_of(u)' = frame_of(u)
        BY <1>1, <4>1, FrameCases
      <4> QED
        BY <4>2, <4>3
    <3> HIDE DEF x
    <3> QED
      BY <1>1, <2>1, <2>2, <2>4, <3>1, <3>2, <3>3, UsersOne DEF MInv
  <2> QED
    BY <2>7, <2>9, <2>16, <2>17, <2>18, <2>19, <2>21 DEF MInv
<1> QED
  BY <1>2, <1>3

-----------------------------------------------------------------------------
(***************************************************************************)
(* Placing the kernel.                                                     *)
(***************************************************************************)
LEMMA SegmentsFound ==
  ASSUME RefInv, at["kernel"] \in Nat, Kernel.fixed => at["kernel"] = min_addr(Kernel.segments)
  PROVE  kernel_pages # {}
<1>1. PICK s \in Kernel.segments : s.virtual_addr \in Nat /\ s.mem_size \in Nat \ {0}
  BY MachinesAssumption DEF RefInv, WellFormed, WellFormedKernel, Kernel, HasSegments
<1>2. min_addr(Kernel.segments) \in Nat /\ min_addr(Kernel.segments) <= s.virtual_addr
  <2>1. HasSegments(Kernel.segments)
    BY MachinesAssumption DEF RefInv, WellFormed, WellFormedKernel, Kernel
  <2>2. \E a \in {u.virtual_addr : u \in Kernel.segments} : \A t \in Kernel.segments : a <= t.virtual_addr
    BY <2>1 DEF HasSegments
  <2>3. \A t \in Kernel.segments : min_addr(Kernel.segments) <= t.virtual_addr
    BY <2>2 DEF min_addr
  <2> QED
    BY <1>1, <2>3, KernelExtent DEF RefInv
<1> DEFINE a == image_offset + s.virtual_addr
           b == a + s.mem_size - 1
<1>3. a \in Nat /\ b \in Nat /\ a <= b
  <2>1. a \in Nat
    BY <1>1, <1>2 DEF image_offset
  <2> HIDE DEF a
  <2> QED
    BY <1>1, <2>1
<1>4. containing(a) \in Nat /\ containing(b) \in Nat /\ containing(a) <= containing(b)
  BY <1>3, PageOfAddress, PagesOrdered
<1>5. containing(a) \in pages_of(a, s.mem_size)
  BY <1>4 DEF pages_of
<1> QED
  BY <1>1, <1>5 DEF kernel_pages, segment_pages

Segments == (at["kernel"] \in Nat /\ (Kernel.fixed => at["kernel"] = min_addr(Kernel.segments))) => kernel_pages # {}

LEMMA SegmentsHold == RefInv => Segments
BY SegmentsFound DEF Segments

LEMMA SegmentsNext == RefInv' => Segments'
BY SegmentsHold, PTL

LEMMA PlaceKernelSteps ==
  ASSUME RefInv, RefInv', MInv, PlaceExecutable \/ PlaceSharedObject
  PROVE  MInv'
<1>1. pc = "kernel" /\ UNCHANGED <<machine, supply, tables, mapped, gdtr, boot_info>>
  BY DEF PlaceExecutable, PlaceSharedObject, At
<1>2. CASE UNCHANGED <<at, pc, loop>>
  BY <1>1, <1>2, Kept
<1>3. CASE ~UNCHANGED <<at, pc, loop>>
  <2>1. PICK addr \in Nat : /\ at' = [at EXCEPT !["kernel"] = addr] /\ pc' = "map_kernel" /\ loop' = 0
                            /\ IF Kernel.fixed THEN addr = min_addr(Kernel.segments)
                               ELSE \E e \in EntryIndex : addr = e * LEVEL_4_SIZE
    <3>1. CASE PlaceExecutable
      <4>1. min_addr(Kernel.segments) \in Nat
        BY KernelExtent DEF RefInv
      <4> QED
        BY <3>1, <4>1 DEF PlaceExecutable, Goto
    <3>2. CASE PlaceSharedObject
      <4> DEFINE size == max_addr(Kernel.segments) - min_addr(Kernel.segments)
                 a == get_free_address(entry_state, size)
      <4>1. /\ has_free_entries(entry_state, level_4_entries(size)) /\ ~Kernel.fixed
            /\ at' = [at EXCEPT !["kernel"] = a] /\ pc' = "map_kernel" /\ loop' = 0
        BY <1>3, <3>2 DEF PlaceSharedObject, Goto
      <4>2. size \in Nat
        BY KernelExtent DEF RefInv
      <4> HIDE DEF size
      <4>3. level_4_entries(size) \in Nat
        BY <4>2, EntriesAssumption DEF level_4_entries
      <4>4. get_free_entries(entry_state, level_4_entries(size)) \in EntryIndex
        BY <4>1, <4>3, LayoutAssumptions, EntriesOfThms, LayoutThms!WindowIsFree
      <4>5. a \in Nat /\ \E e \in EntryIndex : a = e * LEVEL_4_SIZE
        BY <4>1, <4>2, <4>4, FreeAddress DEF get_free_address
      <4> HIDE DEF a
      <4> QED
        BY <4>1, <4>5
    <3> QED
      BY <3>1, <3>2
  <2>2. at'["kernel"] = addr /\ \A t \in Things : t # "kernel" => at'[t] = at[t]
    BY <2>1 DEF RefInv, Things
  <2>3. /\ Memory' = Memory /\ Kernel' = Kernel /\ Framebuffer' = Framebuffer /\ Ramdisk' = Ramdisk
        /\ \A t : Present(t)' = Present(t) /\ size_of(t)' = size_of(t)
    BY <1>1 DEF Memory, Kernel, Framebuffer, Ramdisk, boot_info_size, Present, size_of
  <2>4. /\ Rank("bootloader_table") = 1 /\ Rank("kernel_table") = 2 /\ Rank("kernel") = 3
        /\ Rank("map_kernel") = 4 /\ Rank("gdt") = 8
    BY DEF Rank
  <2>5. pc \in FirstSteps /\ pc' \in FirstSteps /\ pc \in {"bootloader_table", "kernel_table", "kernel"}
    BY <1>1, <2>1 DEF FirstSteps
  <2>6. addr # NoAddress
    BY DEF NoAddress
  <2>7. AtInv'
    <3>1. ASSUME NEW t \in Things
          PROVE  /\ at'[t] # NoAddress <=> Rank(pc') > Rank(t) /\ Present(t)'
                 /\ at'[t] # NoAddress =>
                      IF t = "kernel" /\ Kernel'.fixed THEN at'[t] = min_addr(Kernel'.segments)
                      ELSE \E e \in EntryIndex : at'[t] = e * LEVEL_4_SIZE
      <4>1. CASE t = "kernel"
        <5>1. Rank(pc') > Rank(t) /\ Present(t)'
          BY <2>1, <2>4, <4>1 DEF Present
        <5> QED
          BY <2>1, <2>2, <2>3, <2>6, <4>1, <5>1
      <4>2. CASE t # "kernel"
        <5>1. Rank(t) \in {5, 10, 12, 14, 16}
          BY <4>2 DEF Things, Rank
        <5>2. ~(Rank(pc') > Rank(t)) /\ ~(Rank(pc) > Rank(t))
          BY <1>1, <2>1, <2>4, <5>1
        <5> QED
          BY <2>2, <4>2, <5>2 DEF MInv, AtInv
      <4> QED
        BY <4>1, <4>2
    <3>2. at'["framebuffer"] # NoAddress => Framebuffer'.byte_len > 0
      BY <2>2, <2>3 DEF MInv, AtInv, Things
    <3>3. IF Rank(pc') > Rank("gdt") THEN gdtr' \in 0 .. EntryPages - 1 ELSE gdtr' = NoAddress
      BY <1>1, <2>1, <2>4 DEF MInv, AtInv
    <3>4. machine'.code < EntryPages
      BY <1>1, <2>4 DEF MInv, AtInv
    <3> QED
      BY <3>1, <3>2, <3>3, <3>4 DEF AtInv
  <2>8. NoneDone /\ NoneDone'
    BY <2>7, NoneDoneHolds, NoneDoneNext DEF MInv
  <2>9. LoopInv'
    BY <2>1, <2>5, <2>8 DEF LoopInv, NoneDone
  <2>10. DOMAIN mapped["kernel"] = {} /\ DOMAIN mapped["bootloader"] = {} /\ boot_info = None
    BY <2>5, NothingMapped
  <2>11. DomInv'
    <3>1. kernel_pages' # {}
      BY <2>1, <2>2, <2>3, SegmentsNext DEF Segments
    <3>2. unmapped_kernel_pages' # {}
      BY <1>1, <2>10, <3>1 DEF unmapped_kernel_pages
    <3>3. ~(Rank(pc') > Rank("map_kernel"))
      BY <2>1, <2>4
    <3> QED
      BY <1>1, <2>5, <2>8, <2>10, <3>2, <3>3 DEF MInv, DomInv, NoneDone
  <2>12. ShowInv'
    <3>1. ShownSteps \subseteq MapSteps
      BY RankFacts
    <3> QED
      BY <1>1, <2>5, <2>8, <2>10, <3>1 DEF ShowInv, NoneDone
  <2>13. BootInv'
    <3>1. First("map_boot_info")' \in Int
      BY <2>7, FirstsNext DEF FirstsInt, MapSteps
    <3>2. \A a \in Int : a .. a + 0 - 1 = {}
      OBVIOUS
    <3> QED
      BY <1>1, <2>5, <2>8, <2>10, <3>1, <3>2 DEF BootInv, NoneDone
  <2>14. PageEntries \subseteq PageEntries'
    <3>1. \A t \in Things : t # "kernel" => placed_entries'[t] = placed_entries[t]
      BY <2>2, <2>3 DEF placed_entries
    <3>2. placed_entries["kernel"] = {}
      <4>1. ~(Rank(pc) > Rank("kernel")) /\ "kernel" \in Things
        BY <1>1, <2>4 DEF Things
      <4> QED
        BY <4>1 DEF placed_entries, MInv, AtInv
    <3> QED
      BY <3>1, <3>2 DEF PageEntries
  <2>15. TableInv'
    <3>1. ~InNukleus /\ ~InNukleus'
      BY <2>5, <2>8 DEF NoneDone
    <3> QED
      BY <1>1, <2>1, <2>3, <2>4, <2>14, <3>1 DEF MInv, TableInv
  <2>16. SupplyInv'
    BY <1>1, <2>3, <2>5, <2>8 DEF MInv, SupplyInv, NoneDone
  <2>17. UsersInv'
    BY <1>1, <2>5, <2>8, <2>10, UsersSame DEF MInv, NoneDone
  <2> QED
    BY <2>7, <2>9, <2>11, <2>12, <2>13, <2>15, <2>16, <2>17 DEF MInv
<1> QED
  BY <1>2, <1>3

-----------------------------------------------------------------------------
\* The two level-4 tables are made once.
LEMMA EarlyKept ==
  ASSUME EarlyInv, UNCHANGED tables, pc' \in {"bootloader_table", "kernel_table"} => pc' = pc
  PROVE  EarlyInv'
BY DEF EarlyInv

LEMMA NextInv == RefInv /\ LayoutInv /\ MInv /\ EarlyInv /\ [Next]_vars => MInv' /\ EarlyInv'
<1> SUFFICES ASSUME RefInv, LayoutInv, MInv, EarlyInv, [Next]_vars PROVE MInv' /\ EarlyInv'
  OBVIOUS
<1>1. RefInv' /\ LayoutInv'
  BY NextRefines, NextLayout
<1>2. CASE CreateBootloaderTable \/ CreateKernelTable
  BY <1>1, <1>2, TableSteps
<1>3. CASE UNCHANGED vars
  BY <1>3, Kept, EarlyKept DEF vars
<1>4. CASE Next /\ ~(CreateBootloaderTable \/ CreateKernelTable)
  <2>1. MInv'
    <3>1. CASE MapStackPage \/ IdentityMapCode \/ MapGdt \/ MapFramebufferPage
               \/ MapRamdiskPage \/ MapPhysicalMemoryPage \/ init_heap
      BY <1>1, <3>1, LoopSteps
    <3>2. CASE PlaceStack \/ PlaceFramebuffer \/ PlaceRamdisk \/ PlacePhysicalMemory \/ PlaceBootInfo
      BY <1>1, <3>2, PlaceSteps
    <3>3. CASE PlaceExecutable \/ PlaceSharedObject
      BY <1>1, <3>3, PlaceKernelSteps
    <3>4. CASE NoFramebuffer \/ NoRamdisk
      BY <1>1, <3>4, SkipSteps
    <3>5. CASE WriteBootInfo \/ context_switch
      BY <1>1, <3>5, HandoffSteps
    <3>6. CASE MapKernelPage
      BY <1>1, <3>6, KernelPageStep
    <3>7. CASE MapBootInfoKernel
      BY <1>1, <3>7, BootInfoKernelStep
    <3>8. CASE MapBootInfoBootloader
      BY <1>1, <3>8, BootInfoLoaderStep
    <3>9. CASE create_and_load
      BY <1>1, <3>9, GdtStep
    <3>10. CASE KernelMain
      BY <1>1, <3>10, KernelMainStep
    <3>11. CASE HeadersUnreadable \/ RefuseKernelPage
      BY <1>1, <3>11, Kept DEF HeadersUnreadable, RefuseKernelPage
    <3> QED
      BY <1>4, <3>1, <3>2, <3>3, <3>4, <3>5, <3>6, <3>7, <3>8, <3>9, <3>10, <3>11 DEF Next
  <2>2. pc \notin {"bootloader_table", "kernel_table"} /\ pc' \notin {"bootloader_table", "kernel_table"}
    BY <1>4
    DEF Next, At, Goto, Skip, EndIteration, place, HeadersUnreadable, PlaceExecutable, PlaceSharedObject,
        MapKernelPage, RefuseKernelPage, PlaceStack,
        MapStackPage, IdentityMapCode, create_and_load, MapGdt, PlaceFramebuffer, NoFramebuffer, MapFramebufferPage,
        PlaceRamdisk, NoRamdisk, MapRamdiskPage, PlacePhysicalMemory, MapPhysicalMemoryPage, PlaceBootInfo,
        MapBootInfoKernel, MapBootInfoBootloader, WriteBootInfo, context_switch, KernelMain, init_heap
  <2>3. EarlyInv'
    BY <2>2 DEF EarlyInv
  <2> QED
    BY <2>1, <2>3
<1> QED
  BY <1>2, <1>3, <1>4

\* The inductive invariant of the boot.
IInv == RefInv /\ LayoutInv /\ MInv /\ EarlyInv

(***************************************************************************)
(* The invariant holds at every step of set_up_mappings, create_boot_info, *)
(* the context switch and init_heap, for every machine.                    *)
(***************************************************************************)
THEOREM BootInvariant == Spec => []IInv
<1>1. Init => IInv
  BY InitInv, InitLayout DEF IInv
<1>2. IInv /\ [Next]_vars => IInv'
  BY NextRefines, NextLayout, NextInv DEF IInv
<1> QED
  BY <1>1, <1>2, PTL DEF Spec

-----------------------------------------------------------------------------
(***************************************************************************)
(* What the invariant gives: types and frames.                             *)
(***************************************************************************)
LEMMA MappedRange ==
  ASSUME IInv
  PROVE  /\ \A p \in DOMAIN mapped["kernel"] : p \in 0 .. NumEntries * EntryPages - 1 /\ mapped["kernel"][p] \in Nat
         /\ DOMAIN mapped["bootloader"] \subseteq DOMAIN mapped["kernel"]
<1>1. \A t \in Things : placed_entries[t] \subseteq EntryIndex
  BY LayoutFacts DEF IInv
<1>2. \A s \in MapSteps : Home(s) \subseteq EntryIndex
  <2>1. 0 \in EntryIndex /\ p4_index(HEAP_START) \in EntryIndex
    BY PagingAssumption, EntriesAssumption DEF EntryIndex
  <2> QED
    BY <1>1, <2>1 DEF Home, MapSteps, Things
<1>3. ASSUME NEW p \in Nat, p \div EntryPages \in EntryIndex PROVE p \in 0 .. NumEntries * EntryPages - 1
  <2> DEFINE q == p \div EntryPages
  <2>1. q \in Nat /\ p < EntryPages * q + EntryPages
    BY Paging, DivBounds
  <2>2. NumEntries \in Nat /\ NumEntries > q /\ EntryPages \in Nat \ {0}
    BY <1>3, Paging DEF EntryIndex
  <2> HIDE DEF q
  <2>3. EntryPages * NumEntries >= EntryPages * q + EntryPages
    BY <2>1, <2>2, TimesOrdered
  <2>4. EntryPages * NumEntries = NumEntries * EntryPages /\ NumEntries * EntryPages \in Nat /\ EntryPages * q \in Nat
    BY <2>1, <2>2
  <2> HIDE DEF EntryPages
  <2> QED
    BY <2>1, <2>2, <2>3, <2>4
<1>4. ASSUME NEW p \in DOMAIN mapped["kernel"] PROVE p \in Nat /\ p \div EntryPages \in EntryIndex
  <2>1. CASE at["kernel"] # NoAddress /\ p \in kernel_pages
    <3>1. Rank(pc) > Rank("kernel") /\ "kernel" \in Things
      BY <2>1 DEF IInv, MInv, AtInv, Things
    <3> QED
      BY <1>1, <2>1, <3>1, KernelArea DEF IInv, MInv
  <2>2. CASE \E s \in MapSteps : p \in Pages(s)
    <3>1. PICK s \in MapSteps : p \in Pages(s)
      BY <2>2
    <3> QED
      BY <1>2, <3>1, PageInArea DEF IInv, MInv
  <2> QED
    BY <2>1, <2>2 DEF IInv, MInv, DomInv
<1>5. DOMAIN mapped["bootloader"] \subseteq DOMAIN mapped["kernel"]
  <2> DEFINE s == "map_boot_info"
  <2>1. s \in MapSteps /\ Width(s) = 1
    BY DEF MapSteps, Width
  <2>2. First(s) \in Int /\ Done(s) \in Nat /\ LoaderDone \in Int /\ LoaderDone <= Done(s)
    <3>1. First(s) \in Int /\ Done(s) \in Nat /\ loop \in Nat
      BY <2>1, FirstInt, DoneBound DEF IInv, MInv, LoopInv
    <3>2. CASE pc = "map_boot_info" \/ pc = "map_boot_info_again"
      BY <3>1, <3>2 DEF LoaderDone, Done
    <3>3. CASE ~(pc = "map_boot_info" \/ pc = "map_boot_info_again")
      <4>1. Rank("map_boot_info") = 17 /\ Rank("map_boot_info_again") = 18
        BY DEF Rank
      <4>2. Rank(pc) \in Int
        BY RankFacts DEF IInv, RefInv
      <4>3. CASE Rank(pc) > 18
        <5>1. LoaderDone = Count(s) /\ Done(s) = Count(s)
          BY <3>3, <4>1, <4>2, <4>3 DEF LoaderDone, Done
        <5> QED
          BY <3>1, <5>1
      <4>4. CASE ~(Rank(pc) > 18)
        <5>1. LoaderDone = 0
          BY <3>3, <4>1, <4>4 DEF LoaderDone
        <5> QED
          BY <3>1, <5>1
      <4> QED
        BY <4>3, <4>4
    <3> QED
      BY <3>2, <3>3
  <2>3. First(s) .. First(s) + LoaderDone - 1 \subseteq First(s) .. First(s) + 1 * Done(s) - 1
    BY <2>2
  <2>4. Pages(s) \subseteq DOMAIN mapped["kernel"]
    BY <2>1 DEF IInv, MInv, DomInv
  <2>5. Pages(s) = First(s) .. First(s) + 1 * Done(s) - 1
    BY <2>1 DEF Pages
  <2>6. DOMAIN mapped["bootloader"] = First(s) .. First(s) + LoaderDone - 1
    BY DEF IInv, MInv, BootInv
  <2> HIDE DEF s
  <2> QED
    BY <2>3, <2>4, <2>5, <2>6
<1>6. \A p \in DOMAIN mapped["kernel"] : p \in 0 .. NumEntries * EntryPages - 1
  BY <1>3, <1>4
<1> QED
  BY <1>5, <1>6 DEF IInv, MInv, ShowInv

LEMMA InvTypeOK == IInv => TypeOK
<1> SUFFICES ASSUME IInv PROVE TypeOK
  OBVIOUS
<1>1. RefInv /\ MInv /\ LayoutInv
  BY DEF IInv
<1>2. WellFormed(machine) /\ frames_of(Memory) \subseteq Nat
  BY <1>1, MachineFacts DEF RefInv
<1>3. pc \in Steps /\ loop \in Nat /\ at \in [Things -> Nat \cup {NoAddress}] /\ failure \in Failures \cup {None}
  BY <1>1 DEF RefInv, MInv, LoopInv
<1>4. supply \in Seq(Nat)
  BY <1>1, <1>2 DEF MInv, SupplyInv
<1>5. \A s \in Spaces : \A t \in DOMAIN tables[s] : t \in (1 .. 4) \X Nat /\ tables[s][t] \in Nat
  BY <1>1, <1>2 DEF MInv, TableInv
<1>6. \A s \in Spaces : \A p \in DOMAIN mapped[s] : p \in 0 .. NumEntries * EntryPages - 1 /\ mapped[s][p] \in Nat
  <2>1. \A p \in DOMAIN mapped["bootloader"] : mapped["bootloader"][p] = mapped["kernel"][p]
    BY <1>1 DEF MInv, BootInv
  <2> QED
    BY <2>1, MappedRange DEF Spaces
<1>7. entry_state \in EntryState
  BY <1>1, LayoutFacts
<1>8. gdtr \in Nat \cup {NoAddress}
  BY <1>1, Paging DEF MInv, AtInv
<1>9. boot_info = None \/ pc \in {"switch", "kernel_main", "init_heap", "running"}
  <2>1. CASE Rank(pc) > Rank("write_boot_info")
    <3>1. Rank("write_boot_info") = 19
      BY DEF Rank
    <3>2. \A p \in Steps \ {"switch", "kernel_main", "init_heap", "running"} : Rank(p) \in 1 .. 19
      BY DEF Steps, Rank
    <3> QED
      BY <1>3, <2>1, <3>1, <3>2
  <2>2. CASE ~(Rank(pc) > Rank("write_boot_info"))
    BY <1>1, <2>2 DEF MInv, BootInv
  <2> QED
    BY <2>1, <2>2
<1> QED
  BY <1>2, <1>3, <1>4, <1>5, <1>6, <1>7, <1>8, <1>9 DEF TypeOK

LEMMA UsersFinite == ASSUME IInv PROVE IsFiniteSet(Users)
<1> DEFINE K == DOMAIN tables["kernel"]
           B == DOMAIN tables["bootloader"]
           D == DOMAIN mapped["kernel"]
           UK == {<<"table", "kernel", t>> : t \in K}
           UB == {<<"table", "bootloader", t>> : t \in B}
           UP == {<<"page", p>> : p \in D}
           UO == {<<"gdt">>, <<"code">>}
<1>1. IsFiniteSet(K) /\ IsFiniteSet(B) /\ IsFiniteSet(D)
  BY DEF IInv, MInv, TableInv, DomInv, Spaces
<1>2. IsFiniteSet(UK)
  <2>1. [t \in K |-> <<"table", "kernel", t>>] \in Surjection(K, UK)
    BY DEF Surjection
  <2> QED
    BY <1>1, <2>1, FS_Surjection
<1>3. IsFiniteSet(UB)
  <2>1. [t \in B |-> <<"table", "bootloader", t>>] \in Surjection(B, UB)
    BY DEF Surjection
  <2> QED
    BY <1>1, <2>1, FS_Surjection
<1>4. IsFiniteSet(UP)
  <2>1. [p \in D |-> <<"page", p>>] \in Surjection(D, UP)
    BY DEF Surjection
  <2> QED
    BY <1>1, <2>1, FS_Surjection
<1>5. IsFiniteSet(UO)
  <2>1. IsFiniteSet({<<"gdt">>}) /\ UO = {<<"gdt">>} \cup {<<"code">>}
    BY FS_Singleton
  <2> QED
    BY <2>1, FS_AddElement
<1>6. Users \subseteq UK \cup UB \cup UP \cup UO
  <2> SUFFICES ASSUME NEW u \in Users PROVE u \in UK \cup UB \cup UP \cup UO
    OBVIOUS
  <2>1. \/ \E s \in Spaces : \E t \in DOMAIN tables[s] : u = <<"table", s, t>>
        \/ \E p \in own_pages \cap DOMAIN mapped["kernel"] : u = <<"page", p>>
        \/ u = <<"gdt">>
        \/ u = <<"code">>
    BY UserCases DEF UserFacts
  <2> QED
    BY <2>1 DEF Spaces
<1> HIDE DEF K, B, D, UK, UB, UP, UO
<1>7. IsFiniteSet(UK \cup UB)
  BY <1>2, <1>3, FS_Union
<1>8. IsFiniteSet((UK \cup UB) \cup UP)
  BY <1>4, <1>7, FS_Union
<1>9. IsFiniteSet(((UK \cup UB) \cup UP) \cup UO)
  BY <1>5, <1>8, FS_Union
<1> QED
  BY <1>6, <1>9, FS_Subset

LEMMA InvFramesExclusive == IInv => FramesExclusive
<1> SUFFICES ASSUME IInv PROVE FramesExclusive
  OBVIOUS
<1> DEFINE T == {frame_of(u) : u \in Users}
           f == [u \in Users |-> frame_of(u)]
<1>1. \A u, v \in Users : frame_of(u) = frame_of(v) => u = v
  BY DEF IInv, MInv, UsersInv
<1>2. f \in Bijection(Users, T)
  <2>1. f \in [Users -> T] /\ \A u \in Users : f[u] = frame_of(u)
    OBVIOUS
  <2>2. f \in Injection(Users, T)
    <3> HIDE DEF f, T
    <3>1. \A u, v \in Users : f[u] = f[v] => u = v
      BY <1>1, <2>1
    <3> QED
      BY <2>1, <3>1 DEF Injection, IsInjective
  <2>3. f \in Surjection(Users, T)
    <3> HIDE DEF f
    <3> QED
      BY <2>1 DEF Surjection
  <2> QED
    BY <2>2, <2>3 DEF Bijection
<1>3. ExistsBijection(Users, T)
  BY <1>2 DEF ExistsBijection
<1>4. IsFiniteSet(Users)
  BY UsersFinite
<1> QED
  BY <1>3, <1>4, FS_Bijection DEF FramesExclusive

-----------------------------------------------------------------------------
(***************************************************************************)
(* The address space the kernel is entered with.                           *)
(***************************************************************************)
LEMMA DivAndRest ==
  ASSUME NEW b \in Nat \ {0}, NEW a \in Nat
  PROVE  a \div b \in Nat /\ a % b \in Nat /\ a = (a \div b) * b + (a % b) /\ a = b * (a \div b) + (a % b)
BY DivBounds

\* The page a number of bytes behind an address on a page boundary.
LEMMA PageBehind ==
  ASSUME NEW a \in Nat, a % PAGE_SIZE = 0, NEW x \in Nat
  PROVE  containing(a + x) = containing(a) + containing(x) /\ containing(x) \in Nat /\ containing(a) \in Nat
<1>1. PAGE_SIZE \in Nat \ {0} /\ a \div PAGE_SIZE \in Nat
  BY Paging, DivBounds
<1>2. a = (a \div PAGE_SIZE) * PAGE_SIZE
  BY <1>1
<1>3. ((a \div PAGE_SIZE) * PAGE_SIZE + x) \div PAGE_SIZE = a \div PAGE_SIZE + x \div PAGE_SIZE
  BY <1>1, DivOfSum
<1> QED
  BY <1>1, <1>2, <1>3, DivBounds DEF containing

Entered ==
  /\ \A s \in MapSteps \ {"init_heap"} :
       /\ Done(s) = Count(s) /\ Pages(s) = AllPages(s)
       /\ (s = "map_framebuffer" => Framebuffer # None) /\ (s = "map_ramdisk" => Ramdisk # None) => Ready(s) /\ AreaOK(s)
  /\ Pages("init_heap") \subseteq AllPages("init_heap")
  /\ LoaderDone = Count("map_boot_info")
  /\ \A t \in Things : at[t] # NoAddress <=> Present(t)
  /\ Rank(pc) > Rank("kernel") /\ unmapped_kernel_pages = {}
  /\ boot_info = [framebuffer            |-> at["framebuffer"],
                  physical_memory_offset |-> at["physical_memory"],
                  ramdisk_address        |-> at["ramdisk"],
                  ramdisk_len            |-> IF Ramdisk = None THEN 0 ELSE Ramdisk.len]

\* Once initium has written BootInfo every loop of it is done.
LEMMA EnteredHolds ==
  ASSUME IInv, pc \in {"switch", "kernel_main", "init_heap", "running"}
  PROVE  Entered
<1>1. Rank(pc) \in 20 .. 23
  BY DEF Rank
<1>2. \A s \in MapSteps \ {"init_heap"} : Rank(s) \in {6, 7, 9, 11, 13, 15, 17} /\ pc # s
  BY DEF MapSteps, Rank
<1>3. \A t \in Things : Rank(t) \in {3, 5, 10, 12, 14, 16}
  BY DEF Things, Rank
<1>4. Rank("write_boot_info") = 19 /\ Rank("map_boot_info_again") = 18 /\ Rank("kernel") = 3 /\ Rank("map_kernel") = 4
  BY DEF Rank
<1>5. ASSUME NEW s \in MapSteps \ {"init_heap"}
      PROVE  /\ Done(s) = Count(s) /\ Pages(s) = AllPages(s)
             /\ (s = "map_framebuffer" => Framebuffer # None) /\ (s = "map_ramdisk" => Ramdisk # None) => Ready(s) /\ AreaOK(s)
  <2>1. pc # "map_boot_info_again" /\ Rank(pc) > Rank(s) /\ Rank(pc) >= Rank(s)
    BY <1>1, <1>2
  <2>2. Done(s) = Count(s)
    BY <1>2, <2>1 DEF Done
  <2>3. Pages(s) = AllPages(s)
    BY <2>2 DEF Pages, AllPages
  <2>4. (s = "map_framebuffer" => Framebuffer # None) /\ (s = "map_ramdisk" => Ramdisk # None) => Ready(s)
    BY <2>1 DEF Ready
  <2> QED
    BY <2>2, <2>3, <2>4, Areas DEF IInv, MInv
<1>6. Pages("init_heap") \subseteq AllPages("init_heap")
  <2>1. "init_heap" \in MapSteps
    BY DEF MapSteps
  <2> QED
    BY <2>1, PageInArea DEF AllPages, IInv, MInv
<1>7. LoaderDone = Count("map_boot_info")
  BY <1>1, <1>4 DEF LoaderDone
<1>8. \A t \in Things : at[t] # NoAddress <=> Present(t)
  BY <1>1, <1>3 DEF IInv, MInv, AtInv
<1>9. Rank(pc) > Rank("kernel") /\ unmapped_kernel_pages = {}
  BY <1>1, <1>4 DEF IInv, MInv, DomInv
<1>10. Rank(pc) > Rank("write_boot_info")
  BY <1>1, <1>4
<1>11. boot_info = [framebuffer            |-> at["framebuffer"],
                    physical_memory_offset |-> at["physical_memory"],
                    ramdisk_address        |-> at["ramdisk"],
                    ramdisk_len            |-> IF Ramdisk = None THEN 0 ELSE Ramdisk.len]
  BY <1>10 DEF IInv, MInv, BootInv
<1> QED
  BY <1>5, <1>6, <1>7, <1>8, <1>9, <1>11 DEF Entered

\* What is placed, except a kernel, starts on a page boundary.
LEMMA PlacedAligned ==
  ASSUME IInv, NEW t \in Things \ {"kernel"}, at[t] # NoAddress
  PROVE  at[t] \in Nat /\ at[t] % PAGE_SIZE = 0
<1>1. PICK e \in EntryIndex : at[t] = e * LEVEL_4_SIZE
  BY DEF IInv, MInv, AtInv
<1>2. e \in Nat /\ PAGE_SIZE \in Nat \ {0} /\ EntryPages \in Nat /\ LEVEL_4_SIZE = PAGE_SIZE * EntryPages
  BY Paging DEF EntryIndex
<1>3. at[t] = (e * EntryPages) * PAGE_SIZE /\ e * EntryPages \in Nat
  <2> HIDE DEF EntryPages
  <2> QED
    BY <1>1, <1>2
<1>4. \A q \in Nat : \A b \in Nat \ {0} : (q * b) % b = 0 /\ q * b \in Nat
  OBVIOUS
<1> QED
  BY <1>2, <1>3, <1>4

\* The pages of each thing, as the code that maps it and as the code that uses it counts them.
LEMMA ExpectedAreas ==
  ASSUME IInv, Entered
  PROVE  /\ AllPages("map_stack") = pages_of(stack_start, STACK_SIZE)
         /\ AllPages("map_boot_info") = pages_of(at["boot_info"], boot_info_size)
         /\ AllPages("identity_map") = {machine.code, machine.code + 1}
         /\ AllPages("map_gdt") = {gdtr}
         /\ AllPages("init_heap") = pages_of(HEAP_START, HEAP_SIZE)
         /\ AllPages("map_framebuffer") =
              PlacedPages("framebuffer", at["framebuffer"], (Framebuffer.addr % PAGE_SIZE) + Framebuffer.byte_len)
         /\ AllPages("map_ramdisk") = PlacedPages("ramdisk", at["ramdisk"], Ramdisk.len)
         /\ AllPages("map_physical_memory") = pages_of(at["physical_memory"], huge_frames * FANOUT * PAGE_SIZE)
<1>1. /\ AllPages("map_stack") = pages_of(stack_start, STACK_SIZE)
      /\ AllPages("map_boot_info") = pages_of(at["boot_info"], boot_info_size)
  BY AreaPagesHold DEF AreaPagesFacts, IInv, MInv
<1>2. AllPages("identity_map") = {machine.code, machine.code + 1}
  <2>1. machine.code \in Nat
    BY MachineFacts DEF IInv, RefInv
  <2>2. AllPages("identity_map") = machine.code .. machine.code + 1 * 2 - 1
    BY DEF AllPages, First, Width, Count
  <2> QED
    BY <2>1, <2>2
<1>3. AllPages("map_gdt") = {gdtr}
  <2>1. First("map_gdt") \in Int
    BY FirstsHold DEF FirstsInt, IInv, MInv, MapSteps
  <2>2. AllPages("map_gdt") = gdtr .. gdtr + 1 * 1 - 1 /\ gdtr \in Int
    BY <2>1 DEF AllPages, First, Width, Count
  <2> QED
    BY <2>2
<1>4. AllPages("init_heap") = pages_of(HEAP_START, HEAP_SIZE)
  <2>1. Width("init_heap") = 1 /\ 1 * Count("init_heap") = Count("init_heap")
    BY HeapArea DEF Width, AreaOK
  <2> QED
    BY <2>1, HeapArea DEF AllPages
<1>5. AllPages("map_framebuffer") =
        PlacedPages("framebuffer", at["framebuffer"], (Framebuffer.addr % PAGE_SIZE) + Framebuffer.byte_len)
  <2> DEFINE s == "map_framebuffer"
             a == at["framebuffer"]
             f == Framebuffer.addr
             z == Framebuffer.byte_len
             r == f % PAGE_SIZE
  <2>1. s \in MapSteps \ {"init_heap"} /\ First(s) \in Int /\ Width(s) = 1 /\ "framebuffer" \in Things \ {"kernel"}
    BY FirstsHold DEF FirstsInt, IInv, MInv, MapSteps, Width, Things
  <2>2. CASE Framebuffer = None
    <3>1. at["framebuffer"] = NoAddress /\ Count(s) = 0
      BY <2>1, <2>2 DEF Entered, Present, Count
    <3>2. First(s) .. First(s) + 1 * 0 - 1 = {}
      BY <2>1
    <3> QED
      BY <2>1, <3>1, <3>2 DEF AllPages, PlacedPages
  <2>3. CASE Framebuffer # None
    <3>1. a # NoAddress
      BY <2>1, <2>3 DEF Entered, Present
    <3>2. a \in Nat /\ a % PAGE_SIZE = 0
      BY <2>1, <3>1, PlacedAligned
    <3>3. f \in Nat /\ z \in Nat /\ z > 0
      BY <2>3, <3>1, SizeFacts DEF IInv, MInv, AtInv
    <3>4. Ready(s) /\ AreaOK(s)
      BY <2>1, <2>3 DEF Entered
    <3>5. Count(s) = containing(f + z - 1) - containing(f) + 1
      BY <3>4, FramebufferArea DEF IInv, MInv
    <3>6. PAGE_SIZE \in Nat \ {0} /\ f \div PAGE_SIZE \in Nat /\ r \in Nat /\ f = (f \div PAGE_SIZE) * PAGE_SIZE + r
      BY <3>3, Paging, DivBounds
    <3> HIDE DEF a, f, z, r
    <3>7. r + z - 1 \in Nat /\ f + z - 1 = (f \div PAGE_SIZE) * PAGE_SIZE + (r + z - 1)
      <4>1. (f \div PAGE_SIZE) * PAGE_SIZE \in Nat
        BY <3>6
      <4> QED
        BY <3>3, <3>6, <4>1
    <3>8. (f + z - 1) \div PAGE_SIZE = f \div PAGE_SIZE + (r + z - 1) \div PAGE_SIZE
      BY <3>6, <3>7, DivOfSum
    <3>9. Count(s) = containing(r + z - 1) + 1 /\ containing(r + z - 1) \in Nat
      BY <3>5, <3>6, <3>7, <3>8, PageOfAddress DEF containing
    <3>10. containing(a + (r + z - 1)) = containing(a) + containing(r + z - 1) /\ containing(a) \in Nat
      BY <3>2, <3>7, PageBehind
    <3>11. a + (r + z) - 1 = a + (r + z - 1)
      BY <3>2, <3>3, <3>6
    <3>12. First(s) = containing(a)
      BY DEF First, a
    <3>13. AllPages(s) = containing(a) .. containing(a) + (containing(r + z - 1) + 1) - 1
      BY <2>1, <3>9, <3>10, <3>12 DEF AllPages
    <3>14. pages_of(a, r + z) = containing(a) .. containing(a) + containing(r + z - 1)
      BY <3>10, <3>11 DEF pages_of
    <3>15. AllPages(s) = pages_of(a, r + z)
      BY <3>9, <3>10, <3>13, <3>14
    <3> QED
      BY <3>1, <3>15 DEF PlacedPages, a, r, f, z
  <2> QED
    BY <2>2, <2>3
<1>6. AllPages("map_ramdisk") = PlacedPages("ramdisk", at["ramdisk"], Ramdisk.len)
  <2> DEFINE s == "map_ramdisk"
             a == at["ramdisk"]
             z == Ramdisk.len
  <2>1. s \in MapSteps \ {"init_heap"} /\ First(s) \in Int /\ Width(s) = 1 /\ "ramdisk" \in Things \ {"kernel"}
    BY FirstsHold DEF FirstsInt, IInv, MInv, MapSteps, Width, Things
  <2>2. CASE Ramdisk = None
    <3>1. at["ramdisk"] = NoAddress /\ Count(s) = 0
      BY <2>1, <2>2 DEF Entered, Present, Count
    <3>2. First(s) .. First(s) + 1 * 0 - 1 = {}
      BY <2>1
    <3> QED
      BY <2>1, <3>1, <3>2 DEF AllPages, PlacedPages
  <2>3. CASE Ramdisk # None
    <3>1. a # NoAddress
      BY <2>1, <2>3 DEF Entered, Present
    <3>2. a \in Nat /\ a % PAGE_SIZE = 0
      BY <2>1, <3>1, PlacedAligned
    <3>3. z \in Nat \ {0} /\ z - 1 \in Nat
      BY <2>3, SizeFacts DEF IInv
    <3>4. Count(s) = containing(z - 1) + 1
      BY <2>3 DEF Count, ramdisk_page_count, containing
    <3>5. containing(a + (z - 1)) = containing(a) + containing(z - 1) /\ containing(a) \in Nat /\ containing(z - 1) \in Nat
      BY <3>2, <3>3, PageBehind
    <3>6. First(s) = containing(a)
      BY DEF First
    <3> HIDE DEF a, z
    <3>7. a + z - 1 = a + (z - 1)
      BY <3>2, <3>3
    <3>8. AllPages(s) = containing(a) .. containing(a) + (containing(z - 1) + 1) - 1
      BY <2>1, <3>4, <3>5, <3>6 DEF AllPages
    <3>9. pages_of(a, z) = containing(a) .. containing(a) + containing(z - 1)
      BY <3>5, <3>7 DEF pages_of
    <3>10. AllPages(s) = pages_of(a, z)
      BY <3>5, <3>8, <3>9
    <3> QED
      BY <3>1, <3>10 DEF PlacedPages, a, z
  <2> QED
    BY <2>2, <2>3
<1>7. AllPages("map_physical_memory") = pages_of(at["physical_memory"], huge_frames * FANOUT * PAGE_SIZE)
  <2> DEFINE s == "map_physical_memory"
             a == at["physical_memory"]
             n == huge_frames * FANOUT
  <2>1. s \in MapSteps \ {"init_heap"} /\ "physical_memory" \in Things \ {"kernel"} /\ Width(s) = FANOUT /\ Count(s) = huge_frames
    BY DEF MapSteps, Width, Things, Count
  <2>2. a # NoAddress
    BY <2>1 DEF Entered, Present
  <2>3. a \in Nat /\ a % PAGE_SIZE = 0
    BY <2>1, <2>2, PlacedAligned
  <2>4. AreaOK(s)
    BY <2>1 DEF Entered
  <2>5. huge_frames \in Nat \ {0} /\ FANOUT \in Nat \ {0} /\ PAGE_SIZE \in Nat \ {0}
    BY <2>1, <2>4, Paging DEF AreaOK
  <2>6. n \in Nat \ {0} /\ FANOUT * huge_frames = n
    BY <2>5
  <2>7. First(s) = containing(a)
    BY DEF First
  <2> HIDE DEF a, n
  <2>8. n * PAGE_SIZE - 1 \in Nat /\ containing(n * PAGE_SIZE - 1) = n - 1
    <3>1. n - 1 \in Nat /\ PAGE_SIZE * (n - 1) = n * PAGE_SIZE - PAGE_SIZE /\ n * PAGE_SIZE \in Nat
      BY <2>5, <2>6
    <3>2. PAGE_SIZE * (n - 1) \in Nat
      BY <2>5, <3>1
    <3>3. n * PAGE_SIZE - 1 \in Nat /\ PAGE_SIZE * (n - 1) <= n * PAGE_SIZE - 1 /\ n * PAGE_SIZE - 1 < PAGE_SIZE * (n - 1) + PAGE_SIZE
      BY <2>5, <3>1, <3>2
    <3> QED
      BY <2>5, <3>1, <3>3, DivUnique DEF containing
  <2>9. containing(a + (n * PAGE_SIZE - 1)) = containing(a) + (n - 1) /\ containing(a) \in Nat
    BY <2>3, <2>8, PageBehind
  <2>10. a + n * PAGE_SIZE - 1 = a + (n * PAGE_SIZE - 1)
    BY <2>3, <2>8
  <2>11. pages_of(a, n * PAGE_SIZE) = containing(a) .. containing(a) + (n - 1)
    BY <2>9, <2>10 DEF pages_of
  <2>12. AllPages(s) = containing(a) .. containing(a) + n - 1
    BY <2>1, <2>6, <2>7 DEF AllPages
  <2>13. AllPages(s) = pages_of(a, n * PAGE_SIZE)
    BY <2>6, <2>9, <2>11, <2>12
  <2> QED
    BY <2>13 DEF a, n
<1> QED
  BY <1>1, <1>2, <1>3, <1>4, <1>5, <1>6, <1>7

\* A page of a loop that shows something shows it.
LEMMA ShownAt ==
  ASSUME IInv, Entered, NEW s \in ShownSteps, NEW p \in AllPages(s)
  PROVE  is_mapped("kernel", p, FirstFrame(s) + (p - First(s)))
<1>1. s \in MapSteps \ {"init_heap"}
  BY RankFacts DEF ShownSteps
<1>2. p \in Pages(s)
  BY <1>1 DEF Entered
<1> QED
  BY <1>1, <1>2 DEF is_mapped, IInv, MInv, DomInv, ShowInv

LEMMA ShowsBytes ==
  ASSUME IInv, Entered, NEW s \in ShownSteps, NEW virt \in Nat, virt % PAGE_SIZE = 0,
         NEW phys \in Nat, phys % PAGE_SIZE = 0, First(s) = containing(virt), FirstFrame(s) = containing(phys),
         NEW len \in Nat, NEW size \in Nat, len <= size, AllPages(s) = pages_of(virt, size)
  PROVE  Shows(virt, phys, len)
<1> SUFFICES ASSUME NEW j \in 0 .. len - 1
             PROVE  is_mapped("kernel", containing(virt + j), containing(phys + j))
  BY DEF Shows
<1>1. j \in Nat /\ virt + j \in Nat /\ virt + size - 1 \in Nat /\ virt <= virt + j /\ virt + j <= virt + size - 1
  OBVIOUS
<1>2. containing(virt + j) = containing(virt) + containing(j) /\ containing(phys + j) = containing(phys) + containing(j)
      /\ containing(j) \in Nat /\ containing(virt) \in Nat /\ containing(phys) \in Nat
  BY <1>1, PageBehind
<1>3. containing(virt + j) \in AllPages(s)
  <2>1. containing(virt) <= containing(virt + j) /\ containing(virt + j) <= containing(virt + size - 1)
    BY <1>1, PagesOrdered
  <2>2. containing(virt + j) \in Nat /\ containing(virt + size - 1) \in Nat
    BY <1>1, PageOfAddress
  <2> QED
    BY <1>2, <2>1, <2>2 DEF pages_of
<1>4. is_mapped("kernel", containing(virt + j), FirstFrame(s) + (containing(virt + j) - First(s)))
  BY <1>3, ShownAt
<1>5. FirstFrame(s) + (containing(virt + j) - First(s)) = containing(phys + j)
  BY <1>2
<1> QED
  BY <1>4, <1>5

\* The guard page below the stack.
LEMMA GuardPage ==
  ASSUME IInv, Entered
  PROVE  containing(at["stack"]) \notin DOMAIN mapped["kernel"]
<1> DEFINE p == containing(at["stack"])
<1>1. "stack" \in Things \ {"kernel"} /\ Present("stack") /\ at["stack"] # NoAddress /\ "map_stack" \in MapSteps \ {"init_heap"}
  BY DEF Things, Present, Entered, MapSteps
<1>2. Ready("map_stack")
  BY <1>1 DEF Entered
<1>3. Rank(pc) > Rank("stack")
  BY <1>1 DEF IInv, MInv, AtInv
<1>4. PICK e \in EntryIndex :
        /\ at["stack"] = e * LEVEL_4_SIZE /\ e \in Nat /\ at["stack"] \in Nat
        /\ placed_entries["stack"] = p4_index(at["stack"]) .. p4_index(at["stack"] + size_of("stack") - 1)
  BY <1>1, <1>3, PlacedFacts DEF IInv, MInv
<1>5. p = e * EntryPages /\ p \in Nat /\ p \div EntryPages = e /\ p4_index(at["stack"]) = e
  <2>1. containing(e * LEVEL_4_SIZE) = e * EntryPages /\ e * EntryPages \in Nat
    BY <1>4, AlignedAddress
  <2>2. (e * EntryPages + 0) \div EntryPages = e + 0 \div EntryPages /\ 0 \div EntryPages = 0
    <3>1. 0 \in Nat /\ 0 < EntryPages
      BY Paging
    <3> QED
      BY <1>4, <3>1, AlignedAddress, EntryOfPage
  <2>3. p \div EntryPages = p4_index(at["stack"])
    BY <1>4, PageOfAddress
  <2>4. e * EntryPages + 0 = e * EntryPages /\ e + 0 = e
    BY <1>4, <2>1
  <2> QED
    BY <1>4, <2>1, <2>2, <2>3, <2>4
<1>6. e \in placed_entries["stack"] /\ Home("map_stack") = placed_entries["stack"]
  <2>1. at["stack"] + size_of("stack") - 1 \in Nat /\ at["stack"] <= at["stack"] + size_of("stack") - 1
    <3>1. size_of("stack") \in Nat \ {0}
      BY PagingAssumption DEF size_of
    <3> QED
      BY <1>4, <3>1
  <2>2. p4_index(at["stack"]) <= p4_index(at["stack"] + size_of("stack") - 1)
    BY <1>4, <2>1, Paging, DivMonotone DEF p4_index
  <2>3. p4_index(at["stack"] + size_of("stack") - 1) \in Nat
    BY <2>1, PageOfAddress
  <2> QED
    BY <1>4, <1>5, <2>2, <2>3 DEF Home
<1> SUFFICES ASSUME p \in DOMAIN mapped["kernel"] PROVE FALSE
  OBVIOUS
<1>7. CASE p \in kernel_pages
  BY <1>1, <1>5, <1>6, <1>7, KernelArea, HomesDisjoint DEF Entered, IInv, MInv
<1>8. CASE p \notin kernel_pages
  <2>1. PICK s \in MapSteps : p \in Pages(s)
    BY <1>8 DEF IInv, MInv, DomInv
  <2>2. p >= First(s) /\ p \div EntryPages \in Home(s)
    BY <2>1, PageInArea DEF IInv, MInv
  <2>3. CASE s = "map_stack"
    BY <1>2, <1>5, <2>2, <2>3, StackArea DEF IInv, MInv
  <2>4. CASE s = "init_heap"
    <3>1. First(s) = containing(HEAP_START) /\ HEAP_START \in Nat /\ p4_index(HEAP_START) = e
      BY <1>5, <2>2, <2>4, PagingAssumption DEF First, Home
    <3>2. PAGE_SIZE * containing(HEAP_START) <= HEAP_START /\ HEAP_START < PAGE_SIZE * containing(HEAP_START) + PAGE_SIZE
          /\ containing(HEAP_START) \in Nat
      BY <3>1, PageOfAddress
    <3>3. LEVEL_4_SIZE * e <= HEAP_START /\ HEAP_START # LEVEL_4_SIZE * e
      <4>1. LEVEL_4_SIZE \in Nat \ {0}
        BY Paging
      <4>2. HEAP_START \div LEVEL_4_SIZE = e
        BY <3>1 DEF p4_index
      <4>3. HEAP_START = LEVEL_4_SIZE * (HEAP_START \div LEVEL_4_SIZE) + (HEAP_START % LEVEL_4_SIZE)
        BY <3>1, <4>1, DivAndRest
      <4>4. HEAP_START % LEVEL_4_SIZE # 0 /\ HEAP_START % LEVEL_4_SIZE \in Nat
        BY <3>1, <4>1, PagingAssumption
      <4>5. LEVEL_4_SIZE * e \in Nat
        BY <1>4, <4>1
      <4> QED
        BY <3>1, <4>2, <4>3, <4>4, <4>5
    <3>4. HEAP_START = PAGE_SIZE * containing(HEAP_START)
      <4>1. HEAP_START % PAGE_SIZE = 0 /\ PAGE_SIZE \in Nat \ {0}
        BY PagingAssumption
      <4>2. HEAP_START = PAGE_SIZE * (HEAP_START \div PAGE_SIZE) + (HEAP_START % PAGE_SIZE)
        BY <3>1, <4>1, DivAndRest
      <4>3. PAGE_SIZE * (HEAP_START \div PAGE_SIZE) \in Nat
        BY <3>1, <4>1, DivBounds
      <4> QED
        BY <4>1, <4>2, <4>3 DEF containing
    <3>5. LEVEL_4_SIZE * e = PAGE_SIZE * p /\ PAGE_SIZE \in Nat \ {0}
      <4>1. LEVEL_4_SIZE = PAGE_SIZE * EntryPages /\ PAGE_SIZE \in Nat /\ EntryPages \in Nat
        BY Paging
      <4> HIDE DEF EntryPages
      <4>2. (PAGE_SIZE * EntryPages) * e = PAGE_SIZE * (e * EntryPages)
        BY <1>4, <4>1
      <4> QED
        BY <1>5, <4>1, <4>2, Paging
    <3> DEFINE h == containing(HEAP_START)
    <3>6. p >= h /\ h \in Nat /\ p \in Nat /\ PAGE_SIZE * p <= PAGE_SIZE * h /\ PAGE_SIZE * p # PAGE_SIZE * h
      BY <1>5, <2>2, <3>1, <3>2, <3>3, <3>4, <3>5
    <3> HIDE DEF p, h
    <3>7. p > h => PAGE_SIZE * p >= PAGE_SIZE * h + PAGE_SIZE
      BY <3>5, <3>6, TimesOrdered
    <3>8. PAGE_SIZE * p \in Nat /\ PAGE_SIZE * h \in Nat
      BY <3>5, <3>6
    <3> QED
      BY <3>5, <3>6, <3>7, <3>8
  <2>5. CASE s \notin {"map_stack", "init_heap"}
    <3>1. "map_stack" \notin {"identity_map", "map_gdt"}
      OBVIOUS
    <3>2. Home("map_stack") \cap Home(s) = {}
      BY <1>1, <2>5, <3>1, HomesDisjoint DEF IInv
    <3> QED
      BY <1>5, <1>6, <2>2, <3>2
  <2> QED
    BY <2>3, <2>4, <2>5
<1> QED
  BY <1>7, <1>8

LEMMA InvAddressSpace == IInv => AddressSpaceTrue
<1> SUFFICES ASSUME IInv, KernelEntered
             PROVE  /\ DOMAIN mapped["kernel"] \subseteq ExpectedPages \cup pages_of(HEAP_START, HEAP_SIZE)
                    /\ ExpectedPages \subseteq DOMAIN mapped["kernel"]
                    /\ containing(at["stack"]) \notin DOMAIN mapped["kernel"]
                    /\ \A p \in pages_of(at["boot_info"], boot_info_size) :
                         is_mapped("bootloader", p, mapped["kernel"][p])
                    /\ Shows(boot_info.physical_memory_offset, 0, Memory.max_phys)
                    /\ Ramdisk = None <=> boot_info.ramdisk_address = NoAddress
                    /\ Ramdisk # None => boot_info.ramdisk_len = Ramdisk.len
                                          /\ Shows(boot_info.ramdisk_address, Ramdisk.addr, Ramdisk.len)
                    /\ Framebuffer = None <=> boot_info.framebuffer = NoAddress
                    /\ Framebuffer # None =>
                         Shows(boot_info.framebuffer, Framebuffer.addr - (Framebuffer.addr % PAGE_SIZE), Framebuffer.byte_len)
  BY DEF AddressSpaceTrue
<1>1. Entered
  BY EnteredHolds DEF KernelEntered
<1>2. {"framebuffer", "ramdisk", "physical_memory", "boot_info", "kernel"} \subseteq Things
  BY DEF Things
<1>3. \A s \in MapSteps : AllPages(s) \subseteq ExpectedPages \cup pages_of(HEAP_START, HEAP_SIZE)
  BY <1>1, ExpectedAreas DEF MapSteps, ExpectedPages
<1>4. \A s \in MapSteps : Pages(s) \subseteq AllPages(s)
  BY <1>1 DEF Entered, MapSteps
<1>5. DOMAIN mapped["kernel"] \subseteq ExpectedPages \cup pages_of(HEAP_START, HEAP_SIZE)
  <2>1. kernel_pages \subseteq ExpectedPages
    BY DEF ExpectedPages
  <2> QED
    BY <1>3, <1>4, <2>1 DEF IInv, MInv, DomInv
<1>6. ExpectedPages \subseteq DOMAIN mapped["kernel"]
  <2>1. \A s \in MapSteps \ {"init_heap"} : AllPages(s) \subseteq DOMAIN mapped["kernel"]
    BY <1>1 DEF Entered, IInv, MInv, DomInv
  <2>2. kernel_pages \subseteq DOMAIN mapped["kernel"]
    BY <1>1 DEF Entered, unmapped_kernel_pages
  <2>3. ExpectedPages \subseteq kernel_pages \cup UNION {AllPages(s) : s \in MapSteps \ {"init_heap"}}
    BY <1>1, ExpectedAreas DEF ExpectedPages, MapSteps
  <2> QED
    BY <2>1, <2>2, <2>3
<1>7. containing(at["stack"]) \notin DOMAIN mapped["kernel"]
  BY <1>1, GuardPage
<1>8. \A p \in pages_of(at["boot_info"], boot_info_size) : is_mapped("bootloader", p, mapped["kernel"][p])
  <2>1. DOMAIN mapped["bootloader"] = First("map_boot_info") .. First("map_boot_info") + Count("map_boot_info") - 1
        /\ \A p \in DOMAIN mapped["bootloader"] : mapped["bootloader"][p] = mapped["kernel"][p]
    BY <1>1 DEF Entered, IInv, MInv, BootInv
  <2>2. Width("map_boot_info") = 1 /\ Count("map_boot_info") \in Nat
    BY <1>1 DEF Width, Entered, AreaOK, MapSteps
  <2>3. AllPages("map_boot_info") = DOMAIN mapped["bootloader"]
    BY <2>1, <2>2 DEF AllPages
  <2> QED
    BY <1>1, <2>1, <2>3, ExpectedAreas DEF is_mapped
<1>9. Shows(boot_info.physical_memory_offset, 0, Memory.max_phys)
  <2> DEFINE s == "map_physical_memory"
             b == PAGE_SIZE * FANOUT
             m == Memory.max_phys
  <2>1. s \in ShownSteps /\ boot_info.physical_memory_offset = at["physical_memory"] /\ at["physical_memory"] # NoAddress
    BY <1>1, <1>2 DEF ShownSteps, Entered, Present
  <2>2. at["physical_memory"] \in Nat /\ at["physical_memory"] % PAGE_SIZE = 0
    BY <1>2, <2>1, PlacedAligned
  <2>3. m \in Nat \ {0} /\ m - 1 \in Nat /\ b \in Nat \ {0} /\ PAGE_SIZE \in Nat \ {0} /\ FANOUT \in Nat \ {0}
    BY MachineFacts, Paging DEF IInv, RefInv
  <2>4. huge_frames = (m - 1) \div b + 1
    BY DEF huge_frames
  <2>5. (m - 1) \div b \in Nat /\ m - 1 < b * ((m - 1) \div b) + b
    BY <2>3, DivBounds
  <2>6. huge_frames * FANOUT * PAGE_SIZE = b * ((m - 1) \div b) + b
    <3> DEFINE q == (m - 1) \div b
    <3>1. q \in Nat
      BY <2>5
    <3> HIDE DEF q
    <3>2. (q + 1) * FANOUT * PAGE_SIZE = (PAGE_SIZE * FANOUT) * q + PAGE_SIZE * FANOUT
      BY <2>3, <3>1
    <3> QED
      BY <2>4, <3>2 DEF q
  <2>7. huge_frames * FANOUT * PAGE_SIZE \in Nat /\ m <= huge_frames * FANOUT * PAGE_SIZE
    <3>1. b * ((m - 1) \div b) \in Nat
      BY <2>3, <2>5
    <3> QED
      BY <2>3, <2>5, <2>6, <3>1
  <2>8. First(s) = containing(at["physical_memory"]) /\ FirstFrame(s) = containing(0) /\ 0 % PAGE_SIZE = 0
    BY <2>3 DEF First, FirstFrame, containing
  <2>9. AllPages(s) = pages_of(at["physical_memory"], huge_frames * FANOUT * PAGE_SIZE)
    BY <1>1, ExpectedAreas
  <2> QED
    BY <1>1, <2>1, <2>2, <2>3, <2>7, <2>8, <2>9, ShowsBytes
<1>10. (Ramdisk = None <=> boot_info.ramdisk_address = NoAddress) /\ (Framebuffer = None <=> boot_info.framebuffer = NoAddress)
  BY <1>1, <1>2 DEF Entered, Present
<1>11. Ramdisk # None => boot_info.ramdisk_len = Ramdisk.len
                          /\ Shows(boot_info.ramdisk_address, Ramdisk.addr, Ramdisk.len)
  <2> SUFFICES ASSUME Ramdisk # None
               PROVE  boot_info.ramdisk_len = Ramdisk.len /\ Shows(boot_info.ramdisk_address, Ramdisk.addr, Ramdisk.len)
    OBVIOUS
  <2> DEFINE s == "map_ramdisk"
  <2>1. s \in ShownSteps /\ boot_info.ramdisk_address = at["ramdisk"] /\ at["ramdisk"] # NoAddress
        /\ boot_info.ramdisk_len = Ramdisk.len
    BY <1>1, <1>2 DEF ShownSteps, Entered, Present
  <2>2. at["ramdisk"] \in Nat /\ at["ramdisk"] % PAGE_SIZE = 0
    BY <1>2, <2>1, PlacedAligned
  <2>3. Ramdisk.addr \in Nat /\ Ramdisk.addr % PAGE_SIZE = 0 /\ Ramdisk.len \in Nat /\ Ramdisk.len <= Ramdisk.len
    BY SizeFacts DEF IInv
  <2>4. First(s) = containing(at["ramdisk"]) /\ FirstFrame(s) = containing(Ramdisk.addr)
    BY DEF First, FirstFrame
  <2>5. AllPages(s) = pages_of(at["ramdisk"], Ramdisk.len)
    BY <1>1, <2>1, ExpectedAreas DEF PlacedPages
  <2> QED
    BY <1>1, <2>1, <2>2, <2>3, <2>4, <2>5, ShowsBytes
<1>12. Framebuffer # None =>
         Shows(boot_info.framebuffer, Framebuffer.addr - (Framebuffer.addr % PAGE_SIZE), Framebuffer.byte_len)
  <2> SUFFICES ASSUME Framebuffer # None
               PROVE  Shows(boot_info.framebuffer, Framebuffer.addr - (Framebuffer.addr % PAGE_SIZE), Framebuffer.byte_len)
    OBVIOUS
  <2> DEFINE s == "map_framebuffer"
             f == Framebuffer.addr
             r == f % PAGE_SIZE
             z == Framebuffer.byte_len
  <2>1. s \in ShownSteps /\ boot_info.framebuffer = at["framebuffer"] /\ at["framebuffer"] # NoAddress
    BY <1>1, <1>2 DEF ShownSteps, Entered, Present
  <2>2. at["framebuffer"] \in Nat /\ at["framebuffer"] % PAGE_SIZE = 0
    BY <1>2, <2>1, PlacedAligned
  <2>3. f \in Nat /\ z \in Nat /\ PAGE_SIZE \in Nat \ {0}
    BY SizeFacts, Paging DEF IInv
  <2>4. r \in Nat /\ f \div PAGE_SIZE \in Nat /\ f = (f \div PAGE_SIZE) * PAGE_SIZE + r
    BY <2>3, DivAndRest
  <2>5. z <= r + z /\ r + z \in Nat
    BY <2>3, <2>4
  <2>6. First(s) = containing(at["framebuffer"]) /\ FirstFrame(s) = containing(f)
    BY DEF First, FirstFrame
  <2>7. AllPages(s) = pages_of(at["framebuffer"], r + z)
    BY <1>1, <2>1, ExpectedAreas DEF PlacedPages
  <2> HIDE DEF f, r, z
  <2>8. f - r = (f \div PAGE_SIZE) * PAGE_SIZE /\ (f \div PAGE_SIZE) * PAGE_SIZE \in Nat
    BY <2>3, <2>4
  <2>9. \A q \in Nat : \A b \in Nat \ {0} : (q * b) % b = 0 /\ (q * b) \div b = q
    OBVIOUS
  <2>10. f - r \in Nat /\ (f - r) % PAGE_SIZE = 0 /\ containing(f - r) = containing(f)
    BY <2>3, <2>4, <2>8, <2>9 DEF containing
  <2>11. Shows(at["framebuffer"], f - r, z)
    BY <1>1, <2>1, <2>2, <2>3, <2>5, <2>6, <2>7, <2>10, ShowsBytes
  <2> QED
    BY <2>1, <2>11 DEF f, r, z
<1> QED
  BY <1>5, <1>6, <1>7, <1>8, <1>9, <1>10, <1>11, <1>12

-----------------------------------------------------------------------------
(***************************************************************************)
(* Why a step fails.                                                       *)
(***************************************************************************)
LEMMA Roots ==
  ASSUME IInv, Rank(pc) > Rank("kernel_table"), NEW space \in Spaces
  PROVE  /\ DOMAIN mapped = Spaces /\ DOMAIN tables = Spaces /\ supply \in Seq(frames_of(Memory)) /\ supply \in Seq(Nat)
         /\ <<4, 0>> \in DOMAIN tables[space] /\ Len(supply) \in Nat
<1>1. Rank("kernel_table") = 2 /\ Rank("bootloader_table") = 1
  BY DEF Rank
<1>2. Rank(pc) \in Int
  BY RankFacts DEF IInv, RefInv
<1>3. Rank(pc) > Rank("bootloader_table")
  BY <1>1, <1>2
<1>4. frames_of(Memory) \subseteq Nat /\ supply \in Seq(frames_of(Memory))
  BY MachineFacts DEF IInv, RefInv, MInv, SupplyInv
<1> QED
  BY <1>3, <1>4 DEF IInv, MInv, DomInv, TableInv, Spaces

\* A mapping that initium makes.
LEMMA MapExplained ==
  ASSUME IInv, Rank(pc) > Rank("kernel_table"), ~KernelEntered, pc # "switch",
         NEW space \in Spaces, NEW page \in Nat, NEW pages \in Nat, NEW frame, NEW own \in {0, 1}, NEW writes,
         map_to(space, page, pages, frame, own, writes),
         failure' # None => UNCHANGED <<machine, pc, gdtr>>,
         page_taken(space, page, pages) => pc = "map_gdt" /\ gdtr = machine.code + 1
  PROVE  FailuresExplained'
<1>1. CASE failure' = None
  BY <1>1, NoneAssumption DEF Failures, FailuresExplained
<1>2. CASE failure' # None
  <2>1. /\ DOMAIN tables = Spaces /\ supply \in Seq(Nat) /\ <<4, 0>> \in DOMAIN tables[space] /\ Len(supply) \in Nat
    BY Roots
  <2>2. /\ UNCHANGED <<tables, mapped, supply>>
        /\ failure' \in {"no_frame", "fault", "already_mapped"}
        /\ failure' = "no_frame" => Len(supply) < 4
        /\ failure' = "fault" =>
             \/ \E i \in 1 .. Len(supply) : i <= 4 /\ ~accessible(supply[i])
             \/ \E t \in DOMAIN tables[space] : ~accessible(tables[space][t])
        /\ failure' = "already_mapped" => page_taken(space, page, pages)
    BY <1>2, <2>1, MapFails
  <2>3. \A f : accessible(f) <=> f < EntryPages
    <3>1. pc # "bootloader_table" /\ pc # "init_heap"
      BY DEF Rank, KernelEntered
    <3> QED
      BY <3>1 DEF accessible
  <2>4. \A t \in DOMAIN tables[space] : accessible(tables[space][t])
    <3>1. ~InNukleus
      BY DEF KernelEntered, InNukleus
    <3> QED
      BY <2>3, <3>1 DEF IInv, MInv, TableInv
  <2>5. failure' = "fault" => \E i \in 1 .. Len(supply) : i <= 4 /\ supply[i] >= EntryPages
    <3>1. EntryPages \in Nat /\ \A i \in 1 .. Len(supply) : supply[i] \in Nat
      BY <2>1, Paging
    <3> QED
      BY <2>2, <2>3, <2>4, <3>1
  <2>6. UNCHANGED <<machine, pc, gdtr, supply>> /\ KernelEntered' = KernelEntered
    BY <1>2, <2>2 DEF KernelEntered
  <2> QED
    BY <2>2, <2>5, <2>6 DEF FailuresExplained
<1> QED
  BY <1>1, <1>2

\* Nothing is in the way of a loop of initium, the one for the GDT excepted.
LEMMA LoopFree ==
  ASSUME IInv, NEW s \in MapSteps \ {"init_heap", "map_gdt"}, pc = s
  PROVE  ~page_taken("kernel", First(s) + Width(s) * loop, Width(s))
<1> DEFINE w == Width(s)
           page == First(s) + w * loop
<1>1. StillFree /\ Ready(s) /\ AreaOK(s) /\ loop \in Nat /\ loop < Count(s)
  BY StillFreeHolds, DoneBound, Areas DEF IInv, MInv, LoopInv
<1>2. First(s) \in Nat /\ Count(s) \in Nat /\ w \in Nat \ {0}
  BY <1>1, FirstInt DEF AreaOK, IInv, MInv
<1> HIDE DEF w
<1>3. w * loop \in Nat /\ w * Count(s) \in Nat /\ w * Count(s) >= w * loop + w
  BY <1>1, <1>2, TimesOrdered
<1>4. page .. page + w - 1 \subseteq First(s) .. First(s) + w * Count(s) - 1
  BY <1>2, <1>3
<1>5. page \in Nat /\ page \in page .. page + w - 1 /\ \A p \in page .. page + w - 1 : p >= page
  BY <1>2, <1>3
<1>6. First(s) .. First(s) + w * Count(s) - 1 = AllPages(s)
  BY DEF AllPages, w
<1>7. \A p \in page .. page + w - 1 : p \notin DOMAIN mapped["kernel"]
  <2>1. \A p \in AllPages(s) : p >= First(s) + w * loop => p \notin DOMAIN mapped["kernel"]
    BY <1>1 DEF StillFree, w
  <2> QED
    BY <1>4, <1>5, <1>6, <2>1
<1>8. w > 1 => <<1, page \div FANOUT>> \notin DOMAIN tables["kernel"]
  <2> SUFFICES ASSUME w > 1, <<1, page \div FANOUT>> \in DOMAIN tables["kernel"] PROVE FALSE
    OBVIOUS
  <2>1. s = "map_physical_memory"
    BY DEF w, Width
  <2>2. ~InNukleus
    BY <2>1 DEF InNukleus
  <2>3. (page \div FANOUT) \div (FANOUT * FANOUT) \in PageEntries
    <3> DEFINE t == <<1, page \div FANOUT>>
    <3>1. t[1] = 1 /\ t[2] = page \div FANOUT /\ t \in DOMAIN tables["kernel"]
      OBVIOUS
    <3> HIDE DEF t
    <3>2. t[2] \div (FANOUT * FANOUT) \in PageEntries
      BY <2>2, <3>1 DEF IInv, MInv, TableInv
    <3> QED
      BY <3>1, <3>2
  <2>4. page \div EntryPages \in PageEntries
    BY <1>5, <2>3, EntryOfPage
  <2>5. page \div EntryPages \in placed_entries["physical_memory"]
    <3>1. page \in First(s) .. First(s) + Width(s) * Count(s) - 1
      BY <1>4, <1>5 DEF w
    <3> HIDE DEF page
    <3> QED
      BY <1>1, <2>1, <3>1 DEF AreaOK, Home
  <2> QED
    BY <2>4, <2>5, LayoutFacts DEF PageEntries, Things, IInv
<1> QED
  BY <1>7, <1>8 DEF page_taken, w

\* The page of the GDT is taken only if it is the second page of context_switch.
LEMMA GdtFree ==
  ASSUME IInv, pc = "map_gdt", page_taken("kernel", gdtr, 1)
  PROVE  gdtr = machine.code + 1
<1>1. Rank(pc) > Rank("gdt") /\ Rank(pc) > Rank("kernel") /\ Rank("init_heap") = 22 /\ Rank(pc) = 9
  BY DEF Rank
<1>2. gdtr \in Nat /\ gdtr < EntryPages
  BY <1>1, Paging DEF IInv, MInv, AtInv
<1>3. gdtr \in DOMAIN mapped["kernel"] /\ gdtr \div EntryPages = 0
  <2>1. gdtr .. gdtr + 1 - 1 = {gdtr}
    BY <1>2
  <2> QED
    BY <1>2, <2>1, EntryOfPage DEF page_taken
<1>4. gdtr \notin kernel_pages
  BY <1>1, <1>3, KernelArea, LayoutFacts DEF IInv, MInv, Things
<1>5. PICK s \in MapSteps : gdtr \in Pages(s)
  BY <1>3, <1>4 DEF IInv, MInv, DomInv
<1>6. 0 \in Home(s) /\ gdtr \in AllPages(s) /\ gdtr < First(s) + Width(s) * Done(s) /\ Ready(s)
  BY <1>3, <1>5, PageInArea DEF IInv, MInv, AllPages
<1>7. s # "init_heap"
  BY <1>1, <1>6 DEF Ready
<1>8. s = "identity_map" \/ s = "map_gdt"
  BY <1>6, <1>7, LayoutFacts DEF IInv, Home, MapSteps, Things
<1>9. CASE s = "map_gdt"
  <2>1. Count("map_gdt") = 1 /\ Width("map_gdt") = 1 /\ First("map_gdt") = gdtr /\ "map_gdt" \in MapSteps
    BY DEF Count, Width, First, MapSteps
  <2>2. loop \in Nat /\ loop < 1 /\ Done(s) = loop
    BY <1>9, <2>1 DEF IInv, MInv, LoopInv, Done
  <2>3. gdtr < gdtr + 1 * 0
    BY <1>6, <1>9, <2>1, <2>2
  <2> QED
    BY <1>2, <2>3
<1>10. CASE s = "identity_map"
  <2>1. gdtr \in machine.code .. machine.code + 1 * 2 - 1 /\ machine.code \in Nat
    BY <1>6, <1>10, MachineFacts DEF AllPages, First, Width, Count, IInv, RefInv
  <2>2. gdtr # machine.code
    <3>1. <<"gdt">> \in Users /\ <<"code">> \in Users
      <4>1. gdtr # NoAddress /\ ~KernelEntered
        BY <1>2 DEF NoAddress, KernelEntered
      <4> QED
        BY <4>1, UserCases DEF UserFacts
    <3>2. <<"gdt">> # <<"code">>
      OBVIOUS
    <3>3. frame_of(<<"gdt">>) # frame_of(<<"code">>)
      BY <3>1, <3>2 DEF IInv, MInv, UsersInv
    <3> QED
      BY <3>3, FrameCases
  <2> QED
    BY <2>1, <2>2
<1> QED
  BY <1>8, <1>9, <1>10

\* nukleus reaches every frame of the machine at the offset it is told.
LEMMA PhysicalReached ==
  ASSUME IInv, KernelEntered, NEW f \in frames_of(Memory)
  PROVE  is_mapped("kernel", containing(boot_info.physical_memory_offset) + f, f)
<1> DEFINE a == boot_info.physical_memory_offset
           m == Memory.max_phys
           j == f * PAGE_SIZE
<1>1. Entered
  BY EnteredHolds DEF KernelEntered
<1>2. "physical_memory" \in Things \ {"kernel"} /\ a = at["physical_memory"] /\ a # NoAddress
  BY <1>1 DEF Entered, Present, Things
<1>3. a \in Nat /\ a % PAGE_SIZE = 0
  BY <1>2, PlacedAligned
<1>4. m \in Nat \ {0} /\ m - 1 \in Nat /\ containing(m - 1) \in Nat /\ f \in 0 .. containing(m - 1) /\ PAGE_SIZE \in Nat \ {0}
  BY MachineFacts, Paging DEF IInv, RefInv, frames_of
<1>5. f \in Nat /\ j \in Nat /\ PAGE_SIZE * containing(m - 1) <= m - 1
  BY <1>4, PageOfAddress
<1>6. PAGE_SIZE * f <= PAGE_SIZE * containing(m - 1)
  <2>1. containing(m - 1) > f => PAGE_SIZE * containing(m - 1) >= PAGE_SIZE * f + PAGE_SIZE
    BY <1>4, <1>5, TimesOrdered
  <2>2. PAGE_SIZE * f \in Nat /\ PAGE_SIZE * containing(m - 1) \in Nat
    BY <1>4, <1>5
  <2> QED
    BY <1>4, <1>5, <2>1, <2>2
<1>7. j \in 0 .. m - 1
  <2>1. j = PAGE_SIZE * f /\ PAGE_SIZE * containing(m - 1) \in Nat
    BY <1>4, <1>5
  <2> HIDE DEF j
  <2> QED
    BY <1>4, <1>5, <1>6, <2>1
<1>8. containing(j) = f
  <2>1. \A q \in Nat : \A b \in Nat \ {0} : (q * b) \div b = q
    OBVIOUS
  <2> QED
    BY <1>4, <1>5, <2>1 DEF containing
<1>9. Shows(a, 0, m)
  BY InvAddressSpace DEF AddressSpaceTrue
<1>10. is_mapped("kernel", containing(a + j), containing(0 + j))
  BY <1>7, <1>9 DEF Shows
<1>11. containing(a + j) = containing(a) + containing(j) /\ 0 + j = j
  BY <1>3, <1>5, PageBehind
<1> QED
  BY <1>8, <1>10, <1>11

LEMMA HeapExplained ==
  ASSUME IInv, init_heap
  PROVE  FailuresExplained'
<1> DEFINE s == "init_heap"
           page == containing(HEAP_START) + loop
           h == p4_index(HEAP_START)
<1>1. /\ pc = s /\ map_to("kernel", page, 1, Head(supply), 1, FALSE)
      /\ failure' # None => UNCHANGED <<pc, loop>>
      /\ UNCHANGED <<machine, entry_state, at, gdtr, boot_info>>
  BY DEF init_heap, At, EndIteration
<1>2. CASE failure' = None
  BY <1>2, NoneAssumption DEF Failures, FailuresExplained
<1>3. CASE failure' # None
  <2>1. Rank(pc) > Rank("kernel_table") /\ Rank(pc) > Rank("kernel") /\ KernelEntered /\ "kernel" \in Spaces /\ s \in MapSteps
    BY <1>1 DEF Rank, KernelEntered, Spaces, MapSteps
  <2>2. HEAP_START \in Nat /\ loop \in Nat /\ containing(HEAP_START) \in Nat /\ loop < Count(s)
    BY <1>1, <2>1, PagingAssumption, PageOfAddress DEF IInv, MInv, LoopInv
  <2>3. page \in Nat
    BY <2>2
  <2>4. /\ DOMAIN tables = Spaces /\ supply \in Seq(frames_of(Memory)) /\ <<4, 0>> \in DOMAIN tables["kernel"]
    BY <2>1, Roots
  <2> HIDE DEF page
  <2>5. /\ UNCHANGED <<tables, mapped, supply>>
        /\ failure' \in {"no_frame", "fault", "already_mapped"}
        /\ failure' = "no_frame" => Len(supply) < 4
        /\ failure' = "fault" =>
             \/ \E i \in 1 .. Len(supply) : i <= 4 /\ ~accessible(supply[i])
             \/ \E t \in DOMAIN tables["kernel"] : ~accessible(tables["kernel"][t])
        /\ failure' = "already_mapped" => page_taken("kernel", page, 1)
    BY <1>1, <1>3, <2>1, <2>3, <2>4, MapFails
  <2>6. \A f \in frames_of(Memory) : accessible(f)
    BY <1>1, <2>1, PhysicalReached DEF accessible
  <2>7. failure' # "fault"
    <3>1. \A i \in 1 .. Len(supply) : accessible(supply[i])
      BY <2>4, <2>6
    <3>2. \A t \in DOMAIN tables["kernel"] : accessible(tables["kernel"][t])
      BY <2>1, <2>6 DEF IInv, MInv, TableInv
    <3> QED
      BY <2>5, <3>1, <3>2
  <2>8. failure' = "already_mapped" => entry_state[h]
    <3> SUFFICES ASSUME page_taken("kernel", page, 1) PROVE entry_state[h]
      BY <2>5
    <3>1. page \in DOMAIN mapped["kernel"]
      <4>1. page .. page + 1 - 1 = {page}
        BY <2>3
      <4> QED
        BY <4>1 DEF page_taken
    <3>2. page \div EntryPages = h /\ h # 0
      <4>1. First(s) = containing(HEAP_START) /\ Width(s) = 1 /\ Count(s) \in Nat
        BY HeapArea DEF First, Width, AreaOK
      <4>2. page \in First(s) .. First(s) + Width(s) * Count(s) - 1
        <5>1. page \in containing(HEAP_START) .. containing(HEAP_START) + 1 * Count(s) - 1
          BY <2>2, <4>1 DEF page
        <5> QED
          BY <4>1, <5>1
      <4>3. page \div EntryPages \in Home(s)
        BY <4>2, HeapArea DEF AreaOK
      <4> QED
        BY <4>3, PagingAssumption DEF Home
    <3>3. \A t \in Things : h \in placed_entries[t] => entry_state[h]
      BY LayoutFacts DEF IInv
    <3>4. CASE page \in kernel_pages
      <4>1. h \in placed_entries["kernel"] /\ "kernel" \in Things
        BY <2>1, <3>2, <3>4, KernelArea DEF IInv, MInv, Things
      <4> QED
        BY <3>3, <4>1
    <3>5. CASE page \notin kernel_pages
      <4>1. PICK r \in MapSteps : page \in Pages(r)
        BY <3>1, <3>5 DEF IInv, MInv, DomInv
      <4>2. h \in Home(r) /\ page < First(r) + Width(r) * Done(r)
        BY <3>2, <4>1, PageInArea DEF IInv, MInv
      <4>3. r # s
        <5>1. ASSUME r = s PROVE FALSE
          <6>1. First(s) = containing(HEAP_START) /\ Width(s) = 1 /\ Done(s) = loop
            BY <1>1 DEF First, Width, Done
          <6>2. page < containing(HEAP_START) + 1 * loop
            BY <4>2, <5>1, <6>1
          <6> QED
            BY <2>2, <6>2 DEF page
        <5> QED
          BY <5>1
      <4>4. \E t \in Things : h \in placed_entries[t]
        BY <3>2, <4>2, <4>3 DEF Home, MapSteps, Things
      <4> QED
        BY <3>3, <4>4
    <3> QED
      BY <3>4, <3>5
  <2>9. UNCHANGED <<machine, pc, gdtr, supply, entry_state>>
    BY <1>1, <1>3, <2>5
  <2> QED
    BY <1>1, <2>5, <2>7, <2>8, <2>9 DEF FailuresExplained
<1> QED
  BY <1>2, <1>3

\* BootInfo is written where the loader has mapped it.
LEMMA WriteExplained ==
  ASSUME IInv, WriteBootInfo
  PROVE  FailuresExplained'
<1> DEFINE s == "map_boot_info"
<1>1. pc = "write_boot_info" /\ failure = None
  BY DEF WriteBootInfo, At
<1>2. Rank(pc) = 19 /\ Rank("map_boot_info_again") = 18 /\ Rank(s) = 17 /\ s \in MapSteps
  BY <1>1 DEF Rank, MapSteps
<1>3. LoaderDone = Count(s)
  BY <1>1, <1>2 DEF LoaderDone
<1>4. Ready(s)
  BY <1>2 DEF Ready
<1>5. Count(s) \in Nat /\ Width(s) = 1
  BY <1>2, <1>4, Areas DEF AreaOK, Width, IInv, MInv
<1>6. DOMAIN mapped["bootloader"] = AllPages(s)
  BY <1>3, <1>5 DEF IInv, MInv, BootInv, AllPages
<1>7. pages_of(at["boot_info"], boot_info_size) = AllPages(s)
  BY AreaPagesHold DEF AreaPagesFacts, IInv, MInv
<1>8. failure' = None
  BY <1>1, <1>6, <1>7 DEF WriteBootInfo
<1> QED
  BY <1>8, NoneAssumption DEF Failures, FailuresExplained

\* Everything context_switch needs is mapped.
LEMMA SwitchExplained ==
  ASSUME IInv, context_switch
  PROVE  FailuresExplained'
<1>1. pc = "switch" /\ failure = None
  BY DEF context_switch, At
<1>2. Entered
  BY <1>1, EnteredHolds
<1>3. ASSUME NEW s \in {"identity_map", "map_gdt"}, NEW p \in AllPages(s) PROVE is_mapped("kernel", p, p)
  <2>1. s \in ShownSteps /\ FirstFrame(s) = First(s) /\ First(s) \in Int /\ p \in Int
    BY FirstsHold DEF ShownSteps, FirstFrame, First, FirstsInt, IInv, MInv, MapSteps, AllPages
  <2>2. FirstFrame(s) + (p - First(s)) = p
    BY <2>1
  <2> QED
    BY <1>2, <2>1, <2>2, ShownAt
<1>4. \A f \in {machine.code, machine.code + 1, gdtr} : is_mapped("kernel", f, f)
  BY <1>2, <1>3, ExpectedAreas
<1>5. \A s \in MapSteps \ {"init_heap"} : AllPages(s) \subseteq DOMAIN mapped["kernel"]
  BY <1>2 DEF Entered, IInv, MInv, DomInv
<1>6. containing(stack_top - 1) \in DOMAIN mapped["kernel"]
  <2>1. "stack" \in Things \ {"kernel"} /\ at["stack"] # NoAddress
    BY <1>2 DEF Entered, Present, Things
  <2>2. at["stack"] \in Nat
    BY <2>1, PlacedAligned
  <2>3. stack_start \in Nat /\ STACK_SIZE \in Nat \ {0}
    BY <2>2, PagingAssumption DEF stack_start
  <2>4. stack_top - 1 \in Nat /\ stack_start <= stack_top - 1 /\ stack_top - 1 = stack_start + STACK_SIZE - 1
    BY <2>3 DEF stack_top
  <2>5. containing(stack_start) <= containing(stack_top - 1) /\ containing(stack_top - 1) \in Nat /\ containing(stack_start) \in Nat
    BY <2>3, <2>4, PagesOrdered, PageOfAddress
  <2>6. containing(stack_top - 1) \in pages_of(stack_start, STACK_SIZE)
    BY <2>4, <2>5 DEF pages_of
  <2> QED
    BY <1>2, <1>5, <2>6, ExpectedAreas DEF MapSteps
<1>7. containing(image_offset + Kernel.entry_point) \in DOMAIN mapped["kernel"]
  <2>1. PICK s \in Kernel.segments : Kernel.entry_point \in s.virtual_addr .. s.virtual_addr + s.mem_size - 1
    BY MachinesAssumption DEF IInv, RefInv, WellFormed, WellFormedKernel, Kernel
  <2>2. HasSegments(Kernel.segments) /\ \A u \in Kernel.segments : u.mem_size > 0
    BY MachinesAssumption DEF IInv, RefInv, WellFormed, WellFormedKernel, Kernel
  <2>3. \E a \in {u.virtual_addr : u \in Kernel.segments} : \A t \in Kernel.segments : a <= t.virtual_addr
    BY <2>2 DEF HasSegments
  <2>4. /\ min_addr(Kernel.segments) <= s.virtual_addr /\ s.virtual_addr \in Nat /\ s.mem_size \in Nat \ {0}
        /\ min_addr(Kernel.segments) \in Nat
    BY <2>1, <2>2, <2>3, KernelExtent DEF min_addr, HasSegments, IInv, RefInv
  <2>5. at["kernel"] \in Nat
    <3>1. "kernel" \in Things /\ at["kernel"] # NoAddress
      BY <1>2 DEF Entered, Present, Things
    <3> QED
      BY <3>1 DEF IInv, RefInv
  <2> DEFINE a == image_offset + s.virtual_addr
             e == image_offset + Kernel.entry_point
  <2>6. image_offset \in Int /\ a \in Nat
    BY <2>4, <2>5 DEF image_offset
  <2>7. a <= e /\ e <= a + s.mem_size - 1 /\ e \in Nat /\ a + s.mem_size - 1 \in Nat
    BY <2>1, <2>4, <2>6
  <2> HIDE DEF a, e
  <2>8. /\ containing(a) <= containing(e) /\ containing(e) <= containing(a + s.mem_size - 1)
        /\ containing(a) \in Nat /\ containing(e) \in Nat /\ containing(a + s.mem_size - 1) \in Nat
    BY <2>6, <2>7, PagesOrdered, PageOfAddress
  <2>9. containing(e) \in pages_of(a, s.mem_size)
    BY <2>8 DEF pages_of
  <2>10. containing(e) \in kernel_pages
    BY <2>1, <2>9 DEF kernel_pages, segment_pages, a
  <2> QED
    BY <1>2, <2>10 DEF Entered, unmapped_kernel_pages, e
<1>8. pages_of(at["boot_info"], boot_info_size) \subseteq DOMAIN mapped["kernel"]
  BY <1>2, <1>5, ExpectedAreas DEF MapSteps
<1>9. failure' = None
  BY <1>1, <1>4, <1>6, <1>7, <1>8 DEF context_switch, switch_faults
<1> QED
  BY <1>9, NoneAssumption DEF Failures, FailuresExplained

LEMMA NoFailure == failure' = None => FailuresExplained'
BY NoneAssumption DEF Failures, FailuresExplained

LEMMA LoopsExplained ==
  ASSUME IInv, \/ MapStackPage \/ IdentityMapCode \/ MapGdt \/ MapFramebufferPage
               \/ MapRamdiskPage \/ MapPhysicalMemoryPage
  PROVE  FailuresExplained'
<1>1. PICK s, frame, own : LoopBody(s, frame, own)
  BY LoopForm DEF IInv
<1>2. pc # "init_heap"
  BY DEF MapStackPage, IdentityMapCode, MapGdt, MapFramebufferPage, MapRamdiskPage, MapPhysicalMemoryPage, At
<1>3. s \in MapSteps \ {"init_heap"} /\ pc = s /\ own \in {0, 1}
  BY <1>1, <1>2 DEF LoopBody
<1>4. Rank(pc) > Rank("kernel_table") /\ ~KernelEntered /\ pc # "switch" /\ "kernel" \in Spaces
  <2>1. Rank(s) \in {6, 7, 9, 11, 13, 15, 17} /\ Rank("kernel_table") = 2
    BY <1>3 DEF MapSteps, Rank
  <2> QED
    BY <1>3, <2>1 DEF KernelEntered, MapSteps, Spaces
<1> DEFINE page == First(s) + Width(s) * loop
<1>5. page \in Nat /\ Width(s) \in Nat
  <2>1. AreaOK(s) /\ loop \in Nat
    BY <1>3, <1>4, DoneBound, Areas DEF IInv, MInv, LoopInv
  <2>2. First(s) \in Nat /\ Width(s) \in Nat
    BY <1>3, <2>1, FirstInt DEF AreaOK, IInv, MInv
  <2>3. Width(s) * loop \in Nat
    BY <2>1, <2>2
  <2> QED
    BY <2>2, <2>3
<1>6. page_taken("kernel", page, Width(s)) => pc = "map_gdt" /\ gdtr = machine.code + 1
  <2>1. CASE s = "map_gdt"
    <3>1. loop = 0
      <4>1. "map_gdt" \in MapSteps /\ Count("map_gdt") = 1
        BY DEF MapSteps, Count
      <4> QED
        BY <1>3, <2>1, <4>1 DEF IInv, MInv, LoopInv
    <3>2. page = gdtr + 1 * 0 /\ Width(s) = 1 /\ gdtr \in Int
      <4>1. First(s) = gdtr /\ Width(s) = 1 /\ First(s) \in Int
        BY <1>3, <2>1, FirstInt DEF First, Width, IInv, MInv
      <4> QED
        BY <3>1, <4>1
    <3>3. page = gdtr
      BY <3>2
    <3> QED
      BY <1>3, <2>1, <3>2, <3>3, GdtFree
  <2>2. CASE s # "map_gdt"
    BY <1>3, <2>2, LoopFree
  <2> QED
    BY <2>1, <2>2
<1>7. map_to("kernel", page, Width(s), frame, own, FALSE)
      /\ (failure' # None => UNCHANGED <<machine, pc, gdtr>>)
  BY <1>1 DEF LoopBody, Iteration, EndIteration
<1> HIDE DEF page
<1> QED
  BY <1>3, <1>4, <1>5, <1>6, <1>7, MapExplained

LEMMA KernelPageExplained ==
  ASSUME IInv, MapKernelPage
  PROVE  FailuresExplained'
<1> DEFINE page == CHOOSE p \in unmapped_kernel_pages : \A q \in unmapped_kernel_pages : p <= q
           nth  == page - containing(at["kernel"])
           own  == IF nth \in Kernel.own THEN 1 ELSE 0
           frame == IF own = 1 THEN Head(supply) ELSE Kernel.file + nth
           writes == own = 1
<1>1. /\ pc = "map_kernel" /\ map_to("kernel", page, 1, frame, own, writes)
      /\ failure' # None => UNCHANGED <<machine, pc, gdtr>>
  BY DEF MapKernelPage, At, Goto, kernel_page, image_page, own_frames
<1>2. Rank(pc) > Rank("kernel_table") /\ Rank(pc) > Rank("kernel") /\ ~KernelEntered /\ pc # "switch" /\ "kernel" \in Spaces
  BY <1>1 DEF Rank, KernelEntered, Spaces
<1>3. page \in unmapped_kernel_pages /\ page \in Nat
  <2>1. unmapped_kernel_pages # {} /\ unmapped_kernel_pages \subseteq kernel_pages
    BY <1>1 DEF IInv, MInv, DomInv, unmapped_kernel_pages
  <2>2. \A p \in kernel_pages : p \in Nat
    BY <1>2, KernelArea DEF IInv, MInv
  <2>3. unmapped_kernel_pages \subseteq Nat
    BY <2>1, <2>2
  <2>4. \E p \in unmapped_kernel_pages : \A q \in unmapped_kernel_pages : p <= q
    BY <2>1, <2>3, LayoutAssumptions, LayoutThms!LeastNatural
  <2>5. page \in unmapped_kernel_pages
    BY <2>4
  <2> HIDE DEF page
  <2> QED
    BY <2>3, <2>5
<1> HIDE DEF page
<1>4. ~page_taken("kernel", page, 1)
  <2>1. page .. page + 1 - 1 = {page} /\ ~(1 > 1)
    BY <1>3
  <2> QED
    BY <1>3, <2>1 DEF page_taken, unmapped_kernel_pages
<1>5. own \in {0, 1}
  OBVIOUS
<1> HIDE DEF own, frame, writes
<1> QED
  BY <1>1, <1>2, <1>3, <1>4, <1>5, MapExplained

LEMMA BootInfoExplained ==
  ASSUME IInv, MapBootInfoKernel \/ MapBootInfoBootloader
  PROVE  FailuresExplained'
<1> DEFINE s == "map_boot_info"
<1>1. /\ pc \in {"map_boot_info", "map_boot_info_again"}
      /\ failure' # None => UNCHANGED <<machine, pc, gdtr>>
  BY DEF MapBootInfoKernel, MapBootInfoBootloader, At
<1>2. /\ Rank(pc) > Rank("kernel_table") /\ ~KernelEntered /\ pc # "switch" /\ Spaces = {"kernel", "bootloader"}
      /\ s \in MapSteps \ {"init_heap", "map_gdt"} /\ Rank(pc) > Rank("boot_info")
  <2>1. Rank(pc) \in {17, 18} /\ Rank("kernel_table") = 2 /\ Rank("boot_info") = 16
    BY <1>1 DEF Rank
  <2>2. ~KernelEntered /\ pc # "switch"
    BY <1>1 DEF KernelEntered
  <2>3. Spaces = {"kernel", "bootloader"} /\ s \in MapSteps \ {"init_heap", "map_gdt"}
    BY DEF Spaces, MapSteps
  <2> QED
    BY <2>1, <2>2, <2>3
<1>3. boot_info_page \in Nat /\ boot_info_page = First(s) + loop /\ Width(s) = 1 /\ loop \in Nat /\ First(s) \in Nat
  <2>1. at["boot_info"] \in Nat
    <3>1. "boot_info" \in Things \ {"kernel"} /\ at["boot_info"] # NoAddress
      BY <1>2 DEF Things, Present, IInv, MInv, AtInv
    <3> QED
      BY <3>1, PlacedAligned
  <2>2. loop \in Nat /\ First(s) = containing(at["boot_info"]) /\ First(s) \in Nat
    BY <2>1, PageOfAddress DEF First, IInv, MInv, LoopInv
  <2> QED
    BY <2>2 DEF boot_info_page, Width
<1>4. CASE MapBootInfoKernel
  <2>1. pc = s /\ map_to("kernel", boot_info_page, 1, Head(supply), 1, FALSE)
    BY <1>4 DEF MapBootInfoKernel, At
  <2>2. ~page_taken("kernel", boot_info_page, 1)
    <3>1. ~page_taken("kernel", First(s) + Width(s) * loop, Width(s))
      BY <1>2, <2>1, LoopFree
    <3>2. First(s) + Width(s) * loop = boot_info_page
      BY <1>3
    <3> QED
      BY <1>3, <3>1, <3>2
  <2> QED
    BY <1>1, <1>2, <1>3, <2>1, <2>2, MapExplained
<1>5. CASE MapBootInfoBootloader
  <2> DEFINE frame == mapped["kernel"][boot_info_page]
  <2>1. pc = "map_boot_info_again" /\ map_to("bootloader", boot_info_page, 1, frame, 0, FALSE)
    BY <1>5 DEF MapBootInfoBootloader, At
  <2>2. ~page_taken("bootloader", boot_info_page, 1)
    <3>1. DOMAIN mapped["bootloader"] = First(s) .. First(s) + loop - 1
      BY <2>1 DEF IInv, MInv, BootInv, LoaderDone
    <3>2. boot_info_page .. boot_info_page + 1 - 1 = {boot_info_page} /\ ~(1 > 1)
      BY <1>3
    <3>3. boot_info_page \notin First(s) .. First(s) + loop - 1
      BY <1>3
    <3> QED
      BY <3>1, <3>2, <3>3 DEF page_taken
  <2> HIDE DEF frame
  <2> QED
    BY <1>1, <1>2, <1>3, <2>1, <2>2, MapExplained
<1> QED
  BY <1>4, <1>5

\* The level-4 tables and the GDT take one frame each.
LEMMA FirstFramesExplained ==
  ASSUME IInv, CreateBootloaderTable \/ CreateKernelTable \/ create_and_load
  PROVE  FailuresExplained'
<1>1. CASE failure' = None
  BY <1>1, NoFailure
<1>2. CASE failure' # None
  <2>1. /\ UNCHANGED <<machine, supply, pc>> /\ pc \in {"bootloader_table", "kernel_table", "gdt"}
        /\ failure' \in {"no_frame", "fault"}
        /\ failure' = "no_frame" => supply = <<>>
        /\ failure' = "fault" => \/ supply # <<>> /\ ~accessible(Head(supply))
                                 \/ pc = "bootloader_table" /\ \E f \in loader_frames : f >= EntryPages
    BY <1>2 DEF CreateBootloaderTable, CreateKernelTable, NewLevel4Table, create_and_load, At
  <2>2. ~KernelEntered' /\ pc' # "switch"
    BY <2>1 DEF KernelEntered
  <2>3. failure' = "no_frame" => Len(supply) < 4
    BY <2>1
  <2>4. ASSUME failure' = "fault", ~(pc = "bootloader_table" /\ \E f \in loader_frames : f >= EntryPages)
        PROVE  \E i \in 1 .. Len(supply) : i <= 4 /\ supply[i] >= EntryPages
    <3>1. supply # <<>> /\ ~accessible(Head(supply))
      BY <2>1, <2>4
    <3>2. Head(supply) = supply[1] /\ supply[1] \in Nat /\ Len(supply) \in Nat /\ 1 \in 0 .. Len(supply)
      BY <3>1, HeadGranted DEF IInv, MInv
    <3>3. ~(supply[1] < EntryPages)
      BY <2>1, <3>1, <3>2 DEF accessible
    <3>4. 1 \in 1 .. Len(supply) /\ supply[1] >= EntryPages
      BY <3>2, <3>3, Paging
    <3> QED
      BY <3>4
  <2>5. loader_frames' = loader_frames
    BY <2>1 DEF loader_frames
  <2> QED
    BY <2>1, <2>2, <2>3, <2>4, <2>5 DEF FailuresExplained
<1> QED
  BY <1>1, <1>2

\* What the loader cannot read, or maps twice.
LEMMA RefusalExplained ==
  ASSUME IInv, HeadersUnreadable \/ RefuseKernelPage
  PROVE  FailuresExplained'
<1>1. /\ UNCHANGED <<machine, pc, supply, tables, mapped, at>> /\ pc \in {"kernel", "map_kernel"}
      /\ failure' \in {"fault", "already_mapped"}
  BY DEF HeadersUnreadable, RefuseKernelPage, refusal, At
<1>2. ~KernelEntered' /\ pc' # "switch" /\ \A f : accessible(f) <=> f < EntryPages
  BY <1>1 DEF KernelEntered, accessible
<1>3. Kernel' = Kernel /\ shared_pages' = shared_pages
  BY <1>1 DEF Kernel, shared_pages, kernel_pages, segment_pages, image_offset
<1>4. Kernel.file \in Nat /\ EntryPages \in Nat
  BY Paging, MachinesAssumption DEF IInv, RefInv, WellFormed, WellFormedKernel, Kernel
<1>5. CASE HeadersUnreadable
  <2>1. pc = "kernel" /\ failure' = "fault" /\ Kernel.file >= EntryPages
    BY <1>2, <1>4, <1>5 DEF HeadersUnreadable, At
  <2> QED
    BY <1>1, <1>2, <1>3, <2>1 DEF FailuresExplained
<1>6. CASE RefuseKernelPage
  <2>1. pc = "map_kernel" /\ failure' = refusal /\ refusal # None
    BY <1>6 DEF RefuseKernelPage, At
  <2>2. failure' = "already_mapped" => shared_pages # {}
    BY <2>1 DEF refusal
  <2>3. ASSUME failure' = "fault" PROVE \E i \in Kernel.read : Kernel.file + i >= EntryPages
    <3>1. image_page \in Kernel.read /\ ~(Kernel.file + image_page < EntryPages)
      BY <1>2, <2>1, <2>3 DEF refusal
    <3>2. image_page \in Nat
      BY <3>1, MachinesAssumption DEF IInv, RefInv, WellFormed, WellFormedKernel, Kernel
    <3> QED
      BY <1>4, <3>1, <3>2
  <2> QED
    BY <1>1, <1>2, <1>3, <2>1, <2>2, <2>3 DEF FailuresExplained
<1> QED
  BY <1>5, <1>6

LEMMA PlacingExplained ==
  ASSUME \/ PlaceStack \/ PlaceFramebuffer \/ PlaceRamdisk \/ PlacePhysicalMemory \/ PlaceBootInfo
         \/ PlaceExecutable \/ PlaceSharedObject \/ NoFramebuffer \/ NoRamdisk
  PROVE  FailuresExplained'
<1>1. failure' \in {None, "no_entries"}
  BY DEF PlaceStack, PlaceFramebuffer, PlaceRamdisk, PlacePhysicalMemory, PlaceBootInfo, PlaceExecutable,
         PlaceSharedObject, NoFramebuffer, NoRamdisk, Skip, place, At
<1>2. failure' = "no_entries" => FailuresExplained'
  BY DEF FailuresExplained
<1> QED
  BY <1>1, <1>2, NoFailure

LEMMA KernelMainExplained ==
  ASSUME IInv, KernelMain
  PROVE  FailuresExplained'
<1>1. pc = "kernel_main" /\ failure = None /\ UNCHANGED machine
  BY DEF KernelMain, At
<1>2. CASE boot_info.framebuffer = NoAddress
  <2>1. failure' = "no_framebuffer" /\ Framebuffer' = Framebuffer
    BY <1>1, <1>2 DEF KernelMain, Framebuffer
  <2>2. Framebuffer = None
    BY <1>1, <1>2, InvAddressSpace DEF AddressSpaceTrue, KernelEntered
  <2> QED
    BY <2>1, <2>2 DEF FailuresExplained
<1>3. CASE boot_info.framebuffer # NoAddress
  BY <1>1, <1>3, NoFailure DEF KernelMain
<1> QED
  BY <1>2, <1>3

LEMMA NextExplained == IInv /\ FailuresExplained /\ [Next]_vars => FailuresExplained'
<1> SUFFICES ASSUME IInv, FailuresExplained, [Next]_vars PROVE FailuresExplained'
  OBVIOUS
<1>1. CASE UNCHANGED vars
  <2>1. /\ KernelEntered' = KernelEntered /\ Framebuffer' = Framebuffer /\ Kernel' = Kernel
        /\ loader_frames' = loader_frames
    BY <1>1 DEF vars, KernelEntered, Framebuffer, Kernel, loader_frames
  <2>2. shared_pages' = shared_pages
    BY <1>1, <2>1 DEF vars, shared_pages, kernel_pages, segment_pages, image_offset
  <2> QED
    BY <1>1, <2>1, <2>2 DEF vars, FailuresExplained
<1>2. CASE Next
  <2>1. CASE MapStackPage \/ IdentityMapCode \/ MapGdt \/ MapFramebufferPage \/ MapRamdiskPage \/ MapPhysicalMemoryPage
    BY <2>1, LoopsExplained
  <2>2. CASE \/ PlaceStack \/ PlaceFramebuffer \/ PlaceRamdisk \/ PlacePhysicalMemory \/ PlaceBootInfo
             \/ PlaceExecutable \/ PlaceSharedObject \/ NoFramebuffer \/ NoRamdisk
    BY <2>2, PlacingExplained
  <2>3. CASE CreateBootloaderTable \/ CreateKernelTable \/ create_and_load
    BY <2>3, FirstFramesExplained
  <2>4. CASE MapBootInfoKernel \/ MapBootInfoBootloader
    BY <2>4, BootInfoExplained
  <2>5. CASE MapKernelPage
    BY <2>5, KernelPageExplained
  <2>6. CASE WriteBootInfo
    BY <2>6, WriteExplained
  <2>7. CASE context_switch
    BY <2>7, SwitchExplained
  <2>8. CASE KernelMain
    BY <2>8, KernelMainExplained
  <2>9. CASE init_heap
    BY <2>9, HeapExplained
  <2>10. CASE HeadersUnreadable \/ RefuseKernelPage
    BY <2>10, RefusalExplained
  <2> QED
    BY <1>2, <2>1, <2>2, <2>3, <2>4, <2>5, <2>6, <2>7, <2>8, <2>9, <2>10 DEF Next
<1> QED
  BY <1>1, <1>2

-----------------------------------------------------------------------------
(***************************************************************************)
(* Every variable of BootMappings.tla keeps its type: every mapped page    *)
(* lies in the 2^48 bytes of an address space, every table at one of four  *)
(* levels, and BootInfo is written before context_switch, for every        *)
(* machine and every size of the tables.                                   *)
(***************************************************************************)
THEOREM MappingsTyped == Spec => []TypeOK
BY BootInvariant, InvTypeOK, PTL

(***************************************************************************)
(* No frame of physical memory serves two purposes (allocate_frame of      *)
(* initium and of nukleus, and what is allocated with them): the page      *)
(* tables of both address spaces, the GDT, the stack, BootInfo, the        *)
(* kernel's own pages and the heap never share one, and until the switch   *)
(* none of them is the frame of the code that runs.                        *)
(***************************************************************************)
THEOREM FramesNeverShared == Spec => []FramesExclusive
BY BootInvariant, InvFramesExclusive, PTL

(***************************************************************************)
(* When the kernel is entered its address space holds what create_mappings *)
(* is to map and nothing else, the guard page is unmapped, BootInfo is the *)
(* same memory in both address spaces, and the ramdisk, the framebuffer    *)
(* and all physical memory are found where BootInfo says.                  *)
(***************************************************************************)
THEOREM AddressSpaceHolds == Spec => []AddressSpaceTrue
BY BootInvariant, InvAddressSpace, PTL

(***************************************************************************)
(* The boot fails only for a reason that FailuresExplained names: in       *)
(* particular no step of context_switch and none of the kernel faults; the *)
(* loader faults only on its own code or data, the kernel file or a frame  *)
(* it was granted above 512 GiB; and map_to refuses a page only for two    *)
(* segments that share it, for the GDT behind context_switch or for the    *)
(* heap in an entry that is taken.                                         *)
(***************************************************************************)
THEOREM FailuresAreExplained == Spec => []FailuresExplained
<1>1. Init => FailuresExplained
  BY NoneAssumption DEF Init, Failures, FailuresExplained
<1> QED
  BY <1>1, BootInvariant, NextExplained, PTL DEF Spec
=============================================================================
