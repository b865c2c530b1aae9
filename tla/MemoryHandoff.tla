--------------------------- MODULE MemoryHandoff ---------------------------
(***************************************************************************)
(* Physical memory from the boot loader to the kernel.  initium takes      *)
(* frames from its allocator (LegacyFrameAllocator), reports what is left  *)
(* (MemoryRegions) and jumps to nukleus, whose own frame allocator         *)
(* (nukleus/src/memory.rs) hands out the Usable regions to init_heap       *)
(* (nukleus/src/memory/allocator.rs).  The two allocators never meet: only *)
(* the report carries what the first one did to the second.                *)
(***************************************************************************)
EXTENDS UefiMemoryMap, FiniteSets

CONSTANTS
  Boots,         \* [original, kernel_slice_start, kernel_slice_len]: what the firmware
                 \* and load_file_from_disk may leave behind
  Addresses,     \* see MemoryRegions
  LoaderFrames,  \* bound: the frames initium takes, at most
  HeapPages      \* HEAP_SIZE / 4096 (25 in the code)

ASSUME BootsWellFormed ==
  \A b \in Boots :
    /\ WellFormedMap(b.original)
    /\ b.kernel_slice_start \in Nat
    /\ b.kernel_slice_len \in Nat \ {0}
    /\ KernelInLoaderData(b.original, b.kernel_slice_start, b.kernel_slice_len)

ASSUME HandoffAssumption == HeapPages \in Nat /\ LoaderFrames \in Nat

VARIABLES
  original, memory_map, current_descriptor, next_frame, alloc_pc, ret, allocated,
  kernel_slice_start, kernel_slice_len, regions, descriptor, build_pc,
  next,     \* NukleusFrameAllocator::next
  grants,   \* history: the frames nukleus has allocated, in order
  phase     \* "initium", "construct", "nukleus", "running" or a panic

allocVars == <<original, memory_map, current_descriptor, next_frame, alloc_pc, ret, allocated>>
buildVars == <<regions, descriptor, build_pc>>
sliceVars == <<kernel_slice_start, kernel_slice_len>>
nukleusVars == <<next, grants>>

vars == <<allocVars, buildVars, sliceVars, nukleusVars, phase>>

Alloc == INSTANCE LegacyFrameAllocator WITH
           pc <- alloc_pc, MemoryMaps <- {b.original : b \in Boots}

Build == INSTANCE MemoryRegions WITH pc <- build_pc, Inputs <- Boots

Init ==
  /\ Alloc!Init
  /\ \E b \in Boots : /\ original = b.original
                      /\ kernel_slice_start = b.kernel_slice_start
                      /\ kernel_slice_len = b.kernel_slice_len
  /\ regions = <<>> /\ descriptor = 1 /\ build_pc = "loop"
  /\ next = 0 /\ grants = <<>>
  /\ phase = "initium"

(***************************************************************************)
(* initium allocates frames for page tables, the kernel's stack and data,  *)
(* the GDT and the boot information; each caller panics on None.           *)
(***************************************************************************)
InitiumAllocates ==
  /\ phase = "initium"
  /\ alloc_pc = "idle" => Cardinality(allocated) < LoaderFrames
  /\ Alloc!Next
  /\ phase' = IF alloc_pc = "scan" /\ alloc_pc' = "idle" /\ ret' = Alloc!NoFrame
                THEN "initium_panic" ELSE phase
  /\ UNCHANGED <<buildVars, sliceVars, nukleusVars>>

\* create_boot_info calls construct_memory_map, which consumes the allocator;
\* create_page_tables alone has taken two frames by then.
CallConstruct ==
  /\ phase = "initium"
  /\ alloc_pc = "idle"
  /\ Cardinality(allocated) >= 2
  /\ phase' = "construct"
  /\ UNCHANGED <<allocVars, buildVars, sliceVars, nukleusVars>>

\* When the report is complete, switch_to_kernel enters nukleus.
Construct ==
  /\ phase = "construct"
  /\ Build!construct_memory_map
  /\ phase' = CASE build_pc' = "done" -> "nukleus"
                [] build_pc' = "panicked" -> "initium_panic"
                [] OTHER -> phase
  /\ UNCHANGED <<memory_map, current_descriptor, alloc_pc, ret, allocated, nukleusVars>>

(***************************************************************************)
(* NukleusFrameAllocator::usable_frames: in each Usable region the frames  *)
(* containing r.start, r.start + 4096, ... below r.end.  The iterator's    *)
(* items are named by the region they come from and their place in it, and *)
(* come in the order of regions, then places; nth counts those before.     *)
(***************************************************************************)
region_frames_InclusiveEnd(r) == (r.end - r.start) \div PAGE_SIZE + 1

region_frames(r) == (r.end - r.start + PAGE_SIZE - 1) \div PAGE_SIZE

usable_frames ==
  UNION {{<<j, i>> : i \in 0 .. region_frames(regions[j]) - 1} :
           j \in {k \in 1 .. Len(regions) : regions[k].kind = "Usable"}}

frame(item) == containing_address(regions[item[1]].start + item[2] * PAGE_SIZE)

precedes(x, y) == x[1] < y[1] \/ (x[1] = y[1] /\ x[2] < y[2])

before(item) == {x \in usable_frames : precedes(x, item)}

nth(n) == CHOOSE item \in usable_frames : Cardinality(before(item)) = n

(***************************************************************************)
(* init_heap: one frame per heap page, and for the first page the three    *)
(* page tables that map_to allocates under the unused level-4 slot of      *)
(* HEAP_START.  A missing frame is an error, which main turns into a       *)
(* panic.  NukleusFrameAllocator::allocate_frame counts each call.         *)
(***************************************************************************)
HeapNeeds == HeapPages + 3

init_heap_CountsTwice ==
  /\ phase = "nukleus"
  /\ Len(grants) < HeapNeeds
  /\ next' = next + 2
  /\ IF next < Cardinality(usable_frames)
       THEN grants' = Append(grants, frame(nth(next))) /\ UNCHANGED phase
       ELSE phase' = "nukleus_panic" /\ UNCHANGED grants
  /\ UNCHANGED <<allocVars, buildVars, sliceVars>>

init_heap ==
  /\ phase = "nukleus"
  /\ Len(grants) < HeapNeeds
  /\ next' = next + 1
  /\ IF next < Cardinality(usable_frames)
       THEN grants' = Append(grants, frame(nth(next))) /\ UNCHANGED phase
       ELSE phase' = "nukleus_panic" /\ UNCHANGED grants
  /\ UNCHANGED <<allocVars, buildVars, sliceVars>>

HeapReady ==
  /\ phase = "nukleus"
  /\ Len(grants) = HeapNeeds
  /\ phase' = "running"
  /\ UNCHANGED <<allocVars, buildVars, sliceVars, nukleusVars>>

Next == InitiumAllocates \/ CallConstruct \/ Construct \/ init_heap \/ HeapReady

Spec == Init /\ [][Next]_vars

-----------------------------------------------------------------------------

\* Frames of memory that outlives boot services.
SurvivingFrames ==
  UNION {start_frame(original[k]) .. end_frame(original[k]) :
           k \in {i \in 1 .. Len(original) : usable_after_bootloader_exit(original[i])}}

\* The frames that hold some of the kernel image, and those it fills.
ImageFrames ==
  containing_address(kernel_slice_start)
    .. containing_address(kernel_slice_start + kernel_slice_len - 1)

FullImageFrames ==
  containing_address(kernel_slice_start)
    .. containing_address(kernel_slice_start + kernel_slice_len) - 1

TypeOK ==
  /\ Alloc!TypeOK
  /\ Build!TypeOK
  /\ next \in 0 .. HeapNeeds
  /\ grants \in Seq(Nat)
  /\ phase \in {"initium", "construct", "nukleus", "running", "initium_panic", "nukleus_panic"}

(***************************************************************************)
(* No frame that nukleus uses for its heap or its page tables is in use    *)
(* for anything initium built (page tables, stack, GDT, boot info, copied  *)
(* kernel pages), is filled by the kernel image, or belongs to the         *)
(* firmware; and none is used twice.                                       *)
(***************************************************************************)
GrantsAreFree ==
  /\ \A i \in 1 .. Len(grants) : grants[i] \in SurvivingFrames \ (allocated \cup FullImageFrames)
  /\ \A i, j \in 1 .. Len(grants) : grants[i] = grants[j] => i = j

(***************************************************************************)
(* Panics are real.  initium panics in the handoff only if conventional    *)
(* memory is exhausted, never because the report was too long or its       *)
(* assertions failed; nukleus only if the free frames of the whole machine *)
(* do not suffice for the heap and its tables.                             *)
(***************************************************************************)
PanicsAreReal ==
  /\ phase = "initium_panic" => allocated = ConventionalFrames(original)
  /\ phase = "nukleus_panic" =>
       Cardinality(SurvivingFrames \ (allocated \cup ImageFrames \cup {0})) < HeapNeeds

(***************************************************************************)
(* construct_memory_map cuts the kernel image out of the memory it reports *)
(* as Usable ("region overlaps with kernel -> we might need to split it",  *)
(* memory.rs:158): no frame nukleus uses holds a byte of the image.        *)
(***************************************************************************)
KernelImageKept == \A i \in 1 .. Len(grants) : grants[i] \notin ImageFrames
=============================================================================
