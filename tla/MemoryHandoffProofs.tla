------------------------ MODULE MemoryHandoffProofs ------------------------
(***************************************************************************)
(* Proofs about the handoff of physical memory, for every well-formed      *)
(* memory map, every place of the kernel image and every size of the heap: *)
(* nukleus is granted free frames only, each once, and both programs panic *)
(* only when memory is really exhausted.  The proofs rest on the inductive *)
(* invariants of the two components, instantiated here.                    *)
(***************************************************************************)
EXTENDS MemoryHandoff, TLAPS, FiniteSetTheorems

AP == INSTANCE LegacyFrameAllocatorProofs WITH
        pc <- alloc_pc, MemoryMaps <- {b.original : b \in Boots}

\* The report is compared at every address.
BP == INSTANCE MemoryRegionsProofs WITH pc <- build_pc, Inputs <- {}, Addresses <- Nat

-----------------------------------------------------------------------------
(***************************************************************************)
(* The components' definitions in this module and in their proofs' modules *)
(* are the same.                                                           *)
(***************************************************************************)
LEMMA SameAllocOperators ==
  /\ \A d : /\ AP!start_frame(d) = start_frame(d) /\ AP!end_frame(d) = end_frame(d)
            /\ AP!kind(d) = kind(d) /\ AP!start(d) = start(d) /\ AP!len(d) = len(d)
            /\ Alloc!start_frame(d) = start_frame(d) /\ Alloc!end_frame(d) = end_frame(d)
            /\ Alloc!kind(d) = kind(d) /\ Alloc!start(d) = start(d) /\ Alloc!len(d) = len(d)
  /\ AP!PAGE_SIZE = PAGE_SIZE /\ Alloc!PAGE_SIZE = PAGE_SIZE
  /\ AP!UefiMemoryDescriptor = UefiMemoryDescriptor
  /\ Alloc!UefiMemoryDescriptor = UefiMemoryDescriptor
BY DEF AP!start_frame, AP!end_frame, AP!kind, AP!start, AP!len, AP!containing_address, AP!PAGE_SIZE,
       Alloc!start_frame, Alloc!end_frame, Alloc!kind, Alloc!start, Alloc!len,
       Alloc!containing_address, Alloc!PAGE_SIZE,
       start_frame, end_frame, kind, start, len, containing_address, PAGE_SIZE,
       AP!UefiMemoryDescriptor, AP!MemoryType, Alloc!UefiMemoryDescriptor, Alloc!MemoryType,
       UefiMemoryDescriptor, MemoryType

LEMMA SameMaps ==
  ASSUME NEW m
  PROVE  /\ AP!WellFormedMap(m) <=> WellFormedMap(m)
         /\ Alloc!WellFormedMap(m) <=> WellFormedMap(m)
         /\ AP!ConventionalFrames(m) = ConventionalFrames(m)
BY SameAllocOperators DEF AP!WellFormedMap, Alloc!WellFormedMap, WellFormedMap,
                          AP!ConventionalFrames, ConventionalFrames

LEMMA MapsAssumed == AP!MapsWellFormed
BY BootsWellFormed, SameMaps DEF AP!MapsWellFormed

\* What is proved of memory maps beside the frame allocator holds here as well.
LEMMA FrameBounds ==
  ASSUME NEW m, WellFormedMap(m), NEW i \in 1 .. Len(m)
  PROVE  /\ m[i].phys_start \in Nat
         /\ m[i].page_count \in Nat
         /\ start_frame(m[i]) \in Nat
         /\ end_frame(m[i]) \in Nat
         /\ start(m[i]) = PAGE_SIZE * start_frame(m[i])
         /\ start(m[i]) + len(m[i]) = PAGE_SIZE * (end_frame(m[i]) + 1)
         /\ start_frame(m[i]) <= end_frame(m[i])
BY SameAllocOperators, SameMaps, MapsAssumed, AP!FrameBounds

LEMMA FramesOrdered ==
  ASSUME NEW m, WellFormedMap(m), NEW i \in 1 .. Len(m), NEW j \in 1 .. Len(m), i < j
  PROVE  end_frame(m[i]) < start_frame(m[j])
BY SameAllocOperators, SameMaps, MapsAssumed, AP!FramesOrdered

LEMMA ConventionalMember ==
  ASSUME NEW m, WellFormedMap(m), NEW f
  PROVE  f \in ConventionalFrames(m) <=>
           /\ f \in Nat
           /\ f # 0
           /\ \E i \in 1 .. Len(m) : /\ kind(m[i]) = "Usable"
                                     /\ start_frame(m[i]) <= f
                                     /\ f <= end_frame(m[i])
BY SameAllocOperators, SameMaps, MapsAssumed, AP!ConventionalMember

LEMMA SameAllocator ==
  /\ Alloc!Init <=> AP!Init
  /\ Alloc!Next <=> AP!Next
  /\ Alloc!TypeOK <=> AP!TypeOK
  /\ Alloc!NoFrame = AP!NoFrame
<1>1. Alloc!Init <=> AP!Init
  BY DEF Alloc!Init, AP!Init, Alloc!new, AP!new, Alloc!NoFrame, AP!NoFrame,
         Alloc!NoDescriptor, AP!NoDescriptor, Alloc!containing_address, AP!containing_address,
         Alloc!PAGE_SIZE, AP!PAGE_SIZE
<1>2. Alloc!TypeOK <=> AP!TypeOK
  BY SameMaps DEF Alloc!TypeOK, AP!TypeOK, Alloc!NoFrame, AP!NoFrame
<1>3. ASSUME NEW d PROVE /\ Alloc!Take(d) <=> AP!Take(d)
                         /\ Alloc!Miss(d) <=> AP!Miss(d)
                         /\ Alloc!kind(d) = AP!kind(d)
  BY SameAllocOperators DEF Alloc!Take, AP!Take, Alloc!Miss, AP!Miss, Alloc!Fits, AP!Fits,
                            Alloc!Raised, AP!Raised
<1>4. Alloc!NoFrame = AP!NoFrame /\ Alloc!NoDescriptor = AP!NoDescriptor
  BY DEF Alloc!NoFrame, AP!NoFrame, Alloc!NoDescriptor, AP!NoDescriptor
<1>5. Alloc!Next <=> AP!Next
  <2>1. Alloc!Call <=> AP!Call
    BY <1>4 DEF Alloc!Call, AP!Call
  <2>2. Alloc!FromCurrent <=> AP!FromCurrent
    BY <1>3 DEF Alloc!FromCurrent, AP!FromCurrent
  <2>3. Alloc!LeaveCurrent <=> AP!LeaveCurrent
    BY <1>3, <1>4 DEF Alloc!LeaveCurrent, AP!LeaveCurrent
  <2>4. Alloc!SkipDescriptor <=> AP!SkipDescriptor
    BY <1>3 DEF Alloc!SkipDescriptor, AP!SkipDescriptor
  <2>5. Alloc!FromNext <=> AP!FromNext
    BY <1>3 DEF Alloc!FromNext, AP!FromNext
  <2>6. Alloc!PassNext <=> AP!PassNext
    BY <1>3 DEF Alloc!PassNext, AP!PassNext
  <2>7. Alloc!ReturnNone <=> AP!ReturnNone
    BY <1>4 DEF Alloc!ReturnNone, AP!ReturnNone
  <2> QED
    BY <2>1, <2>2, <2>3, <2>4, <2>5, <2>6, <2>7
       DEF Alloc!Next, AP!Next, Alloc!allocate_frame, AP!allocate_frame
<1> QED
  BY <1>1, <1>2, <1>4, <1>5

LEMMA SameBuildOperators ==
  /\ \A d : /\ BP!kind(d) = kind(d) /\ BP!start(d) = start(d) /\ BP!len(d) = len(d)
            /\ BP!usable_after_bootloader_exit(d) <=> usable_after_bootloader_exit(d)
            /\ Build!kind(d) = kind(d) /\ Build!start(d) = start(d) /\ Build!len(d) = len(d)
            /\ Build!usable_after_bootloader_exit(d) <=> usable_after_bootloader_exit(d)
  /\ BP!PAGE_SIZE = PAGE_SIZE /\ Build!PAGE_SIZE = PAGE_SIZE
  /\ BP!next_free = next_frame * PAGE_SIZE /\ Build!next_free = next_frame * PAGE_SIZE
  /\ BP!kernel_slice_end = kernel_slice_start + kernel_slice_len
  /\ Build!kernel_slice_end = kernel_slice_start + kernel_slice_len
  /\ BP!UefiMemoryDescriptor = UefiMemoryDescriptor
  /\ Build!UefiMemoryDescriptor = UefiMemoryDescriptor
  /\ BP!MemoryRegion = Build!MemoryRegion
BY DEF BP!kind, BP!start, BP!len, BP!usable_after_bootloader_exit, BP!PAGE_SIZE, BP!next_free,
       Build!kind, Build!start, Build!len, Build!usable_after_bootloader_exit, Build!PAGE_SIZE,
       Build!next_free, kind, start, len, usable_after_bootloader_exit, PAGE_SIZE,
       BP!kernel_slice_end, Build!kernel_slice_end,
       BP!UefiMemoryDescriptor, BP!MemoryType, Build!UefiMemoryDescriptor, Build!MemoryType,
       UefiMemoryDescriptor, MemoryType, BP!MemoryRegion, Build!MemoryRegion,
       BP!MemoryRegionKind, Build!MemoryRegionKind

LEMMA SameBuildMaps ==
  ASSUME NEW m
  PROVE  /\ BP!WellFormedMap(m) <=> WellFormedMap(m)
         /\ Build!WellFormedMap(m) <=> WellFormedMap(m)
         /\ \A s, l : BP!KernelInLoaderData(m, s, l) <=> KernelInLoaderData(m, s, l)
BY SameBuildOperators DEF BP!WellFormedMap, Build!WellFormedMap, WellFormedMap,
                          BP!KernelInLoaderData, KernelInLoaderData

LEMMA SameBuilder ==
  /\ Build!construct_memory_map <=> BP!Next
  /\ Build!TypeOK <=> BP!TypeOK
<1>1. Build!TypeOK <=> BP!TypeOK
  BY SameBuildMaps, SameBuildOperators DEF Build!TypeOK, BP!TypeOK
<1>2. Build!Return <=> BP!Return
  BY DEF Build!Return, BP!Return, Build!inputVars, BP!inputVars
<1>3. ASSUME NEW d PROVE Build!region(d) = BP!region(d) /\ (Build!IsSplit(d) <=> BP!IsSplit(d))
  BY SameBuildOperators DEF Build!region, BP!region, Build!IsSplit, BP!IsSplit,
                            Build!region_kind, BP!region_kind
<1>4. ASSUME NEW r PROVE Build!overlaps_kernel(r) <=> BP!overlaps_kernel(r)
  BY SameBuildOperators DEF Build!overlaps_kernel, BP!overlaps_kernel
<1>5. ASSUME NEW d PROVE Build!asserts_hold(d) <=> BP!asserts_hold(d)
  BY <1>3, <1>4, SameBuildOperators DEF Build!asserts_hold, BP!asserts_hold,
                                        Build!kernel_inside, BP!kernel_inside
<1>6. ASSUME NEW rs, NEW r PROVE Build!add_region(rs, r) = BP!add_region(rs, r)
  BY DEF Build!add_region, BP!add_region
<1>7. ASSUME NEW rs, NEW r PROVE Build!add_rest(rs, r) = BP!add_rest(rs, r)
  BY <1>4, <1>6, SameBuildOperators
     DEF Build!add_rest, BP!add_rest, Build!before_kernel, BP!before_kernel,
         Build!kernel_region, BP!kernel_region, Build!after_kernel, BP!after_kernel
<1>8. ASSUME NEW rs, NEW d PROVE Build!add_used(rs, d) = BP!add_used(rs, d)
  BY <1>3, <1>6, SameBuildOperators DEF Build!add_used, BP!add_used, Build!used_region, BP!used_region
<1>9. ASSUME NEW rs, NEW d PROVE Build!add_descriptor(rs, d) = BP!add_descriptor(rs, d)
  BY <1>3, <1>7, <1>8 DEF Build!add_descriptor, BP!add_descriptor
<1>10. Build!Iterate <=> BP!Iterate
  BY <1>5, <1>9 DEF Build!Iterate, BP!Iterate, Build!capacity, BP!capacity,
                    Build!inputVars, BP!inputVars
<1> QED
  BY <1>1, <1>2, <1>10 DEF Build!construct_memory_map, BP!construct_memory_map, BP!Next

-----------------------------------------------------------------------------

InputsOK ==
  /\ WellFormedMap(original)
  /\ next_frame \in Nat
  /\ kernel_slice_start \in Nat
  /\ kernel_slice_len \in Nat \ {0}
  /\ KernelInLoaderData(original, kernel_slice_start, kernel_slice_len)

AllocInv == AP!IInv

\* construct_memory_map has not begun, or its own invariant holds.
BuildInv ==
  /\ phase \in {"initium", "initium_panic"} =>
       regions = <<>> /\ descriptor = 1 /\ build_pc = "loop"
  /\ phase \in {"construct", "nukleus", "running", "nukleus_panic"} => BP!IInv
  /\ phase = "construct" => build_pc = "loop"
  /\ phase \in {"nukleus", "running", "nukleus_panic"} => build_pc = "done"

InitiumPanicInv == phase = "initium_panic" => allocated = ConventionalFrames(original)

(***************************************************************************)
(* The n-th frame granted is the n-th item of usable_frames, and nukleus   *)
(* panics only when there is no further one.                               *)
(***************************************************************************)
GrantInv ==
  /\ grants \in Seq(Nat)
  /\ Len(grants) <= HeapNeeds
  /\ phase # "nukleus_panic" => next = Len(grants)
  /\ phase = "nukleus_panic" => /\ next = Len(grants) + 1
                                /\ Len(grants) < HeapNeeds
                                /\ Cardinality(usable_frames) <= Len(grants)
  /\ phase \in {"initium", "construct", "initium_panic"} => grants = <<>>
  /\ \A n \in 1 .. Len(grants) : /\ n - 1 < Cardinality(usable_frames)
                                 /\ grants[n] = frame(nth(n - 1))

IInv ==
  /\ phase \in {"initium", "construct", "nukleus", "running", "initium_panic", "nukleus_panic"}
  /\ InputsOK
  /\ AllocInv
  /\ BuildInv
  /\ InitiumPanicInv
  /\ GrantInv

-----------------------------------------------------------------------------
(***************************************************************************)
(* What nukleus finds in the report.                                       *)
(***************************************************************************)

\* An address in memory that outlives boot services, neither taken by the
\* loader nor part of the kernel image.
Free(a) ==
  /\ \E k \in 1 .. Len(original) :
       /\ start(original[k]) <= a /\ a < start(original[k]) + len(original[k])
       /\ usable_after_bootloader_exit(original[k])
       /\ kind(original[k]) = "Usable" => a >= next_frame * PAGE_SIZE
  /\ ~(kernel_slice_start <= a /\ a < kernel_slice_start + kernel_slice_len)

Reported == InputsOK /\ BP!IInv /\ build_pc = "done"

LEMMA ReportShape ==
  ASSUME Reported
  PROVE  /\ Len(regions) \in Nat
         /\ \A j \in 1 .. Len(regions) :
              /\ regions[j].start \in Nat /\ regions[j].end \in Nat
              /\ regions[j].start < regions[j].end
              /\ regions[j].kind = "Usable" => regions[j].end % PAGE_SIZE = 0
         /\ \A j, k \in 1 .. Len(regions) : j < k => regions[j].end <= regions[k].start
<1>1. /\ regions \in Seq(BP!MemoryRegion)
      /\ \A j \in 1 .. Len(regions) : regions[j].start < regions[j].end
      /\ \A j, k \in 1 .. Len(regions) : j < k => regions[j].end <= regions[k].start
      /\ \A j \in 1 .. Len(regions) : regions[j].kind = "Usable" => regions[j].end % PAGE_SIZE = 0
  BY SameBuildOperators DEF Reported, BP!IInv, BP!Good, BP!Aligned
<1>2. \A j \in 1 .. Len(regions) : regions[j] \in BP!MemoryRegion
  BY <1>1
<1>3. \A j \in 1 .. Len(regions) : regions[j].start \in Nat /\ regions[j].end \in Nat
  BY <1>2 DEF BP!MemoryRegion
<1> QED
  BY <1>1, <1>3

LEMMA ReportTrue ==
  ASSUME Reported, NEW a \in Nat
  PROVE  (\E j \in 1 .. Len(regions) : /\ regions[j].kind = "Usable"
                                       /\ regions[j].start <= a /\ a < regions[j].end)
           <=> Free(a)
<1>1. (\E j \in 1 .. Len(regions) :
         BP!Within(a, regions[j].start, regions[j].end) /\ regions[j].kind = "Usable")
        <=> BP!Truth(a, "Usable")
  BY BP!ReportedUsable DEF Reported
<1>2. ASSUME NEW k \in 1 .. Len(original)
      PROVE  BP!TrueKind(a, original[k]) = "Usable" <=>
               /\ usable_after_bootloader_exit(original[k])
               /\ kind(original[k]) = "Usable" => a >= next_frame * PAGE_SIZE
               /\ ~(kernel_slice_start <= a /\ a < kernel_slice_start + kernel_slice_len)
  <2> DEFINE d == original[k]
             nf == next_frame * PAGE_SIZE
  <2>1. kind(d) = "Usable" => usable_after_bootloader_exit(d)
    <3>1. d \in UefiMemoryDescriptor
      BY DEF Reported, InputsOK, WellFormedMap
    <3>2. d.ty \in MemoryType
      BY <3>1 DEF UefiMemoryDescriptor
    <3> QED
      BY <3>2 DEF kind, usable_after_bootloader_exit, MemoryType
  <2>2. nf \in Nat
    BY DEF Reported, InputsOK, PAGE_SIZE
  <2>3. BP!TrueKind(a, d) =
          IF \/ kind(d) = "Usable" /\ a < nf
             \/ usable_after_bootloader_exit(d)
                /\ kernel_slice_start <= a /\ a < kernel_slice_start + kernel_slice_len
            THEN "Bootloader"
            ELSE IF usable_after_bootloader_exit(d) THEN "Usable" ELSE kind(d)
    BY SameBuildOperators DEF BP!TrueKind, BP!Within
  <2> HIDE DEF d, nf
  <2>4. ~(a < nf) <=> a >= nf
    BY <2>2
  <2>5. BP!TrueKind(a, d) = "Usable" <=>
               /\ usable_after_bootloader_exit(d)
               /\ kind(d) = "Usable" => a >= nf
               /\ ~(kernel_slice_start <= a /\ a < kernel_slice_start + kernel_slice_len)
    BY <2>1, <2>3, <2>4
  <2> QED
    BY <2>5 DEF d, nf
<1>3. BP!Truth(a, "Usable") <=> Free(a)
  BY <1>2, SameBuildOperators DEF BP!Truth, BP!InDescriptor, BP!Within, Free
<1> QED
  BY <1>1, <1>3 DEF BP!Within

-----------------------------------------------------------------------------
(***************************************************************************)
(* The items of usable_frames: an address every 4096 bytes of each Usable  *)
(* region.                                                                 *)
(***************************************************************************)
LEMMA ItemMember ==
  ASSUME Reported, NEW x
  PROVE  x \in usable_frames <=>
           \E j \in 1 .. Len(regions), i \in Nat :
             /\ x = <<j, i>>
             /\ regions[j].kind = "Usable"
             /\ regions[j].start + i * PAGE_SIZE < regions[j].end
<1>1. ASSUME NEW j \in 1 .. Len(regions), NEW i
      PROVE  i \in 0 .. region_frames(regions[j]) - 1 <=>
               i \in Nat /\ regions[j].start + i * PAGE_SIZE < regions[j].end
  <2>1. \A s, e \in Nat : s < e =>
          \A q : q \in 0 .. ((e - s + 4096 - 1) \div 4096) - 1 <=> q \in Nat /\ s + q * 4096 < e
    OBVIOUS
  <2>2. /\ regions[j].start \in Nat /\ regions[j].end \in Nat
        /\ regions[j].start < regions[j].end
    BY ReportShape
  <2> DEFINE s == regions[j].start
             e == regions[j].end
  <2>3. region_frames(regions[j]) = (e - s + 4096 - 1) \div 4096
    BY DEF region_frames, PAGE_SIZE
  <2>4. s \in Nat /\ e \in Nat /\ s < e
    BY <2>2
  <2> HIDE DEF s, e
  <2>5. i \in 0 .. ((e - s + 4096 - 1) \div 4096) - 1 <=> i \in Nat /\ s + i * 4096 < e
    BY <2>1, <2>4
  <2> QED
    BY <2>3, <2>5 DEF PAGE_SIZE, s, e
<1>2. x \in usable_frames <=>
        \E j \in 1 .. Len(regions) : /\ regions[j].kind = "Usable"
                                     /\ \E i \in 0 .. region_frames(regions[j]) - 1 : x = <<j, i>>
  BY DEF usable_frames
<1> QED
  BY <1>1, <1>2

LEMMA ItemsFinite ==
  ASSUME Reported
  PROVE  IsFiniteSet(usable_frames) /\ Cardinality(usable_frames) \in Nat
<1> DEFINE n == Len(regions)
           B == (1 .. n) \X (0 .. BP!Frontier)
<1>1. n \in Nat
  BY ReportShape
<1>2. BP!Frontier \in Nat
  <2>1. original \in Seq(UefiMemoryDescriptor) /\ Len(original) \in Nat
        /\ descriptor \in 1 .. Len(original) + 1
    BY DEF Reported, InputsOK, WellFormedMap, BP!IInv
  <2>2. CASE descriptor = 1
    BY <2>2 DEF BP!Frontier
  <2>3. CASE descriptor # 1
    <3>1. descriptor - 1 \in 1 .. Len(original)
      BY <2>1, <2>3
    <3>2. /\ original[descriptor - 1].phys_start \in Nat
          /\ original[descriptor - 1].page_count \in Nat
      BY <3>1, FrameBounds DEF Reported, InputsOK
    <3> QED
      BY <2>3, <3>2 DEF BP!Frontier, BP!start, BP!len, BP!PAGE_SIZE
  <2> QED
    BY <2>2, <2>3
<1>3. IsFiniteSet(B)
  <2>1. IsFiniteSet(1 .. n)
    BY <1>1, FS_Interval
  <2>2. IsFiniteSet(0 .. BP!Frontier)
    BY <1>2, FS_Interval
  <2> QED
    BY <2>1, <2>2, FS_Product
<1>4. usable_frames \subseteq B
  <2> SUFFICES ASSUME NEW x \in usable_frames PROVE x \in B
    OBVIOUS
  <2>1. PICK j \in 1 .. n, i \in Nat :
          x = <<j, i>> /\ regions[j].start + i * PAGE_SIZE < regions[j].end
    BY ItemMember
  <2>2. /\ regions[j].start \in Nat /\ regions[j].end \in Nat
        /\ regions[j].end <= BP!Frontier
    BY ReportShape DEF Reported, BP!IInv, BP!Good
  <2>3. i <= BP!Frontier
    BY <2>1, <2>2, <1>2 DEF PAGE_SIZE
  <2> QED
    BY <2>1, <2>3, <1>2
<1> QED
  BY <1>3, <1>4, FS_Subset, FS_CardinalityType

(***************************************************************************)
(* nth finds an item for every n below their number: the number of items   *)
(* before an item is an injection into 0 .. N - 1, hence onto it.          *)
(***************************************************************************)
LEMMA NthExists ==
  ASSUME Reported, NEW n \in Nat, n < Cardinality(usable_frames)
  PROVE  nth(n) \in usable_frames /\ Cardinality(before(nth(n))) = n
<1> DEFINE U == usable_frames
           N == Cardinality(U)
           rank == [x \in U |-> Cardinality(before(x))]
<1>1. IsFiniteSet(U) /\ N \in Nat
  BY ItemsFinite
<1>2. ASSUME NEW x \in U
      PROVE  \E j \in Nat, i \in Nat : x = <<j, i>>
  <2>1. x \in usable_frames
    OBVIOUS
  <2>2. PICK j \in 1 .. Len(regions), i \in Nat : x = <<j, i>>
    BY <2>1, ItemMember
  <2>3. j \in Nat
    BY ReportShape
  <2> QED
    BY <2>2, <2>3
<1>3. ASSUME NEW x \in U
      PROVE  /\ IsFiniteSet(before(x)) /\ Cardinality(before(x)) \in Nat
             /\ x \notin before(x) /\ before(x) \subseteq U
  <2>1. before(x) \subseteq U
    BY DEF before
  <2>2. IsFiniteSet(before(x)) /\ Cardinality(before(x)) \in Nat
    BY <2>1, <1>1, FS_Subset, FS_CardinalityType
  <2>3. x \notin before(x)
    BY <1>2 DEF before, precedes
  <2> QED
    BY <2>1, <2>2, <2>3
<1>4. ASSUME NEW x \in U, NEW y \in U, precedes(x, y)
      PROVE  Cardinality(before(x)) < Cardinality(before(y))
  <2> DEFINE S == before(x) \cup {x}
  <2>1. \A z \in before(x) : precedes(z, y)
    BY <1>2, <1>4 DEF before, precedes
  <2>2. S \subseteq before(y)
    BY <2>1, <1>4 DEF before
  <2>3. Cardinality(S) = Cardinality(before(x)) + 1
    BY <1>3, FS_AddElement
  <2>4. Cardinality(S) <= Cardinality(before(y))
    BY <2>2, <1>3, FS_Subset
  <2> QED
    BY <2>3, <2>4, <1>3
<1>5. ASSUME NEW x \in U, NEW y \in U, x # y
      PROVE  precedes(x, y) \/ precedes(y, x)
  BY <1>2, <1>5 DEF precedes
<1>6. rank \in [U -> 0 .. N - 1]
  <2> SUFFICES ASSUME NEW x \in U PROVE Cardinality(before(x)) \in 0 .. N - 1
    OBVIOUS
  <2> DEFINE S == before(x) \cup {x}
  <2>1. Cardinality(S) = Cardinality(before(x)) + 1
    BY <1>3, FS_AddElement
  <2>2. S \subseteq U
    BY <1>3
  <2>3. Cardinality(S) <= N
    BY <2>2, <1>1, FS_Subset
  <2> QED
    BY <2>1, <2>3, <1>1, <1>3
<1>7. rank \in Injection(U, 0 .. N - 1)
  <2>1. ASSUME NEW x \in U, NEW y \in U, rank[x] = rank[y]
        PROVE  x = y
    <3>1. Cardinality(before(x)) = Cardinality(before(y))
      BY <2>1
    <3> QED
      BY <3>1, <1>3, <1>4, <1>5
  <2>2. IsInjective(rank)
    BY <2>1 DEF IsInjective
  <2> HIDE DEF rank
  <2> QED
    BY <2>2, <1>6 DEF Injection
<1>8. IsFiniteSet(0 .. N - 1) /\ Cardinality(0 .. N - 1) = N
  <2> HIDE DEF N
  <2>1. 0 \in Int /\ N - 1 \in Int
    BY <1>1
  <2>2. /\ IsFiniteSet(0 .. (N - 1))
        /\ Cardinality(0 .. (N - 1)) = IF 0 > N - 1 THEN 0 ELSE (N - 1) - 0 + 1
    BY <2>1, FS_Interval
  <2> QED
    BY <2>2, <1>1
<1> HIDE DEF rank
<1>9. rank \in Surjection(U, 0 .. N - 1)
  BY <1>7, <1>8, FS_Injection
<1>10. \E x \in U : rank[x] = n
  <2>1. n \in 0 .. N - 1
    BY <1>1
  <2> QED
    BY <2>1, <1>9 DEF Surjection
<1>11. \E x \in U : Cardinality(before(x)) = n
  BY <1>10 DEF rank
<1> QED
  BY <1>11 DEF nth

-----------------------------------------------------------------------------
(***************************************************************************)
(* Page arithmetic.                                                        *)
(***************************************************************************)
LEMMA PageOf ==
  ASSUME NEW a \in Nat, NEW f
  PROVE  /\ containing_address(a) \in Nat
         /\ f = containing_address(a) <=> f \in Nat /\ f * PAGE_SIZE <= a /\ a < (f + 1) * PAGE_SIZE
BY DEF containing_address, PAGE_SIZE

\* The frames of a descriptor hold exactly its addresses.
LEMMA DescriptorFrames ==
  ASSUME InputsOK, NEW k \in 1 .. Len(original), NEW a \in Nat
  PROVE  (start_frame(original[k]) <= containing_address(a)
            /\ containing_address(a) <= end_frame(original[k]))
           <=> (start(original[k]) <= a /\ a < start(original[k]) + len(original[k]))
<1> DEFINE s == start_frame(original[k])
           e == end_frame(original[k])
           f == containing_address(a)
<1>1. /\ s \in Nat /\ e \in Nat
      /\ start(original[k]) = 4096 * s
      /\ start(original[k]) + len(original[k]) = 4096 * (e + 1)
  BY FrameBounds DEF InputsOK, PAGE_SIZE
<1>2. f \in Nat /\ f * 4096 <= a /\ a < (f + 1) * 4096
  BY PageOf DEF PAGE_SIZE
<1> HIDE DEF s, e, f
<1>3. (s <= f /\ f <= e) <=> (4096 * s <= a /\ a < 4096 * (e + 1))
  BY <1>1, <1>2
<1> QED
  BY <1>1, <1>3 DEF s, e, f

-----------------------------------------------------------------------------
(***************************************************************************)
(* The address of an item is free, and lies in the item's frame.           *)
(***************************************************************************)
address(x) == regions[x[1]].start + x[2] * PAGE_SIZE

LEMMA ItemFree ==
  ASSUME Reported, NEW x \in usable_frames
  PROVE  /\ address(x) \in Nat
         /\ Free(address(x))
         /\ frame(x) = containing_address(address(x))
         /\ frame(x) \in Nat
<1>1. PICK j \in 1 .. Len(regions), i \in Nat :
        /\ x = <<j, i>>
        /\ regions[j].kind = "Usable"
        /\ regions[j].start + i * PAGE_SIZE < regions[j].end
  BY ItemMember
<1>2. regions[j].start \in Nat /\ regions[j].end \in Nat
  BY ReportShape
<1>3. /\ address(x) = regions[j].start + i * PAGE_SIZE
      /\ frame(x) = containing_address(address(x))
  BY <1>1 DEF address, frame
<1>4. /\ address(x) \in Nat
      /\ regions[j].start <= address(x) /\ address(x) < regions[j].end
  BY <1>1, <1>2, <1>3 DEF PAGE_SIZE
<1>5. Free(address(x))
  BY <1>1, <1>4, ReportTrue
<1> QED
  BY <1>3, <1>4, <1>5, PageOf

(***************************************************************************)
(* Two items are two frames: in one region their addresses are a multiple  *)
(* of the page size apart, and no page of Usable memory is shared by two   *)
(* regions, for the first of them ends at the end of a page.               *)
(***************************************************************************)
LEMMA ItemsDistinct ==
  ASSUME Reported, NEW x \in usable_frames, NEW y \in usable_frames, frame(x) = frame(y)
  PROVE  x = y
<1>1. PICK j \in 1 .. Len(regions), i \in Nat :
        /\ x = <<j, i>>
        /\ regions[j].kind = "Usable"
        /\ regions[j].start + i * PAGE_SIZE < regions[j].end
  BY ItemMember
<1>2. PICK k \in 1 .. Len(regions), l \in Nat :
        /\ y = <<k, l>>
        /\ regions[k].kind = "Usable"
        /\ regions[k].start + l * PAGE_SIZE < regions[k].end
  BY ItemMember
<1>3. /\ regions[j].start \in Nat /\ regions[j].end \in Nat /\ regions[j].end % PAGE_SIZE = 0
      /\ regions[k].start \in Nat /\ regions[k].end \in Nat /\ regions[k].end % PAGE_SIZE = 0
      /\ j < k => regions[j].end <= regions[k].start
      /\ k < j => regions[k].end <= regions[j].start
      /\ j \in Nat /\ k \in Nat
  BY <1>1, <1>2, ReportShape
<1> DEFINE sj == regions[j].start
           ej == regions[j].end
           sk == regions[k].start
           ek == regions[k].end
           f == frame(x)
<1>4. /\ f = containing_address(sj + i * PAGE_SIZE)
      /\ f = containing_address(sk + l * PAGE_SIZE)
  BY <1>1, <1>2 DEF frame
<1>5. sj \in Nat /\ ej \in Nat /\ sk \in Nat /\ ek \in Nat
  BY <1>3
<1>6. sj + i * PAGE_SIZE \in Nat /\ sk + l * PAGE_SIZE \in Nat
  BY <1>5 DEF PAGE_SIZE
<1> HIDE DEF f, sj, sk, ej, ek
<1>7. /\ f \in Nat
      /\ f * 4096 <= sj + i * 4096 /\ sj + i * 4096 < (f + 1) * 4096
      /\ f * 4096 <= sk + l * 4096 /\ sk + l * 4096 < (f + 1) * 4096
  <2> DEFINE p == sj + i * PAGE_SIZE
             q == sk + l * PAGE_SIZE
  <2>1. p \in Nat /\ q \in Nat /\ f = containing_address(p) /\ f = containing_address(q)
    BY <1>4, <1>6
  <2> HIDE DEF p, q
  <2>2. /\ f \in Nat
        /\ f * PAGE_SIZE <= p /\ p < (f + 1) * PAGE_SIZE
        /\ f * PAGE_SIZE <= q /\ q < (f + 1) * PAGE_SIZE
    BY <2>1, PageOf
  <2> QED
    BY <2>2 DEF p, q, PAGE_SIZE
<1>8. j = k
  <2>1. ej % 4096 = 0 /\ ek % 4096 = 0
    BY <1>3 DEF ej, ek, PAGE_SIZE
  <2>2. sj + i * 4096 < ej /\ sk + l * 4096 < ek
    BY <1>1, <1>2 DEF sj, ej, sk, ek, PAGE_SIZE
  <2>3. (f + 1) * 4096 <= ej /\ (f + 1) * 4096 <= ek
    BY <2>1, <2>2, <1>5, <1>7
  <2>4. ~(ej <= sk) /\ ~(ek <= sj)
    BY <2>3, <1>5, <1>7
  <2> QED
    BY <2>4, <1>3 DEF sj, ej, sk, ek
<1>9. sj = sk
  BY <1>8 DEF sj, sk
<1>10. i = l
  BY <1>5, <1>7, <1>9
<1> QED
  BY <1>1, <1>2, <1>8, <1>10

(***************************************************************************)
(* An item's frame outlives boot services, has not been taken by initium   *)
(* and is not filled by the kernel image.                                  *)
(***************************************************************************)
LEMMA ItemFrameFree ==
  ASSUME Reported, AllocInv, NEW x \in usable_frames
  PROVE  frame(x) \in SurvivingFrames \ (allocated \cup FullImageFrames)
<1> DEFINE a == address(x)
           f == frame(x)
<1>1. a \in Nat /\ Free(a) /\ f = containing_address(a) /\ f \in Nat
  BY ItemFree
<1> HIDE DEF a, f
<1>2. PICK k \in 1 .. Len(original) :
       /\ start(original[k]) <= a /\ a < start(original[k]) + len(original[k])
       /\ usable_after_bootloader_exit(original[k])
       /\ kind(original[k]) = "Usable" => a >= next_frame * PAGE_SIZE
  BY <1>1 DEF Free
<1>3. start_frame(original[k]) <= f /\ f <= end_frame(original[k])
  BY <1>1, <1>2, DescriptorFrames DEF Reported
<1>4. /\ start_frame(original[k]) \in Nat /\ end_frame(original[k]) \in Nat
      /\ next_frame \in Nat /\ WellFormedMap(original)
  BY FrameBounds DEF Reported, InputsOK
<1>5. f \in SurvivingFrames
  BY <1>1, <1>2, <1>3, <1>4 DEF SurvivingFrames
<1>6. f \notin allocated
  <2> SUFFICES ASSUME f \in allocated PROVE FALSE
    OBVIOUS
  <2>1. f \in ConventionalFrames(original) /\ f < next_frame
    BY SameMaps DEF AllocInv, AP!IInv, AP!NextFrameSeparates
  <2>2. PICK i \in 1 .. Len(original) : /\ kind(original[i]) = "Usable"
                                        /\ start_frame(original[i]) <= f
                                        /\ f <= end_frame(original[i])
    BY <2>1, <1>4, ConventionalMember
  <2>3. start_frame(original[i]) \in Nat /\ end_frame(original[i]) \in Nat
    BY <1>4, FrameBounds
  <2>4. i = k
    <3>1. i < k => end_frame(original[i]) < start_frame(original[k])
      BY <1>4, FramesOrdered
    <3>2. k < i => end_frame(original[k]) < start_frame(original[i])
      BY <1>4, FramesOrdered
    <3> QED
      BY <3>1, <3>2, <2>2, <2>3, <1>1, <1>3, <1>4
  <2>5. a >= next_frame * 4096
    BY <2>2, <2>4, <1>2 DEF PAGE_SIZE
  <2>6. a < (f + 1) * 4096
    BY <1>1, PageOf DEF PAGE_SIZE
  <2> QED
    BY <2>1, <2>5, <2>6, <1>1, <1>4
<1>7. f \notin FullImageFrames
  <2> SUFFICES ASSUME f \in FullImageFrames PROVE FALSE
    OBVIOUS
  <2> DEFINE b == kernel_slice_start
             e == kernel_slice_start + kernel_slice_len
  <2>1. b \in Nat /\ e \in Nat /\ b % 4096 = 0
    BY DEF Reported, InputsOK, KernelInLoaderData, PAGE_SIZE
  <2>2. f \in b \div 4096 .. (e \div 4096) - 1
    BY DEF FullImageFrames, containing_address, PAGE_SIZE
  <2>3. ~(b <= a /\ a < e)
    BY <1>1 DEF Free
  <2>4. f * 4096 <= a /\ a < (f + 1) * 4096
    BY <1>1, PageOf DEF PAGE_SIZE
  <2> HIDE DEF b, e
  <2> QED
    BY <2>1, <2>2, <2>3, <2>4, <1>1
<1> QED
  BY <1>5, <1>6, <1>7 DEF f

(***************************************************************************)
(* No free frame of the machine is missing from usable_frames.             *)
(***************************************************************************)
FreeFrames == SurvivingFrames \ (allocated \cup ImageFrames \cup {0})

LEMMA FreeFramesFound ==
  ASSUME Reported, AllocInv, NEW f \in FreeFrames
  PROVE  \E x \in usable_frames : frame(x) = f
<1>1. PICK k \in 1 .. Len(original) :
        /\ usable_after_bootloader_exit(original[k])
        /\ f \in start_frame(original[k]) .. end_frame(original[k])
  BY DEF FreeFrames, SurvivingFrames
<1>2. /\ start_frame(original[k]) \in Nat /\ end_frame(original[k]) \in Nat
      /\ next_frame \in Nat /\ WellFormedMap(original)
  BY FrameBounds DEF Reported, InputsOK
<1>3. /\ f \in Nat /\ start_frame(original[k]) <= f /\ f <= end_frame(original[k])
  BY <1>1, <1>2
<1> DEFINE a == f * 4096
<1>4. a \in Nat /\ containing_address(a) = f
  BY <1>3 DEF containing_address, PAGE_SIZE
<1>5. start(original[k]) <= a /\ a < start(original[k]) + len(original[k])
  BY <1>3, <1>4, DescriptorFrames DEF Reported
<1>6. kind(original[k]) = "Usable" => a >= next_frame * PAGE_SIZE
  <2> SUFFICES ASSUME kind(original[k]) = "Usable" PROVE f >= next_frame
    BY <1>2, <1>3 DEF PAGE_SIZE
  <2>1. f # 0 /\ f \notin allocated
    BY DEF FreeFrames
  <2>2. f \in ConventionalFrames(original)
    BY <2>1, <1>2, <1>3, ConventionalMember
  <2>3. ~(f < next_frame)
    BY <2>1, <2>2, SameMaps DEF AllocInv, AP!IInv, AP!NextFrameSeparates
  <2> QED
    BY <2>3, <1>2, <1>3
<1>7. ~(kernel_slice_start <= a /\ a < kernel_slice_start + kernel_slice_len)
  <2> SUFFICES ASSUME kernel_slice_start <= a, a < kernel_slice_start + kernel_slice_len
               PROVE  f \in ImageFrames
    BY DEF FreeFrames
  <2> DEFINE b == kernel_slice_start
             e == kernel_slice_start + kernel_slice_len
  <2>1. b \in Nat /\ e \in Nat /\ b <= a /\ a < e
    BY DEF Reported, InputsOK
  <2>2. ImageFrames = b \div 4096 .. (e - 1) \div 4096
    <3>1. e - 1 = kernel_slice_start + kernel_slice_len - 1
      BY DEF Reported, InputsOK
    <3> QED
      BY <3>1 DEF ImageFrames, containing_address, PAGE_SIZE
  <2> HIDE DEF b, e
  <2>3. f \in b \div 4096 .. (e - 1) \div 4096
    BY <2>1, <1>3
  <2> QED
    BY <2>2, <2>3
<1>8. Free(a)
  BY <1>1, <1>5, <1>6, <1>7 DEF Free
<1> HIDE DEF a
<1>9. PICK j \in 1 .. Len(regions) :
        regions[j].kind = "Usable" /\ regions[j].start <= a /\ a < regions[j].end
  BY <1>4, <1>8, ReportTrue
<1> DEFINE s == regions[j].start
           e == regions[j].end
           i == f - (s \div 4096)
<1>10. s \in Nat /\ e \in Nat /\ e % 4096 = 0 /\ s <= f * 4096 /\ f * 4096 < e
  BY <1>9, ReportShape DEF PAGE_SIZE, a
<1> HIDE DEF s, e
<1>11. i \in Nat /\ s + i * 4096 < e /\ (s + i * 4096) \div 4096 = f
  BY <1>10, <1>3
<1>12. <<j, i>> \in usable_frames
  BY <1>9, <1>11, ItemMember DEF PAGE_SIZE, s, e
<1>13. frame(<<j, i>>) = f
  BY <1>11 DEF frame, containing_address, PAGE_SIZE, s
<1> QED
  BY <1>12, <1>13

LEMMA FreeFramesBound ==
  ASSUME Reported, AllocInv
  PROVE  Cardinality(FreeFrames) \in Nat /\ Cardinality(FreeFrames) <= Cardinality(usable_frames)
<1> DEFINE U == usable_frames
           F == {frame(x) : x \in U}
           g == [x \in U |-> frame(x)]
<1>1. IsFiniteSet(U) /\ Cardinality(U) \in Nat
  BY ItemsFinite
<1>2. g \in Surjection(U, F)
  BY DEF Surjection
<1> HIDE DEF g, F
<1>3. IsFiniteSet(F) /\ Cardinality(F) <= Cardinality(U)
  BY <1>1, <1>2, FS_Surjection
<1>4. FreeFrames \subseteq F
  BY FreeFramesFound DEF F
<1>5. Cardinality(FreeFrames) <= Cardinality(F) /\ IsFiniteSet(FreeFrames)
  BY <1>3, <1>4, FS_Subset
<1> QED
  BY <1>1, <1>3, <1>5, FS_CardinalityType

-----------------------------------------------------------------------------

LEMMA InitIInv == Init => IInv
<1> SUFFICES ASSUME Init PROVE IInv
  OBVIOUS
<1>1. PICK b \in Boots : /\ original = b.original
                         /\ kernel_slice_start = b.kernel_slice_start
                         /\ kernel_slice_len = b.kernel_slice_len
  BY DEF Init
<1>2. AP!IInv
  <2>1. \A m \in {c.original : c \in Boots} : AP!WellFormedMap(m)
    BY BootsWellFormed, SameMaps
  <2>2. AP!Init
    BY SameAllocator DEF Init
  <2> QED
    BY <2>1, <2>2, AP!InitIInv
<1>3. next_frame \in Nat
  BY <1>2 DEF AP!IInv, AP!TypeOK
<1>4. InputsOK
  BY <1>1, <1>3, BootsWellFormed DEF InputsOK
<1>5. HeapNeeds \in Nat
  BY HandoffAssumption DEF HeapNeeds
<1> QED
  BY <1>2, <1>4, <1>5 DEF Init, IInv, AllocInv, BuildInv, InitiumPanicInv, GrantInv

LEMMA NextIInv == IInv /\ [Next]_vars => IInv'
<1> SUFFICES ASSUME IInv, [Next]_vars PROVE IInv'
  OBVIOUS
<1> USE DEF IInv
<1>w. \A m \in {c.original : c \in Boots} : AP!WellFormedMap(m)
  BY BootsWellFormed, SameMaps
<1>h. HeapNeeds \in Nat /\ HeapNeeds' = HeapNeeds
  BY HandoffAssumption DEF HeapNeeds
\* What the steps that leave a component alone keep of its invariant.
<1>a. ASSUME UNCHANGED allocVars PROVE AllocInv'
  BY <1>a, <1>w, AP!NextIInv DEF AllocInv, allocVars, AP!vars
<1>b. ASSUME BP!IInv, UNCHANGED <<original, next_frame, sliceVars, buildVars>> PROVE BP!IInv'
  BY <1>b, BP!NextIInv DEF BP!vars, BP!inputVars, sliceVars, buildVars
<1>i. ASSUME UNCHANGED <<original, next_frame, sliceVars>> PROVE InputsOK'
  BY <1>i DEF InputsOK, sliceVars
<1>1. CASE InitiumAllocates
  <2>1. AP!Next /\ UNCHANGED <<buildVars, sliceVars, nukleusVars>> /\ phase = "initium"
    BY <1>1, SameAllocator DEF InitiumAllocates
  <2>2. AllocInv'
    BY <2>1, <1>w, AP!NextIInv DEF AllocInv
  <2>3. original' = original
    BY <2>1 DEF AP!Next, AP!Call, AP!allocate_frame, AP!FromCurrent, AP!LeaveCurrent,
                AP!SkipDescriptor, AP!FromNext, AP!PassNext, AP!ReturnNone
  <2>4. InputsOK'
    <3>1. next_frame' \in Nat
      BY <2>2 DEF AllocInv, AP!IInv, AP!TypeOK
    <3> QED
      BY <3>1, <2>1, <2>3 DEF InputsOK, sliceVars
  <2>5. CASE alloc_pc = "scan" /\ alloc_pc' = "idle" /\ ret' = Alloc!NoFrame
    <3>1. phase' = "initium_panic"
      BY <2>5, <1>1 DEF InitiumAllocates
    <3>2. allocated' = ConventionalFrames(original')
      BY <2>1, <2>5, <1>w, AP!NoneLeft, SameMaps, SameAllocator DEF AllocInv
    <3>3. BuildInv' /\ InitiumPanicInv'
      BY <2>1, <3>1, <3>2 DEF BuildInv, InitiumPanicInv, buildVars
    <3>4. GrantInv'
      BY <2>1, <3>1, <1>h DEF GrantInv, nukleusVars
    <3> QED
      BY <2>2, <2>4, <3>1, <3>3, <3>4
  <2>6. CASE ~(alloc_pc = "scan" /\ alloc_pc' = "idle" /\ ret' = Alloc!NoFrame)
    <3>1. phase' = "initium"
      BY <2>6, <1>1 DEF InitiumAllocates
    <3>2. BuildInv' /\ InitiumPanicInv'
      BY <2>1, <3>1 DEF BuildInv, InitiumPanicInv, buildVars
    <3>3. GrantInv'
      BY <2>1, <3>1, <1>h DEF GrantInv, nukleusVars
    <3> QED
      BY <2>2, <2>4, <3>1, <3>2, <3>3
  <2> QED
    BY <2>5, <2>6
<1>2. CASE CallConstruct
  <2>1. /\ UNCHANGED <<allocVars, buildVars, sliceVars, nukleusVars>>
        /\ phase = "initium" /\ phase' = "construct"
    BY <1>2 DEF CallConstruct
  <2>2. UNCHANGED <<original, next_frame, sliceVars, buildVars>>
    BY <2>1 DEF allocVars
  <2>3. BP!IInv
    <3>1. BP!InputOK
      BY SameBuildMaps DEF BP!InputOK, InputsOK
    <3> QED
      BY <3>1, <2>1, BP!StartIInv DEF BuildInv
  <2>4. BP!IInv'
    BY <2>2, <2>3, <1>b
  <2>5. BuildInv' /\ InitiumPanicInv'
    BY <2>1, <2>4 DEF BuildInv, InitiumPanicInv, buildVars
  <2>6. GrantInv'
    BY <2>1, <1>h DEF GrantInv, nukleusVars
  <2> QED
    BY <2>1, <2>2, <2>5, <2>6, <1>a, <1>i
<1>3. CASE Construct
  <2>1. /\ BP!Next /\ BP!IInv /\ build_pc = "loop" /\ phase = "construct"
        /\ UNCHANGED <<memory_map, current_descriptor, alloc_pc, ret, allocated, nukleusVars>>
    BY <1>3, SameBuilder DEF Construct, BuildInv
  <2>2. UNCHANGED <<original, next_frame, sliceVars>>
    BY <2>1 DEF BP!Next, BP!construct_memory_map, BP!Iterate, BP!Return, BP!inputVars, sliceVars
  <2>3. BP!IInv'
    BY <2>1, BP!NextIInv
  <2>4. build_pc' \in {"loop", "done"}
    BY <2>3 DEF BP!IInv
  <2>5. phase' = IF build_pc' = "done" THEN "nukleus" ELSE "construct"
    BY <2>4, <1>3 DEF Construct
  <2>6. AllocInv'
    BY <2>1, <2>2, <1>a DEF allocVars
  <2>7. BuildInv' /\ InitiumPanicInv'
    BY <2>3, <2>4, <2>5 DEF BuildInv, InitiumPanicInv
  <2>8. GrantInv'
    BY <2>1, <2>5, <1>h DEF GrantInv, nukleusVars
  <2> QED
    BY <2>2, <2>5, <2>6, <2>7, <2>8, <1>i
<1>4. CASE init_heap
  <2>1. /\ phase = "nukleus" /\ Len(grants) < HeapNeeds /\ next' = next + 1
        /\ UNCHANGED <<allocVars, buildVars, sliceVars>>
        /\ BP!IInv /\ build_pc = "done" /\ next = Len(grants)
    BY <1>4 DEF init_heap, BuildInv, GrantInv
  <2>2. UNCHANGED <<original, next_frame, sliceVars, buildVars>> /\ regions' = regions
    BY <2>1 DEF allocVars, buildVars
  <2>3. BP!IInv'
    BY <2>1, <2>2, <1>b
  <2>4. Reported
    BY <2>1 DEF Reported
  <2>5. Cardinality(usable_frames) \in Nat
    BY <2>4, ItemsFinite
  <2>6. usable_frames' = usable_frames /\ \A x : frame(x)' = frame(x)
    BY <2>2 DEF usable_frames, frame
  <2>7. \A n : nth(n)' = nth(n)
    BY <2>6 DEF nth, before
  <2>8. CASE next < Cardinality(usable_frames)
    <3>1. grants' = Append(grants, frame(nth(next))) /\ phase' = "nukleus"
      BY <1>4, <2>8 DEF init_heap
    <3>2. frame(nth(next)) \in Nat
      BY <2>1, <2>4, <2>8, NthExists, ItemFree DEF GrantInv
    <3>3. /\ grants' \in Seq(Nat) /\ Len(grants') = Len(grants) + 1
          /\ Len(grants) \in Nat
          /\ \A n \in 1 .. Len(grants) : grants'[n] = grants[n]
          /\ grants'[Len(grants) + 1] = frame(nth(next))
      BY <3>1, <3>2 DEF GrantInv
    <3>4. ASSUME NEW n \in 1 .. Len(grants')
          PROVE  n - 1 < Cardinality(usable_frames) /\ grants'[n] = frame(nth(n - 1))
      <4>1. CASE n \in 1 .. Len(grants)
        BY <4>1, <3>3 DEF GrantInv
      <4>2. CASE n = Len(grants) + 1
        <5>1. n - 1 = next
          BY <4>2, <3>3, <2>1
        <5> QED
          BY <4>2, <5>1, <3>3, <2>8
      <4> QED
        BY <4>1, <4>2, <3>3
    <3>5. GrantInv'
      BY <3>1, <3>3, <3>4, <2>1, <2>6, <2>7, <1>h DEF GrantInv
    <3>6. BuildInv' /\ InitiumPanicInv'
      BY <3>1, <2>1, <2>2, <2>3 DEF BuildInv, InitiumPanicInv, buildVars
    <3> QED
      BY <3>1, <3>5, <3>6, <2>1, <2>2, <1>a, <1>i
  <2>9. CASE ~(next < Cardinality(usable_frames))
    <3>1. grants' = grants /\ phase' = "nukleus_panic"
      BY <1>4, <2>9 DEF init_heap
    <3>2. Cardinality(usable_frames) <= Len(grants)
      BY <2>1, <2>5, <2>9 DEF GrantInv
    <3>3. GrantInv'
      BY <3>1, <3>2, <2>1, <2>6, <2>7, <1>h DEF GrantInv
    <3>4. BuildInv' /\ InitiumPanicInv'
      BY <3>1, <2>1, <2>2, <2>3 DEF BuildInv, InitiumPanicInv, buildVars
    <3> QED
      BY <3>1, <3>3, <3>4, <2>1, <2>2, <1>a, <1>i
  <2> QED
    BY <2>8, <2>9
<1>5. CASE HeapReady
  <2>1. /\ UNCHANGED <<allocVars, buildVars, sliceVars, nukleusVars>>
        /\ phase = "nukleus" /\ phase' = "running"
    BY <1>5 DEF HeapReady
  <2>2. UNCHANGED <<original, next_frame, sliceVars, buildVars>> /\ regions' = regions
    BY <2>1 DEF allocVars, buildVars
  <2>3. BP!IInv'
    BY <2>1, <2>2, <1>b DEF BuildInv
  <2>4. BuildInv' /\ InitiumPanicInv'
    BY <2>1, <2>3 DEF BuildInv, InitiumPanicInv, buildVars
  <2>5. usable_frames' = usable_frames /\ \A x : frame(x)' = frame(x)
    BY <2>2 DEF usable_frames, frame
  <2>6. \A n : nth(n)' = nth(n)
    BY <2>5 DEF nth, before
  <2>7. GrantInv'
    BY <2>1, <2>5, <2>6, <1>h DEF GrantInv, nukleusVars
  <2> QED
    BY <2>1, <2>2, <2>4, <2>7, <1>a, <1>i
<1>6. CASE UNCHANGED vars
  <2>1. UNCHANGED <<allocVars, buildVars, sliceVars, nukleusVars, phase>>
    BY <1>6 DEF vars
  <2>2. UNCHANGED <<original, next_frame, sliceVars, buildVars>> /\ regions' = regions
    BY <2>1 DEF allocVars, buildVars
  <2>3. BuildInv' /\ InitiumPanicInv'
    BY <2>1, <2>2, <1>b DEF BuildInv, InitiumPanicInv, buildVars, allocVars
  <2>4. usable_frames' = usable_frames /\ \A x : frame(x)' = frame(x)
    BY <2>2 DEF usable_frames, frame
  <2>5. \A n : nth(n)' = nth(n)
    BY <2>4 DEF nth, before
  <2>6. GrantInv'
    BY <2>1, <2>4, <2>5, <1>h DEF GrantInv, nukleusVars
  <2> QED
    BY <2>1, <2>2, <2>3, <2>6, <1>a, <1>i
<1> QED
  BY <1>1, <1>2, <1>3, <1>4, <1>5, <1>6 DEF Next

-----------------------------------------------------------------------------
(***************************************************************************)
(* The variables of the handoff keep their types; in particular the        *)
(* counter of NukleusFrameAllocator never passes the heap's needs.         *)
(***************************************************************************)
THEOREM TypeCorrect == Spec => []TypeOK
<1>1. IInv => TypeOK
  <2> SUFFICES ASSUME IInv PROVE TypeOK
    OBVIOUS
  <2>1. Alloc!TypeOK
    BY SameAllocator DEF IInv, AllocInv, AP!IInv
  <2>2. Build!TypeOK
    <3>1. CASE phase \in {"initium", "initium_panic"}
      <4>1. Len(original) \in Nat
        BY DEF IInv, InputsOK, WellFormedMap
      <4>2. regions = <<>> /\ descriptor = 1 /\ build_pc = "loop"
        BY <3>1 DEF IInv, BuildInv
      <4>3. regions \in Seq(BP!MemoryRegion)
        BY <4>2
      <4>4. BP!TypeOK
        BY <4>1, <4>2, <4>3, SameBuildMaps DEF IInv, InputsOK, BP!TypeOK
      <4> QED
        BY <4>4, SameBuilder
    <3>2. CASE phase \notin {"initium", "initium_panic"}
      BY <3>2, SameBuilder DEF IInv, BuildInv, BP!IInv, BP!InputOK, BP!Good, BP!TypeOK
    <3> QED
      BY <3>1, <3>2
  <2>3. next \in 0 .. HeapNeeds
    BY HandoffAssumption DEF IInv, GrantInv, HeapNeeds
  <2> QED
    BY <2>1, <2>2, <2>3 DEF IInv, GrantInv, TypeOK
<1> QED
  BY <1>1, InitIInv, NextIInv, PTL DEF Spec

(***************************************************************************)
(* Every frame nukleus takes for its heap and page tables outlives boot    *)
(* services, is in use for nothing initium built, is not filled by the     *)
(* kernel image, and is taken once: what two allocators that never meet    *)
(* owe to construct_memory_map's report.                                   *)
(***************************************************************************)
THEOREM GrantsCorrect == Spec => []GrantsAreFree
<1>1. IInv => GrantsAreFree
  <2> SUFFICES ASSUME IInv PROVE GrantsAreFree
    OBVIOUS
  <2>1. CASE Len(grants) = 0
    BY <2>1 DEF GrantsAreFree
  <2>2. CASE Len(grants) # 0
    <3>1. Len(grants) \in Nat
      BY DEF IInv, GrantInv
    <3>2. Reported /\ AllocInv
      BY <2>2 DEF IInv, GrantInv, BuildInv, Reported
    <3>3. ASSUME NEW n \in 1 .. Len(grants)
          PROVE  /\ n - 1 \in Nat
                 /\ grants[n] = frame(nth(n - 1))
                 /\ nth(n - 1) \in usable_frames
                 /\ Cardinality(before(nth(n - 1))) = n - 1
      <4>1. n - 1 \in Nat /\ n - 1 < Cardinality(usable_frames) /\ grants[n] = frame(nth(n - 1))
        BY DEF IInv, GrantInv
      <4> QED
        BY <4>1, <3>2, NthExists
    <3>4. ASSUME NEW i \in 1 .. Len(grants)
          PROVE  grants[i] \in SurvivingFrames \ (allocated \cup FullImageFrames)
      BY <3>2, <3>3, ItemFrameFree
    <3>5. ASSUME NEW i \in 1 .. Len(grants), NEW j \in 1 .. Len(grants), grants[i] = grants[j]
          PROVE  i = j
      <4>1. nth(i - 1) = nth(j - 1)
        BY <3>2, <3>3, <3>5, ItemsDistinct
      <4>2. i - 1 = j - 1
        BY <4>1, <3>3
      <4> QED
        BY <4>2, <3>1
    <3> QED
      BY <3>4, <3>5 DEF GrantsAreFree
  <2> QED
    BY <2>1, <2>2
<1> QED
  BY <1>1, InitIInv, NextIInv, PTL DEF Spec

(***************************************************************************)
(* initium panics only when conventional memory is exhausted, nukleus only *)
(* when the free frames of the whole machine do not suffice: no memory is  *)
(* lost between the two allocators.                                        *)
(***************************************************************************)
THEOREM PanicsCorrect == Spec => []PanicsAreReal
<1>1. IInv => PanicsAreReal
  <2> SUFFICES ASSUME IInv PROVE PanicsAreReal
    OBVIOUS
  <2>1. ASSUME phase = "nukleus_panic"
        PROVE  Cardinality(SurvivingFrames \ (allocated \cup ImageFrames \cup {0})) < HeapNeeds
    <3>1. Reported /\ AllocInv
      BY <2>1 DEF IInv, BuildInv, Reported
    <3>2. Cardinality(FreeFrames) \in Nat /\ Cardinality(FreeFrames) <= Cardinality(usable_frames)
      BY <3>1, FreeFramesBound
    <3>3. Cardinality(usable_frames) \in Nat
      BY <3>1, ItemsFinite
    <3>4. /\ Len(grants) \in Nat /\ Len(grants) < HeapNeeds
          /\ Cardinality(usable_frames) <= Len(grants)
      BY <2>1 DEF IInv, GrantInv
    <3>5. HeapNeeds \in Nat
      BY HandoffAssumption DEF HeapNeeds
    <3>6. Cardinality(FreeFrames) < HeapNeeds
      BY <3>2, <3>3, <3>4, <3>5
    <3> QED
      BY <3>6 DEF FreeFrames
  <2> QED
    BY <2>1 DEF PanicsAreReal, IInv, InitiumPanicInv
<1> QED
  BY <1>1, InitIInv, NextIInv, PTL DEF Spec
=============================================================================
