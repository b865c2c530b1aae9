--------------------------- MODULE MemoryRegions ---------------------------
(***************************************************************************)
(* LegacyFrameAllocator::construct_memory_map (initium/src/memory.rs): the *)
(* boot loader's last act on memory.  It turns the UEFI memory map, the    *)
(* frame allocator's next_frame and the place of the kernel image into the *)
(* list of memory regions that the kernel finds in its BootInfo.  Every    *)
(* address the kernel will ever hand out comes from a region this function *)
(* reports as Usable.                                                      *)
(*                                                                         *)
(* One step is one iteration of the loop over the descriptors.             *)
(***************************************************************************)
EXTENDS UefiMemoryMap

CONSTANTS
  Inputs,     \* what construct_memory_map may be called with
  Addresses   \* the byte addresses at which the report is compared

ASSUME InputsWellFormed ==
  \A in \in Inputs :
    /\ WellFormedMap(in.original)
    /\ in.next_frame \in Nat
    /\ in.kernel_slice_start \in Nat
    /\ in.kernel_slice_len \in Nat \ {0}
    /\ KernelInLoaderData(in.original, in.kernel_slice_start, in.kernel_slice_len)

ASSUME AddressesAreNat == Addresses \subseteq Nat

VARIABLES
  original, next_frame, kernel_slice_start, kernel_slice_len,  \* the inputs
  regions,     \* the regions written so far
  descriptor,  \* index of the descriptor the loop takes next
  pc           \* "loop", "done" or "panicked"

inputVars == <<original, next_frame, kernel_slice_start, kernel_slice_len>>

vars == <<inputVars, regions, descriptor, pc>>

MemoryRegion == [start : Nat, end : Nat, kind : MemoryRegionKind]

\* create_boot_info: the length of the slice the regions are written to.
capacity_NoSlack(m) == Len(m)
capacity(m) == Len(m) + 4

next_free == next_frame * PAGE_SIZE

kernel_slice_end == kernel_slice_start + kernel_slice_len

add_region(rs, r) == IF r.start = r.end THEN rs ELSE Append(rs, r)

(***************************************************************************)
(* The part of a conventional descriptor below next_free is reported on    *)
(* its own; everything else of a descriptor is one region ...              *)
(***************************************************************************)
IsSplit(d) == kind(d) = "Usable" /\ start(d) < next_free /\ next_free < start(d) + len(d)

used_region(d) == [start |-> start(d), end |-> next_free, kind |-> "Bootloader"]

region_kind_RawType(d) == d.ty

region_kind(d) ==
  IF kind(d) = "Usable"
    THEN IF start(d) + len(d) <= next_free THEN "Bootloader" ELSE "Usable"
    ELSE IF usable_after_bootloader_exit(d) THEN "Usable" ELSE kind(d)

region_WholeDescriptor(d) ==
  [start |-> start(d), end |-> start(d) + len(d), kind |-> region_kind(d)]

region(d) ==
  [start |-> IF IsSplit(d) THEN next_free ELSE start(d),
   end   |-> start(d) + len(d),
   kind  |-> region_kind(d)]

(***************************************************************************)
(* ... unless it overlaps the kernel image, which is then cut out of it.   *)
(***************************************************************************)
overlaps_kernel(r) ==
  /\ r.kind = "Usable"
  /\ kernel_slice_start < r.end
  /\ kernel_slice_end > r.start

kernel_inside(r) == kernel_slice_start >= r.start /\ kernel_slice_end <= r.end

before_kernel(r) == [r EXCEPT !.end = kernel_slice_start]
kernel_region    == [start |-> kernel_slice_start, end |-> kernel_slice_end, kind |-> "Bootloader"]
after_kernel(r)  == [r EXCEPT !.start = kernel_slice_end]

add_used(rs, d) == IF IsSplit(d) THEN add_region(rs, used_region(d)) ELSE rs

add_rest_NoCut(rs, r) == add_region(rs, r)

add_rest(rs, r) ==
  IF overlaps_kernel(r)
    THEN add_region(add_region(add_region(rs, before_kernel(r)), kernel_region), after_kernel(r))
    ELSE add_region(rs, r)

add_descriptor(rs, d) == add_rest(add_used(rs, d), region(d))

(***************************************************************************)
(* The two assertions and the expect of add_region.                        *)
(***************************************************************************)
asserts_hold(d) == overlaps_kernel(region(d)) => kernel_inside(region(d))

-----------------------------------------------------------------------------

Init ==
  /\ \E in \in Inputs : /\ original = in.original
                        /\ next_frame = in.next_frame
                        /\ kernel_slice_start = in.kernel_slice_start
                        /\ kernel_slice_len = in.kernel_slice_len
  /\ regions = <<>>
  /\ descriptor = 1
  /\ pc = "loop"

Iterate ==
  LET d       == original[descriptor]
      written == add_descriptor(regions, d)
      ok      == asserts_hold(d) /\ Len(written) <= capacity(original)
  IN  /\ pc = "loop"
      /\ descriptor <= Len(original)
      /\ regions' = IF ok THEN written ELSE regions
      /\ descriptor' = IF ok THEN descriptor + 1 ELSE descriptor
      /\ pc' = IF ok THEN "loop" ELSE "panicked"
      /\ UNCHANGED inputVars

Return ==
  /\ pc = "loop"
  /\ descriptor > Len(original)
  /\ pc' = "done"
  /\ UNCHANGED <<inputVars, regions, descriptor>>

construct_memory_map == Iterate \/ Return

Next == construct_memory_map

Spec == Init /\ [][Next]_vars

-----------------------------------------------------------------------------

TypeOK ==
  /\ WellFormedMap(original)
  /\ next_frame \in Nat
  /\ kernel_slice_start \in Nat
  /\ kernel_slice_len \in Nat \ {0}
  /\ regions \in Seq(MemoryRegion)
  /\ descriptor \in 1 .. Len(original) + 1
  /\ pc \in {"loop", "done", "panicked"}

(***************************************************************************)
(* The slice of Len(original) + 4 regions is long enough and the kernel    *)
(* image never sticks out of the region it overlaps: construct_memory_map  *)
(* neither fails an assertion nor runs out of entries.                     *)
(***************************************************************************)
NeverPanics == pc # "panicked"

(***************************************************************************)
(* The reported regions are not empty, ascend and do not overlap.          *)
(***************************************************************************)
RegionsAscend ==
  /\ \A j \in 1 .. Len(regions) : regions[j].start < regions[j].end
  /\ \A j, k \in 1 .. Len(regions) : j < k => regions[j].end <= regions[k].start

(***************************************************************************)
(* What should be reported of an address, told from the descriptor it lies *)
(* in, whatever the loop does: memory the loader took from conventional    *)
(* memory and the kernel image are the Bootloader's, the rest of the       *)
(* memory that outlives boot services is Usable, all other memory keeps    *)
(* its UEFI type.                                                          *)
(***************************************************************************)
Within(a, lo, hi) == lo <= a /\ a < hi

InDescriptor(a, d) == Within(a, start(d), start(d) + len(d))

TrueKind(a, d) ==
  IF \/ kind(d) = "Usable" /\ a < next_free
     \/ usable_after_bootloader_exit(d) /\ Within(a, kernel_slice_start, kernel_slice_end)
    THEN "Bootloader"
    ELSE IF usable_after_bootloader_exit(d) THEN "Usable" ELSE kind(d)

(***************************************************************************)
(* Up to address hi, a list of regions says of every address what is true  *)
(* of it, and nothing of addresses outside the memory map.                 *)
(***************************************************************************)
ExactBelow(rs, hi) ==
  \A a \in Addresses : a < hi =>
    \A K \in MemoryRegionKind :
      (\E j \in 1 .. Len(rs) : Within(a, rs[j].start, rs[j].end) /\ rs[j].kind = K)
        <=> (\E k \in 1 .. Len(original) : InDescriptor(a, original[k]) /\ TrueKind(a, original[k]) = K)

\* Everything below this address has been reported.
Frontier ==
  IF descriptor = 1 THEN 0
                    ELSE start(original[descriptor - 1]) + len(original[descriptor - 1])

(***************************************************************************)
(* construct_memory_map reports every byte of the descriptors it has seen, *)
(* each with the right kind and none twice: no frame in use is offered to  *)
(* the kernel, and no free memory is lost to it.                           *)
(***************************************************************************)
ReportIsExact == RegionsAscend /\ ExactBelow(regions, Frontier)
=============================================================================
