--------------------------- MODULE UefiMemoryMap ---------------------------
(***************************************************************************)
(* The UEFI memory map as initium sees it: initium/src/descriptor.rs (the  *)
(* adapter from uefi::MemoryDescriptor to the LegacyMemoryRegion trait of  *)
(* initium/src/memory.rs) and the page arithmetic of the x86_64 crate that *)
(* the frame allocator uses.  Addresses are byte addresses, frames are     *)
(* frame numbers (address divided by the page size).                       *)
(***************************************************************************)
EXTENDS Integers, Sequences

PAGE_SIZE == 4096

(***************************************************************************)
(* uefi::MemoryType, with the types the code does not name lumped together *)
(* (reserved, ACPI, MMIO, unusable memory...).                             *)
(***************************************************************************)
MemoryType == {"CONVENTIONAL", "LOADER_CODE", "LOADER_DATA",
               "BOOT_SERVICES_CODE", "BOOT_SERVICES_DATA",
               "RUNTIME_SERVICES_CODE", "RUNTIME_SERVICES_DATA", "OTHER"}

UefiMemoryDescriptor == [phys_start : Nat, page_count : Nat, ty : MemoryType]

(***************************************************************************)
(* The LegacyMemoryRegion trait.  A MemoryRegionKind is "Usable",          *)
(* "Bootloader", or UnknownUefi(t), written as the memory type t itself.   *)
(***************************************************************************)
MemoryRegionKind == {"Usable", "Bootloader"} \cup (MemoryType \ {"CONVENTIONAL"})

start(d) == d.phys_start

len(d) == d.page_count * PAGE_SIZE

kind(d) == IF d.ty = "CONVENTIONAL" THEN "Usable" ELSE d.ty

usable_after_bootloader_exit(d) ==
  d.ty \in {"CONVENTIONAL", "LOADER_CODE", "LOADER_DATA",
            "BOOT_SERVICES_CODE", "BOOT_SERVICES_DATA"}

\* x86_64: PhysFrame::containing_address.
containing_address(addr) == addr \div PAGE_SIZE

start_frame(d) == containing_address(start(d))

end_frame(d) == containing_address(start(d) + len(d) - 1)

(***************************************************************************)
(* What the firmware hands over: page-aligned, non-empty descriptors that  *)
(* do not overlap (UEFI), in ascending order (main_inner sorts the map     *)
(* before it builds the allocator, initium/src/main.rs:380).               *)
(***************************************************************************)
WellFormedMap(m) ==
  /\ m \in Seq(UefiMemoryDescriptor)
  /\ \A i \in 1 .. Len(m) : m[i].phys_start % PAGE_SIZE = 0 /\ m[i].page_count > 0
  /\ \A i, j \in 1 .. Len(m) : i < j => start(m[i]) + len(m[i]) <= start(m[j])

(***************************************************************************)
(* The frames of a map that CONVENTIONAL memory covers.  Frame 0 is left   *)
(* out: LegacyFrameAllocator::new starts at frame 1 "because the rust core *)
(* library does not see 0 as a valid address".                             *)
(***************************************************************************)
ConventionalFrames(m) ==
  (UNION {start_frame(m[i]) .. end_frame(m[i]) :
            i \in {k \in 1 .. Len(m) : kind(m[k]) = "Usable"}}) \ {0}

(***************************************************************************)
(* The kernel image lies where load_file_from_disk (main.rs:184) read it:  *)
(* at the start of a page of one LOADER_DATA descriptor, not empty.        *)
(***************************************************************************)
KernelInLoaderData(m, slice_start, slice_len) ==
  slice_start % PAGE_SIZE = 0 /\ \E k \in 1 .. Len(m) :
    /\ m[k].ty = "LOADER_DATA"
    /\ start(m[k]) <= slice_start
    /\ slice_start + slice_len <= start(m[k]) + len(m[k])
=============================================================================
