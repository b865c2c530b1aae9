--------------------------- MODULE MCMemoryRegions ---------------------------
(***************************************************************************)
(* construct_memory_map on every memory map of MCMemoryMaps, after any     *)
(* number of allocations, with a kernel image of any number of half pages  *)
(* at the start of any page of a LOADER_DATA descriptor.  Reports are      *)
(* compared at every half page: descriptors, next_free and the image begin *)
(* and end at half pages, so no change of kind can hide in between.        *)
(***************************************************************************)
EXTENDS MemoryRegions, MCMemoryMaps

\* next_frame is 1, or follows the frame allocated last.
NextFrames(m) == {1} \cup {f + 1 : f \in ConventionalFrames(m)}

AllInputs ==
  UNION {{[original |-> m, next_frame |-> nf,
           kernel_slice_start |-> s.at, kernel_slice_len |-> s.size] :
            nf \in NextFrames(m),
            s \in {t \in Slices(m) : KernelInLoaderData(m, t.at, t.size)}} :
         m \in Maps}
=============================================================================
