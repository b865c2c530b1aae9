-------------------------- MODULE MCMemoryHandoff --------------------------
(***************************************************************************)
(* The handoff on every memory map of MCMemoryMaps and every kernel image. *)
(***************************************************************************)
EXTENDS MemoryHandoff, MCMemoryMaps

AllBoots ==
  UNION {{[original |-> m, kernel_slice_start |-> s.at, kernel_slice_len |-> s.size] :
            s \in {t \in Slices(m) : KernelInLoaderData(m, t.at, t.size)}} :
         m \in Maps}
=============================================================================
