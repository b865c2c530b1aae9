----------------------- MODULE MCLegacyFrameAllocator -----------------------
(***************************************************************************)
(* The frame allocator on every memory map of MCMemoryMaps.                *)
(***************************************************************************)
EXTENDS LegacyFrameAllocator, MCMemoryMaps
=============================================================================
