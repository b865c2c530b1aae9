-------------------------- MODULE MCVirtualLayout --------------------------
(***************************************************************************)
(* Kernels of up to two Load segments that start anywhere within a few     *)
(* entries and may cross from one entry into the next.                     *)
(***************************************************************************)
EXTENDS VirtualLayout, FiniteSetsExt

CONSTANTS SegmentAddresses, SegmentSizes

SegmentSets ==
  UNION {kSubset(n, [virtual_addr : SegmentAddresses, mem_size : SegmentSizes]) : n \in 1 .. 2}

\* Linked to entry 1 or above.
FixedKernels ==
  {x \in SegmentSets : segment_entries(x, 0) \subseteq EntryIndex \ {0}}
=============================================================================
