---------------------------- MODULE MCMemoryMaps ----------------------------
(***************************************************************************)
(* Every memory map of up to MaxDescriptors descriptors whose numbers of   *)
(* pages are PageCounts, with holes of Gaps pages before each, and whose   *)
(* types are Types.                                                        *)
(***************************************************************************)
EXTENDS UefiMemoryMap, FiniteSetsExt

CONSTANTS MaxDescriptors, PageCounts, Gaps, Types

Shapes == [gap : Gaps, page_count : PageCounts, ty : Types]

\* The map with these shapes, laid out from address 0 upwards.
Layout(s) ==
  [i \in DOMAIN s |->
     [phys_start |-> PAGE_SIZE *
        (s[i].gap + MapThenSumSet(LAMBDA k : s[k].gap + s[k].page_count, 1 .. i - 1)),
      page_count |-> s[i].page_count,
      ty |-> s[i].ty]]

Maps == {Layout(s) : s \in UNION {[1 .. n -> Shapes] : n \in 1 .. MaxDescriptors}}

(***************************************************************************)
(* Kernel images: any number of half pages, at the start of any page of a  *)
(* LOADER_DATA descriptor, within that descriptor.                         *)
(***************************************************************************)
Half == 2048

Slices(m) ==
  UNION {{[at |-> PAGE_SIZE * p, size |-> Half * q] :
            p \in start_frame(m[k]) .. end_frame(m[k]), q \in 1 .. 2 * Max(PageCounts)} :
         k \in {i \in 1 .. Len(m) : m[i].ty = "LOADER_DATA"}}

HalfPages == {Half * q : q \in 0 .. 2 * (MaxDescriptors * (Max(PageCounts) + Max(Gaps)) + 1)}
=============================================================================
