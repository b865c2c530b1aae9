------------------------ MODULE MemoryRegionsProofs ------------------------
(***************************************************************************)
(* Proofs about construct_memory_map, for every well-formed memory map,    *)
(* every number of allocated frames and every place of the kernel image:   *)
(* it never panics, and what it reports is exact.                          *)
(***************************************************************************)
EXTENDS MemoryRegions, TLAPS

\* K is what should be reported of address a.
Truth(a, K) ==
  \E k \in 1 .. Len(original) : InDescriptor(a, original[k]) /\ TrueKind(a, original[k]) = K

\* The regions rs report exactly the memory below hi.
Good(rs, hi) ==
  /\ rs \in Seq(MemoryRegion)
  /\ \A j \in 1 .. Len(rs) : rs[j].start < rs[j].end /\ rs[j].end <= hi
  /\ \A j, k \in 1 .. Len(rs) : j < k => rs[j].end <= rs[k].start
  /\ ExactBelow(rs, hi)

(***************************************************************************)
(* The number of regions: one per descriptor seen, one more if next_free   *)
(* split one of them, two more if the kernel image was cut out of one.     *)
(***************************************************************************)
EntriesUsed ==
  Len(regions) <=
    (descriptor - 1)
    + (IF \E k \in 1 .. descriptor - 1 : IsSplit(original[k]) THEN 1 ELSE 0)
    + (IF \E k \in 1 .. descriptor - 1 : overlaps_kernel(region(original[k])) THEN 2 ELSE 0)

\* Usable memory ends where a page ends.
Aligned(rs) == \A j \in 1 .. Len(rs) : rs[j].kind = "Usable" => rs[j].end % PAGE_SIZE = 0

InputOK ==
  /\ WellFormedMap(original)
  /\ next_frame \in Nat
  /\ kernel_slice_start \in Nat
  /\ kernel_slice_len \in Nat \ {0}
  /\ KernelInLoaderData(original, kernel_slice_start, kernel_slice_len)

IInv ==
  /\ InputOK
  /\ descriptor \in 1 .. Len(original) + 1
  /\ pc \in {"loop", "done"}
  /\ pc = "done" => descriptor = Len(original) + 1
  /\ Good(regions, Frontier)
  /\ EntriesUsed
  /\ Aligned(regions)

-----------------------------------------------------------------------------
(***************************************************************************)
(* Adding a region that begins where the report ended and tells the truth. *)
(***************************************************************************)
LEMMA AddGood ==
  ASSUME NEW rs, NEW lo \in Nat, Good(rs, lo),
         NEW r \in MemoryRegion, r.start = lo, r.start <= r.end,
         \A a \in Addresses : Within(a, lo, r.end) =>
           \A K \in MemoryRegionKind : Truth(a, K) <=> r.kind = K
  PROVE  Good(add_region(rs, r), r.end)
<1> USE AddressesAreNat
<1>0. r.start \in Nat /\ r.end \in Nat /\ r.kind \in MemoryRegionKind
  BY DEF MemoryRegion
<1>1. CASE r.start = r.end
  <2>1. add_region(rs, r) = rs /\ r.end = lo
    BY <1>1 DEF add_region
  <2> QED
    BY <2>1
<1>2. CASE r.start # r.end
  <2> DEFINE t == Append(rs, r)
             n == Len(rs)
  <2>1. add_region(rs, r) = t
    BY <1>2 DEF add_region
  <2>2. /\ rs \in Seq(MemoryRegion) /\ n \in Nat
        /\ t \in Seq(MemoryRegion) /\ Len(t) = n + 1
        /\ \A j \in 1 .. n : t[j] = rs[j]
        /\ t[n + 1] = r
    BY DEF Good
  <2>3. \A j \in 1 .. n : /\ rs[j].start \in Nat /\ rs[j].end \in Nat
                          /\ rs[j].start < rs[j].end /\ rs[j].end <= lo
    <3>1. \A j \in 1 .. n : rs[j] \in MemoryRegion
      BY <2>2
    <3>2. \A j \in 1 .. n : rs[j].start \in Nat /\ rs[j].end \in Nat
      BY <3>1 DEF MemoryRegion
    <3> QED
      BY <3>2 DEF Good
  <2> HIDE DEF t, n
  <2>4. \A j \in 1 .. Len(t) : t[j].start < t[j].end /\ t[j].end <= r.end
    <3> SUFFICES ASSUME NEW j \in 1 .. Len(t)
                 PROVE  t[j].start < t[j].end /\ t[j].end <= r.end
      OBVIOUS
    <3>1. CASE j = n + 1
      BY <3>1, <2>2, <1>0, <1>2
    <3>2. CASE j # n + 1
      <4>1. j \in 1 .. n
        BY <3>2, <2>2
      <4> QED
        BY <4>1, <2>2, <2>3, <1>0
    <3> QED
      BY <3>1, <3>2
  <2>5. \A j, k \in 1 .. Len(t) : j < k => t[j].end <= t[k].start
    <3> SUFFICES ASSUME NEW j \in 1 .. Len(t), NEW k \in 1 .. Len(t), j < k
                 PROVE  t[j].end <= t[k].start
      OBVIOUS
    <3>1. j \in 1 .. n
      BY <2>2
    <3>2. CASE k = n + 1
      BY <3>1, <3>2, <2>2, <2>3
    <3>3. CASE k # n + 1
      <4>1. k \in 1 .. n
        BY <3>3, <2>2
      <4>2. rs[j].end <= rs[k].start
        BY <3>1, <4>1 DEF Good, n
      <4> QED
        BY <3>1, <4>1, <4>2, <2>2
    <3> QED
      BY <3>2, <3>3
  <2>6. ASSUME NEW a \in Addresses, a < r.end, NEW K \in MemoryRegionKind
        PROVE  (\E j \in 1 .. Len(t) : Within(a, t[j].start, t[j].end) /\ t[j].kind = K)
                 <=> Truth(a, K)
    <3>1. (\E j \in 1 .. Len(t) : Within(a, t[j].start, t[j].end) /\ t[j].kind = K)
            <=> \/ \E j \in 1 .. n : Within(a, rs[j].start, rs[j].end) /\ rs[j].kind = K
                \/ Within(a, r.start, r.end) /\ r.kind = K
      <4>1. \A j : j \in 1 .. Len(t) <=> j \in 1 .. n \/ j = n + 1
        BY <2>2
      <4> QED
        BY <4>1, <2>2
    <3>2. CASE a < lo
      <4>1. ~Within(a, r.start, r.end)
        BY <3>2 DEF Within
      <4>2. (\E j \in 1 .. n : Within(a, rs[j].start, rs[j].end) /\ rs[j].kind = K) <=> Truth(a, K)
        BY <3>2 DEF Good, ExactBelow, Truth, n
      <4> QED
        BY <3>1, <4>1, <4>2
    <3>3. CASE ~(a < lo)
      <4>1. Within(a, r.start, r.end) /\ Within(a, lo, r.end)
        BY <3>3, <2>6 DEF Within
      <4>2. \A j \in 1 .. n : ~Within(a, rs[j].start, rs[j].end)
        BY <3>3, <2>3 DEF Within
      <4>3. Truth(a, K) <=> r.kind = K
        BY <4>1
      <4> QED
        BY <3>1, <4>1, <4>2, <4>3
    <3> QED
      BY <3>2, <3>3
  <2>7. ExactBelow(t, r.end)
    BY <2>6 DEF ExactBelow, Truth
  <2> QED
    BY <2>1, <2>2, <2>4, <2>5, <2>7 DEF Good
<1> QED
  BY <1>1, <1>2

(***************************************************************************)
(* The report also holds of a hole in the memory map that follows it.      *)
(***************************************************************************)
LEMMA GapGood ==
  ASSUME NEW rs, NEW lo \in Nat, Good(rs, lo), NEW hi \in Nat, lo <= hi,
         \A a \in Addresses : Within(a, lo, hi) => \A K \in MemoryRegionKind : ~Truth(a, K)
  PROVE  Good(rs, hi)
<1> USE AddressesAreNat
<1>1. /\ rs \in Seq(MemoryRegion) /\ Len(rs) \in Nat
      /\ \A j \in 1 .. Len(rs) : /\ rs[j].start \in Nat /\ rs[j].end \in Nat
                                 /\ rs[j].start < rs[j].end /\ rs[j].end <= lo
  <2>1. rs \in Seq(MemoryRegion) /\ Len(rs) \in Nat
    BY DEF Good
  <2>2. \A j \in 1 .. Len(rs) : rs[j] \in MemoryRegion
    BY <2>1
  <2>3. \A j \in 1 .. Len(rs) : rs[j].start \in Nat /\ rs[j].end \in Nat
    BY <2>2 DEF MemoryRegion
  <2> QED
    BY <2>1, <2>3 DEF Good
<1>2. ASSUME NEW a \in Addresses, a < hi, NEW K \in MemoryRegionKind
      PROVE  (\E j \in 1 .. Len(rs) : Within(a, rs[j].start, rs[j].end) /\ rs[j].kind = K)
               <=> Truth(a, K)
  <2>1. CASE a < lo
    BY <2>1 DEF Good, ExactBelow, Truth
  <2>2. CASE ~(a < lo)
    <3>1. ~Truth(a, K)
      BY <2>2, <1>2 DEF Within
    <3>2. \A j \in 1 .. Len(rs) : ~Within(a, rs[j].start, rs[j].end)
      BY <2>2, <1>1 DEF Within
    <3> QED
      BY <3>1, <3>2
  <2> QED
    BY <2>1, <2>2
<1>3. ExactBelow(rs, hi)
  BY <1>2 DEF ExactBelow, Truth
<1>4. \A j \in 1 .. Len(rs) : rs[j].start < rs[j].end /\ rs[j].end <= hi
  BY <1>1
<1> QED
  BY <1>1, <1>3, <1>4 DEF Good

-----------------------------------------------------------------------------
(***************************************************************************)
(* Bounds of a descriptor, and the order of two of them, in bytes.         *)
(***************************************************************************)
LEMMA Bounds ==
  ASSUME InputOK, NEW i \in 1 .. Len(original)
  PROVE  /\ start(original[i]) \in Nat
         /\ len(original[i]) \in Nat
         /\ len(original[i]) > 0
         /\ next_free \in Nat
         /\ kernel_slice_end \in Nat
         /\ kernel_slice_start < kernel_slice_end
<1>1. original[i].phys_start \in Nat /\ original[i].page_count \in Nat
  <2>1. original[i] \in UefiMemoryDescriptor
    BY DEF InputOK, WellFormedMap
  <2> QED
    BY <2>1 DEF UefiMemoryDescriptor
<1>2. original[i].page_count > 0
  BY DEF InputOK, WellFormedMap
<1>3. start(original[i]) \in Nat /\ len(original[i]) \in Nat /\ len(original[i]) > 0
  BY <1>1, <1>2 DEF start, len, PAGE_SIZE
<1>4. next_free \in Nat
  BY DEF InputOK, next_free, PAGE_SIZE
<1>5. kernel_slice_end \in Nat /\ kernel_slice_start < kernel_slice_end
  BY DEF InputOK, kernel_slice_end
<1> QED
  BY <1>3, <1>4, <1>5

LEMMA Ordered ==
  ASSUME InputOK, NEW i \in 1 .. Len(original), NEW j \in 1 .. Len(original), i < j
  PROVE  start(original[i]) + len(original[i]) <= start(original[j])
BY DEF InputOK, WellFormedMap

(***************************************************************************)
(* An address lies in one descriptor at most.                              *)
(***************************************************************************)
LEMMA TruthInDescriptor ==
  ASSUME InputOK, NEW i \in 1 .. Len(original), NEW a \in Nat,
         InDescriptor(a, original[i]), NEW K
  PROVE  Truth(a, K) <=> TrueKind(a, original[i]) = K
<1>1. ASSUME NEW k \in 1 .. Len(original), InDescriptor(a, original[k])
      PROVE  k = i
  <2>1. /\ start(original[i]) \in Nat /\ len(original[i]) \in Nat
        /\ start(original[k]) \in Nat /\ len(original[k]) \in Nat
    BY Bounds
  <2>2. k < i => start(original[k]) + len(original[k]) <= start(original[i])
    BY Ordered
  <2>3. i < k => start(original[i]) + len(original[i]) <= start(original[k])
    BY Ordered
  <2> QED
    BY <1>1, <2>1, <2>2, <2>3 DEF InDescriptor, Within
<1> QED
  BY <1>1 DEF Truth

(***************************************************************************)
(* Only the LOADER_DATA descriptor that holds the kernel image overlaps    *)
(* it, and that one is not split at next_free.                             *)
(***************************************************************************)
LEMMA OverlapIsHolder ==
  ASSUME InputOK, NEW i \in 1 .. Len(original), overlaps_kernel(region(original[i]))
  PROVE  /\ kind(original[i]) # "Usable"
         /\ kernel_inside(region(original[i]))
         /\ \A k \in 1 .. Len(original) : k # i => ~overlaps_kernel(region(original[k]))
<1>1. PICK h \in 1 .. Len(original) :
        /\ original[h].ty = "LOADER_DATA"
        /\ start(original[h]) <= kernel_slice_start
        /\ kernel_slice_end <= start(original[h]) + len(original[h])
  BY DEF InputOK, KernelInLoaderData, kernel_slice_end
<1>2. ASSUME NEW k \in 1 .. Len(original), overlaps_kernel(region(original[k]))
      PROVE  k = h
  <2>1. /\ start(original[k]) \in Nat /\ len(original[k]) \in Nat
        /\ start(original[h]) \in Nat /\ len(original[h]) \in Nat
        /\ next_free \in Nat /\ kernel_slice_end \in Nat /\ kernel_slice_start \in Nat
    BY Bounds DEF InputOK
  <2>2. /\ region(original[k]).start >= start(original[k])
        /\ region(original[k]).end = start(original[k]) + len(original[k])
    BY <2>1 DEF region, IsSplit
  <2>3. /\ kernel_slice_start < start(original[k]) + len(original[k])
        /\ kernel_slice_end > start(original[k])
    <3>1. /\ kernel_slice_start < region(original[k]).end
          /\ kernel_slice_end > region(original[k]).start
      BY <1>2 DEF overlaps_kernel
    <3>2. region(original[k]).start \in Nat
      BY <2>1 DEF region
    <3> QED
      BY <3>1, <3>2, <2>1, <2>2
  <2>4. k < h => start(original[k]) + len(original[k]) <= start(original[h])
    BY Ordered
  <2>5. h < k => start(original[h]) + len(original[h]) <= start(original[k])
    BY Ordered
  <2> QED
    BY <1>1, <2>1, <2>3, <2>4, <2>5
<1>3. i = h
  BY <1>2
<1>4. kind(original[i]) # "Usable"
  BY <1>1, <1>3 DEF kind
<1>5. kernel_inside(region(original[i]))
  <2>1. /\ region(original[i]).start = start(original[i])
        /\ region(original[i]).end = start(original[i]) + len(original[i])
    BY <1>4 DEF region, IsSplit
  <2>2. /\ start(original[i]) \in Nat /\ len(original[i]) \in Nat
        /\ kernel_slice_end \in Nat /\ kernel_slice_start \in Nat
    BY Bounds DEF InputOK
  <2> QED
    BY <1>1, <1>3, <2>1, <2>2 DEF kernel_inside
<1> QED
  BY <1>2, <1>3, <1>4, <1>5

\* At most one descriptor is split at next_free.
LEMMA SplitOnce ==
  ASSUME InputOK, NEW i \in 1 .. Len(original), NEW k \in 1 .. Len(original),
         IsSplit(original[i]), IsSplit(original[k])
  PROVE  i = k
<1>1. /\ start(original[i]) \in Nat /\ len(original[i]) \in Nat
      /\ start(original[k]) \in Nat /\ len(original[k]) \in Nat /\ next_free \in Nat
  BY Bounds
<1>2. i < k => start(original[i]) + len(original[i]) <= start(original[k])
  BY Ordered
<1>3. k < i => start(original[k]) + len(original[k]) <= start(original[i])
  BY Ordered
<1> QED
  BY <1>1, <1>2, <1>3 DEF IsSplit

-----------------------------------------------------------------------------
(***************************************************************************)
(* One iteration of the loop extends an exact report to the end of the     *)
(* descriptor it takes.                                                    *)
(***************************************************************************)
LEMMA DescriptorGood ==
  ASSUME InputOK, descriptor \in 1 .. Len(original), Good(regions, Frontier)
  PROVE  LET d == original[descriptor]
         IN  Good(add_descriptor(regions, d), start(d) + len(d))
<1> USE AddressesAreNat
<1> DEFINE d == original[descriptor]
           s == start(d)
           e == start(d) + len(d)
           nf == next_free
           ks == kernel_slice_start
           ke == kernel_slice_end
           r == region(d)
<1>1. /\ s \in Nat /\ e \in Nat /\ s < e /\ nf \in Nat
      /\ ks \in Nat /\ ke \in Nat /\ ks < ke
  BY Bounds DEF InputOK
<1>2. d.ty \in MemoryType
  <2>1. d \in UefiMemoryDescriptor
    BY DEF InputOK, WellFormedMap
  <2> QED
    BY <2>1 DEF UefiMemoryDescriptor
<1>3. /\ kind(d) = "Usable" => usable_after_bootloader_exit(d)
      /\ kind(d) \in MemoryRegionKind /\ "Usable" \in MemoryRegionKind
      /\ "Bootloader" \in MemoryRegionKind
  BY <1>2 DEF kind, usable_after_bootloader_exit, MemoryRegionKind, MemoryType
<1>4. ASSUME NEW a \in Nat, Within(a, s, e), NEW K
      PROVE  Truth(a, K) <=> TrueKind(a, d) = K
  BY <1>4, TruthInDescriptor DEF InDescriptor
\* The hole before the descriptor.
<1>5. Good(regions, s)
  <2>1. Frontier \in Nat /\ Frontier <= s
    <3>1. CASE descriptor = 1
      BY <3>1, <1>1 DEF Frontier
    <3>2. CASE descriptor # 1
      <4>1. descriptor - 1 \in 1 .. Len(original) /\ descriptor - 1 < descriptor
        BY <3>2
      <4>2. /\ Frontier = start(original[descriptor - 1]) + len(original[descriptor - 1])
            /\ start(original[descriptor - 1]) \in Nat
            /\ len(original[descriptor - 1]) \in Nat
        BY <3>2, <4>1, Bounds DEF Frontier
      <4> QED
        BY <4>1, <4>2, Ordered
    <3> QED
      BY <3>1, <3>2
  <2>2. ASSUME NEW a \in Addresses, Within(a, Frontier, s), NEW K \in MemoryRegionKind, Truth(a, K)
        PROVE  FALSE
    <3>1. PICK k \in 1 .. Len(original) : InDescriptor(a, original[k])
      BY <2>2 DEF Truth
    <3>2. /\ start(original[k]) \in Nat /\ len(original[k]) \in Nat
          /\ start(original[k]) <= a /\ a < start(original[k]) + len(original[k])
          /\ Frontier <= a /\ a < s
      BY <2>2, <3>1, Bounds DEF InDescriptor, Within
    <3>3. k < descriptor
      <4> SUFFICES ASSUME ~(k < descriptor) PROVE FALSE
        OBVIOUS
      <4>1. CASE k = descriptor
        BY <4>1, <3>2, <1>1
      <4>2. CASE descriptor < k
        <5>1. e <= start(original[k])
          BY <4>2, Ordered
        <5> QED
          BY <5>1, <3>2, <1>1
      <4> QED
        BY <4>1, <4>2
    <3>4. /\ descriptor - 1 \in 1 .. Len(original) /\ descriptor # 1
          /\ k < descriptor - 1 \/ k = descriptor - 1
      BY <3>3
    <3>5. /\ Frontier = start(original[descriptor - 1]) + len(original[descriptor - 1])
          /\ start(original[descriptor - 1]) \in Nat
          /\ len(original[descriptor - 1]) \in Nat
      BY <3>4, Bounds DEF Frontier
    <3>6. start(original[k]) + len(original[k]) <= Frontier
      <4>1. CASE k = descriptor - 1
        BY <4>1, <3>2, <3>5
      <4>2. CASE k < descriptor - 1
        <5>1. start(original[k]) + len(original[k]) <= start(original[descriptor - 1])
          BY <4>2, <3>4, Ordered
        <5> QED
          BY <5>1, <3>2, <3>5
      <4> QED
        BY <4>1, <4>2, <3>4
    <3> QED
      BY <3>2, <3>6, <2>1
  <2> QED
    BY <2>1, <2>2, <1>1, GapGood
<1>6. /\ r.start = IF IsSplit(d) THEN nf ELSE s
      /\ r.end = e
      /\ r.kind = region_kind(d)
      /\ r.start \in Nat /\ s <= r.start /\ r.start < e
      /\ r.kind \in MemoryRegionKind
      /\ r = [start |-> r.start, end |-> e, kind |-> region_kind(d)]
  BY <1>1, <1>3 DEF region, IsSplit, region_kind
\* The part of conventional memory the loader has used.
<1>7. Good(add_used(regions, d), r.start)
  <2>1. CASE IsSplit(d)
    <3> DEFINE u == used_region(d)
    <3>1. /\ u \in MemoryRegion /\ u.start = s /\ u.end = nf /\ u.kind = "Bootloader"
          /\ s < nf /\ nf < e
      BY <2>1, <1>1, <1>3 DEF used_region, MemoryRegion, IsSplit
    <3>2. ASSUME NEW a \in Addresses, Within(a, s, nf), NEW K \in MemoryRegionKind
          PROVE  Truth(a, K) <=> u.kind = K
      <4>1. a \in Nat /\ Within(a, s, e) /\ a < nf
        BY <3>1, <3>2, <1>1 DEF Within
      <4>2. TrueKind(a, d) = "Bootloader"
        BY <4>1, <2>1 DEF TrueKind, IsSplit
      <4> QED
        BY <4>1, <4>2, <3>1, <1>4
    <3> HIDE DEF u
    <3>3. Good(add_region(regions, u), nf)
      BY <3>1, <3>2, <1>1, <1>5, AddGood
    <3> QED
      BY <3>3, <2>1, <1>6 DEF add_used, u
  <2>2. CASE ~IsSplit(d)
    BY <2>2, <1>5, <1>6 DEF add_used
  <2> QED
    BY <2>1, <2>2
\* What the region of the rest says is true outside the kernel image.
<1>8. ASSUME NEW a \in Nat, Within(a, r.start, e), r.kind = "Usable" => ~Within(a, ks, ke)
      PROVE  TrueKind(a, d) = r.kind
  <2>1. CASE kind(d) = "Usable" /\ e <= nf
    <3>1. a < nf
      BY <2>1, <1>8, <1>1 DEF Within
    <3>2. r.kind = "Bootloader"
      BY <2>1, <1>6 DEF region_kind
    <3> QED
      BY <2>1, <3>1, <3>2 DEF TrueKind
  <2>2. CASE kind(d) = "Usable" /\ ~(e <= nf)
    <3>1. r.kind = "Usable"
      BY <2>2, <1>6 DEF region_kind
    <3>2. ~(a < nf)
      BY <2>2, <1>8, <1>6, <1>1 DEF Within, IsSplit
    <3> QED
      BY <2>2, <3>1, <3>2, <1>3, <1>8 DEF TrueKind
  <2>3. CASE kind(d) # "Usable" /\ usable_after_bootloader_exit(d)
    <3>1. r.kind = "Usable"
      BY <2>3, <1>6 DEF region_kind
    <3> QED
      BY <2>3, <3>1, <1>8 DEF TrueKind
  <2>4. CASE kind(d) # "Usable" /\ ~usable_after_bootloader_exit(d)
    BY <2>4, <1>6 DEF region_kind, TrueKind
  <2> QED
    BY <2>1, <2>2, <2>3, <2>4
<1> HIDE DEF r, s, e, nf, ks, ke, d
\* The rest, in one piece ...
<1>9. CASE ~overlaps_kernel(r)
  <2>1. ASSUME NEW a \in Addresses, Within(a, r.start, r.end), NEW K \in MemoryRegionKind
        PROVE  Truth(a, K) <=> r.kind = K
    <3>1. a \in Nat /\ Within(a, r.start, e) /\ Within(a, s, e)
      BY <2>1, <1>6, <1>1 DEF Within
    <3>2. r.kind = "Usable" => ~Within(a, ks, ke)
      BY <1>9, <3>1, <1>6, <1>1 DEF overlaps_kernel, Within, ks, ke
    <3>3. TrueKind(a, d) = r.kind
      BY <3>1, <3>2, <1>8
    <3> QED
      BY <3>1, <3>3, <1>4
  <2>2. r \in MemoryRegion
    BY <1>6, <1>1 DEF MemoryRegion, region_kind
  <2>3. Good(add_region(add_used(regions, d), r), r.end)
    BY <2>1, <2>2, <1>6, <1>7, <1>1, AddGood
  <2> QED
    BY <2>3, <1>9, <1>6 DEF add_descriptor, add_rest, r, e, d
\* ... or with the kernel image cut out of it.
<1>10. CASE overlaps_kernel(r)
  <2> DEFINE b == before_kernel(r)
             k == kernel_region
             c == after_kernel(r)
             rs0 == add_used(regions, d)
             rs1 == add_region(rs0, b)
             rs2 == add_region(rs1, k)
  <2>1. /\ r.kind = "Usable" /\ r.start <= ks /\ ke <= e
        /\ kind(d) # "Usable"
    <3>1. kernel_inside(r) /\ kind(d) # "Usable"
      BY <1>10, OverlapIsHolder DEF r, d
    <3> QED
      BY <3>1, <1>10, <1>6 DEF kernel_inside, overlaps_kernel, ks, ke
  <2>2. /\ b \in MemoryRegion /\ b.start = r.start /\ b.end = ks /\ b.kind = "Usable"
        /\ k \in MemoryRegion /\ k.start = ks /\ k.end = ke /\ k.kind = "Bootloader"
        /\ c \in MemoryRegion /\ c.start = ke /\ c.end = e /\ c.kind = "Usable"
    <3>1. r = [start |-> r.start, end |-> e, kind |-> "Usable"]
      BY <2>1, <1>6
    <3>2. b = [start |-> r.start, end |-> ks, kind |-> "Usable"]
      BY <3>1 DEF before_kernel, ks
    <3>3. c = [start |-> ke, end |-> e, kind |-> "Usable"]
      BY <3>1 DEF after_kernel, ke
    <3>4. k = [start |-> ks, end |-> ke, kind |-> "Bootloader"]
      BY DEF kernel_region, ks, ke
    <3> HIDE DEF b, c, k
    <3> QED
      BY <3>2, <3>3, <3>4, <1>1, <1>3, <1>6 DEF MemoryRegion
  <2>3. usable_after_bootloader_exit(d)
    BY <2>1, <1>6 DEF region_kind, kind
  <2> HIDE DEF b, c, k, rs0, rs1, rs2
  <2>4. ASSUME NEW a \in Nat, Within(a, r.start, e), NEW K \in MemoryRegionKind
        PROVE  Truth(a, K) <=> (IF Within(a, ks, ke) THEN "Bootloader" ELSE "Usable") = K
    <3>1. Within(a, s, e)
      BY <2>4, <1>6, <1>1 DEF Within
    <3>2. Truth(a, K) <=> TrueKind(a, d) = K
      BY <3>1, <1>4
    <3>3. CASE Within(a, ks, ke)
      <4>1. TrueKind(a, d) = "Bootloader"
        BY <3>3, <2>3 DEF TrueKind, ks, ke
      <4> QED
        BY <4>1, <3>2, <3>3
    <3>4. CASE ~Within(a, ks, ke)
      <4>1. TrueKind(a, d) = "Usable"
        BY <3>4, <2>1, <2>4, <1>8
      <4> QED
        BY <4>1, <3>2, <3>4
    <3> QED
      BY <3>3, <3>4
  <2>5. Good(rs1, ks)
    <3>1. ASSUME NEW a \in Addresses, Within(a, r.start, ks), NEW K \in MemoryRegionKind
          PROVE  Truth(a, K) <=> b.kind = K
      <4>1. a \in Nat /\ Within(a, r.start, e) /\ ~Within(a, ks, ke)
        BY <3>1, <2>1, <1>1, <1>6 DEF Within
      <4> QED
        BY <4>1, <2>2, <2>4
    <3>2. Good(rs0, r.start)
      BY <1>7 DEF rs0
    <3> QED
      BY <3>1, <3>2, <2>1, <2>2, <1>1, <1>6, AddGood DEF rs1
  <2>6. Good(rs2, ke)
    <3>1. ASSUME NEW a \in Addresses, Within(a, ks, ke), NEW K \in MemoryRegionKind
          PROVE  Truth(a, K) <=> k.kind = K
      <4>1. a \in Nat /\ Within(a, r.start, e)
        BY <3>1, <2>1, <1>1, <1>6 DEF Within
      <4> QED
        BY <3>1, <4>1, <2>2, <2>4
    <3> QED
      BY <3>1, <2>2, <2>5, <1>1, AddGood DEF rs2
  <2>7. Good(add_region(rs2, c), e)
    <3>1. ASSUME NEW a \in Addresses, Within(a, ke, e), NEW K \in MemoryRegionKind
          PROVE  Truth(a, K) <=> c.kind = K
      <4>1. a \in Nat /\ Within(a, r.start, e) /\ ~Within(a, ks, ke)
        BY <3>1, <2>1, <1>1, <1>6 DEF Within
      <4> QED
        BY <4>1, <2>2, <2>4
    <3> QED
      BY <3>1, <2>1, <2>2, <2>6, <1>1, AddGood
  <2> QED
    BY <2>7, <1>10 DEF add_descriptor, add_rest, r, e, d, b, c, k, rs0, rs1, rs2
<1> QED
  BY <1>9, <1>10 DEF e, d

-----------------------------------------------------------------------------

LEMMA AddLength ==
  ASSUME NEW rs \in Seq(MemoryRegion), NEW r \in MemoryRegion
  PROVE  /\ add_region(rs, r) \in Seq(MemoryRegion)
         /\ Len(add_region(rs, r)) <= Len(rs) + 1
BY DEF add_region

(***************************************************************************)
(* An iteration writes one region, one more at a split, two more around    *)
(* the kernel image.                                                       *)
(***************************************************************************)
LEMMA DescriptorLength ==
  ASSUME InputOK, descriptor \in 1 .. Len(original), regions \in Seq(MemoryRegion)
  PROVE  LET d == original[descriptor]
         IN  Len(add_descriptor(regions, d)) <=
               Len(regions) + 1 + (IF IsSplit(d) THEN 1 ELSE 0)
                                + (IF overlaps_kernel(region(d)) THEN 2 ELSE 0)
<1> DEFINE d == original[descriptor]
           rs0 == add_used(regions, d)
           r == region(d)
<1>1. /\ start(d) \in Nat /\ len(d) \in Nat /\ next_free \in Nat
      /\ kernel_slice_start \in Nat /\ kernel_slice_end \in Nat
  BY Bounds DEF InputOK
<1>2. /\ kind(d) \in MemoryRegionKind /\ "Usable" \in MemoryRegionKind
      /\ "Bootloader" \in MemoryRegionKind
  <2>1. d \in UefiMemoryDescriptor
    BY DEF InputOK, WellFormedMap
  <2>2. d.ty \in MemoryType
    BY <2>1 DEF UefiMemoryDescriptor
  <2> QED
    BY <2>2 DEF kind, MemoryRegionKind, MemoryType
<1>3. r \in MemoryRegion
  BY <1>1, <1>2 DEF region, region_kind, MemoryRegion
<1>4. /\ used_region(d) \in MemoryRegion
      /\ kernel_region \in MemoryRegion
  BY <1>1, <1>2 DEF used_region, kernel_region, MemoryRegion
<1> HIDE DEF r
<1>5. before_kernel(r) \in MemoryRegion /\ after_kernel(r) \in MemoryRegion
  BY <1>1, <1>3 DEF before_kernel, after_kernel, MemoryRegion
<1>6. /\ rs0 \in Seq(MemoryRegion)
      /\ Len(rs0) <= Len(regions) + (IF IsSplit(d) THEN 1 ELSE 0)
  BY <1>4, AddLength DEF add_used
<1> HIDE DEF rs0, d
<1>7. CASE ~overlaps_kernel(r)
  <2>1. add_descriptor(regions, d) = add_region(rs0, r)
    BY <1>7 DEF add_descriptor, add_rest, rs0, r
  <2>2. Len(add_region(rs0, r)) <= Len(rs0) + 1 /\ add_region(rs0, r) \in Seq(MemoryRegion)
    BY <1>6, <1>3, AddLength
  <2> QED
    BY <2>1, <2>2, <1>6, <1>7 DEF d, r
<1>8. CASE overlaps_kernel(r)
  <2> DEFINE rs1 == add_region(rs0, before_kernel(r))
             rs2 == add_region(rs1, kernel_region)
             rs3 == add_region(rs2, after_kernel(r))
  <2>1. add_descriptor(regions, d) = rs3
    BY <1>8 DEF add_descriptor, add_rest, rs0, r
  <2>2. rs1 \in Seq(MemoryRegion) /\ Len(rs1) <= Len(rs0) + 1
    BY <1>5, <1>6, AddLength
  <2> HIDE DEF rs1
  <2>3. rs2 \in Seq(MemoryRegion) /\ Len(rs2) <= Len(rs1) + 1
    BY <1>4, <2>2, AddLength
  <2> HIDE DEF rs2
  <2>4. rs3 \in Seq(MemoryRegion) /\ Len(rs3) <= Len(rs2) + 1
    BY <1>5, <2>3, AddLength
  <2> HIDE DEF rs3
  <2> QED
    BY <2>1, <2>2, <2>3, <2>4, <1>6, <1>8 DEF d, r
<1> QED
  BY <1>7, <1>8 DEF r

(***************************************************************************)
(* The entries used stay within the bound, and the bound within capacity.  *)
(***************************************************************************)
LEMMA EntriesStep ==
  ASSUME InputOK, descriptor \in 1 .. Len(original), regions \in Seq(MemoryRegion), EntriesUsed
  PROVE  LET n == Len(add_descriptor(regions, original[descriptor]))
         IN  /\ n <= descriptor
                     + (IF \E k \in 1 .. descriptor : IsSplit(original[k]) THEN 1 ELSE 0)
                     + (IF \E k \in 1 .. descriptor : overlaps_kernel(region(original[k])) THEN 2 ELSE 0)
             /\ n <= capacity(original)
<1> DEFINE d == original[descriptor]
           n == Len(add_descriptor(regions, d))
           S(i) == \E k \in 1 .. i : IsSplit(original[k])
           O(i) == \E k \in 1 .. i : overlaps_kernel(region(original[k]))
<1>1. \A k : k \in 1 .. descriptor <=> k \in 1 .. descriptor - 1 \/ k = descriptor
  OBVIOUS
<1>2. IsSplit(d) => S(descriptor) /\ ~S(descriptor - 1)
  BY SplitOnce
<1>3. overlaps_kernel(region(d)) => O(descriptor) /\ ~O(descriptor - 1)
  BY OverlapIsHolder
<1>4. S(descriptor - 1) => S(descriptor)
  BY <1>1
<1>5. O(descriptor - 1) => O(descriptor)
  BY <1>1
<1>6. Len(regions) \in Nat /\ Len(regions) <= (descriptor - 1) + (IF S(descriptor - 1) THEN 1 ELSE 0)
                        + (IF O(descriptor - 1) THEN 2 ELSE 0)
  BY DEF EntriesUsed
<1>7. n \in Nat /\ n <= Len(regions) + 1 + (IF IsSplit(d) THEN 1 ELSE 0)
                              + (IF overlaps_kernel(region(d)) THEN 2 ELSE 0)
  <2>1. n <= Len(regions) + 1 + (IF IsSplit(d) THEN 1 ELSE 0)
                              + (IF overlaps_kernel(region(d)) THEN 2 ELSE 0)
    BY DescriptorLength
  <2> QED
    BY <2>1
<1> HIDE DEF n, S, O, d
<1>8. n <= descriptor + (IF S(descriptor) THEN 1 ELSE 0) + (IF O(descriptor) THEN 2 ELSE 0)
  BY <1>2, <1>3, <1>4, <1>5, <1>6, <1>7
<1>9. n <= capacity(original)
  BY <1>7, <1>8 DEF capacity, InputOK, WellFormedMap
<1> QED
  BY <1>8, <1>9 DEF n, S, O, d

(***************************************************************************)
(* Regions are cut at the ends of descriptors, at next_free and at the     *)
(* kernel image, and the image begins where a page does.                   *)
(***************************************************************************)
LEMMA AddAligned ==
  ASSUME NEW rs \in Seq(MemoryRegion), Aligned(rs), NEW r \in MemoryRegion,
         r.kind = "Usable" => r.end % PAGE_SIZE = 0
  PROVE  add_region(rs, r) \in Seq(MemoryRegion) /\ Aligned(add_region(rs, r))
<1>1. CASE r.start = r.end
  BY <1>1 DEF add_region
<1>2. CASE r.start # r.end
  <2> DEFINE t == Append(rs, r)
  <2>1. add_region(rs, r) = t
    BY <1>2 DEF add_region
  <2>2. /\ t \in Seq(MemoryRegion)
        /\ \A j \in 1 .. Len(t) : t[j] = r \/ (j \in 1 .. Len(rs) /\ t[j] = rs[j])
    OBVIOUS
  <2> HIDE DEF t
  <2> QED
    BY <2>1, <2>2 DEF Aligned
<1> QED
  BY <1>1, <1>2

LEMMA AlignedStep ==
  ASSUME InputOK, descriptor \in 1 .. Len(original), regions \in Seq(MemoryRegion), Aligned(regions)
  PROVE  Aligned(add_descriptor(regions, original[descriptor]))
<1> DEFINE d == original[descriptor]
           rs0 == add_used(regions, d)
           r == region(d)
<1>1. /\ start(d) \in Nat /\ len(d) \in Nat /\ next_free \in Nat
      /\ kernel_slice_start \in Nat /\ kernel_slice_end \in Nat
      /\ kernel_slice_start % PAGE_SIZE = 0
  BY Bounds DEF InputOK, KernelInLoaderData
<1>2. (start(d) + len(d)) % PAGE_SIZE = 0
  <2>1. d.phys_start \in Nat /\ d.page_count \in Nat /\ d.phys_start % 4096 = 0
    <3>1. d \in UefiMemoryDescriptor /\ d.phys_start % PAGE_SIZE = 0
      BY DEF InputOK, WellFormedMap
    <3> QED
      BY <3>1 DEF UefiMemoryDescriptor, PAGE_SIZE
  <2>2. \A s, c \in Nat : s % 4096 = 0 => (s + c * 4096) % 4096 = 0
    OBVIOUS
  <2> QED
    BY <2>1, <2>2 DEF start, len, PAGE_SIZE
<1>3. r \in MemoryRegion /\ r.end = start(d) + len(d)
  <2>1. d \in UefiMemoryDescriptor
    BY DEF InputOK, WellFormedMap
  <2>2. d.ty \in MemoryType
    BY <2>1 DEF UefiMemoryDescriptor
  <2>3. region_kind(d) \in MemoryRegionKind
    BY <2>2 DEF region_kind, kind, MemoryRegionKind, MemoryType
  <2> QED
    BY <2>3, <1>1 DEF region, MemoryRegion
<1>4. /\ used_region(d) \in MemoryRegion /\ used_region(d).kind # "Usable"
      /\ kernel_region \in MemoryRegion /\ kernel_region.kind # "Usable"
  BY <1>1 DEF used_region, kernel_region, MemoryRegion, MemoryRegionKind
<1> HIDE DEF r
<1>5. /\ before_kernel(r) \in MemoryRegion /\ before_kernel(r).end = kernel_slice_start
      /\ after_kernel(r) \in MemoryRegion /\ after_kernel(r).end = r.end
  BY <1>1, <1>3 DEF before_kernel, after_kernel, MemoryRegion
<1>6. rs0 \in Seq(MemoryRegion) /\ Aligned(rs0)
  BY <1>4, AddAligned DEF add_used
<1> HIDE DEF rs0, d
<1>7. CASE ~overlaps_kernel(r)
  <2>1. add_descriptor(regions, d) = add_region(rs0, r)
    BY <1>7 DEF add_descriptor, add_rest, rs0, r
  <2> QED
    BY <2>1, <1>2, <1>3, <1>6, AddAligned DEF d
<1>8. CASE overlaps_kernel(r)
  <2> DEFINE rs1 == add_region(rs0, before_kernel(r))
             rs2 == add_region(rs1, kernel_region)
             rs3 == add_region(rs2, after_kernel(r))
  <2>1. add_descriptor(regions, d) = rs3
    BY <1>8 DEF add_descriptor, add_rest, rs0, r
  <2>2. rs1 \in Seq(MemoryRegion) /\ Aligned(rs1)
    BY <1>1, <1>5, <1>6, AddAligned
  <2> HIDE DEF rs1
  <2>3. rs2 \in Seq(MemoryRegion) /\ Aligned(rs2)
    BY <1>4, <2>2, AddAligned
  <2> HIDE DEF rs2
  <2>4. Aligned(rs3)
    BY <1>2, <1>3, <1>5, <2>3, AddAligned
  <2> QED
    BY <2>1, <2>4 DEF d
<1> QED
  BY <1>7, <1>8

-----------------------------------------------------------------------------

\* Before the loop nothing has been reported.
LEMMA StartIInv ==
  ASSUME InputOK, regions = <<>>, descriptor = 1, pc = "loop"
  PROVE  IInv
<1>1. Len(original) \in Nat
  BY DEF InputOK, WellFormedMap
<1>2. Good(regions, Frontier)
  BY AddressesAreNat DEF Good, ExactBelow, Frontier
<1>3. EntriesUsed /\ Aligned(regions)
  BY DEF EntriesUsed, Aligned
<1> QED
  BY <1>1, <1>2, <1>3 DEF IInv

LEMMA InitIInv == Init => IInv
BY InputsWellFormed, StartIInv DEF Init, InputOK

LEMMA NextIInv == IInv /\ [Next]_vars => IInv'
<1> SUFFICES ASSUME IInv, [Next]_vars PROVE IInv'
  OBVIOUS
<1>0. InputOK /\ Len(original) \in Nat /\ regions \in Seq(MemoryRegion)
  BY DEF IInv, InputOK, WellFormedMap, Good
<1>1. CASE Iterate
  <2> DEFINE d == original[descriptor]
             written == add_descriptor(regions, d)
  <2>1. /\ descriptor \in 1 .. Len(original)
        /\ Good(regions, Frontier) /\ EntriesUsed
    BY <1>1, <1>0 DEF Iterate, IInv
  <2>2. asserts_hold(d)
    BY <2>1, <1>0, OverlapIsHolder DEF asserts_hold
  <2>3. /\ Len(written) <= capacity(original)
        /\ Len(written) <= descriptor
             + (IF \E k \in 1 .. descriptor : IsSplit(original[k]) THEN 1 ELSE 0)
             + (IF \E k \in 1 .. descriptor : overlaps_kernel(region(original[k])) THEN 2 ELSE 0)
    BY <2>1, <1>0, EntriesStep
  <2>4. Good(written, start(d) + len(d))
    BY <2>1, <1>0, DescriptorGood
  <2>5. /\ regions' = written /\ descriptor' = descriptor + 1 /\ pc' = "loop"
        /\ UNCHANGED inputVars
    BY <1>1, <2>2, <2>3 DEF Iterate
  <2>6. InputOK' /\ descriptor' \in 1 .. Len(original') + 1
    BY <2>1, <2>5, <1>0 DEF InputOK, inputVars
  <2>7. Frontier' = start(d) + len(d)
    BY <2>1, <2>5 DEF Frontier, inputVars
  <2>8. Good(regions, Frontier)'
    BY <2>4, <2>5, <2>7 DEF Good, ExactBelow, TrueKind, next_free, kernel_slice_end, inputVars
  <2>9. EntriesUsed'
    <3>1. descriptor' - 1 = descriptor
      BY <2>1, <2>5
    <3> QED
      BY <3>1, <2>3, <2>5 DEF EntriesUsed, IsSplit, overlaps_kernel, region, region_kind,
                               next_free, kernel_slice_end, inputVars
  <2>10. Aligned(regions)'
    BY <2>1, <2>5, <1>0, AlignedStep DEF IInv, Aligned
  <2> QED
    BY <2>5, <2>6, <2>8, <2>9, <2>10 DEF IInv
<1>2. CASE Return
  <2>1. /\ UNCHANGED <<inputVars, regions, descriptor>> /\ pc' = "done"
        /\ descriptor' = Len(original') + 1
    BY <1>2, <1>0 DEF Return, IInv, inputVars
  <2>2. InputOK' /\ EntriesUsed' /\ Aligned(regions)'
    BY <2>1 DEF IInv, InputOK, EntriesUsed, IsSplit, Aligned,
      overlaps_kernel, region, region_kind, next_free, kernel_slice_end, inputVars
  <2>3. Good(regions, Frontier)'
    BY <2>1 DEF IInv, Good, ExactBelow, TrueKind, Frontier, next_free, kernel_slice_end, inputVars
  <2> QED
    BY <2>1, <2>2, <2>3 DEF IInv, inputVars
<1>3. CASE UNCHANGED vars
  BY <1>3 DEF vars, IInv, Aligned, InputOK, Good, ExactBelow, TrueKind, Frontier, EntriesUsed, IsSplit,
      overlaps_kernel, region, region_kind, next_free, kernel_slice_end, inputVars
<1> QED
  BY <1>1, <1>2, <1>3 DEF Next, construct_memory_map

(***************************************************************************)
(* In the finished report, Usable regions cover exactly the addresses that *)
(* are truly usable.                                                       *)
(***************************************************************************)
LEMMA ReportedUsable ==
  ASSUME IInv, pc = "done", NEW a \in Addresses
  PROVE  (\E j \in 1 .. Len(regions) :
            Within(a, regions[j].start, regions[j].end) /\ regions[j].kind = "Usable")
           <=> Truth(a, "Usable")
<1>0. InputOK /\ Len(original) \in Nat /\ descriptor = Len(original) + 1 /\ a \in Nat
  BY AddressesAreNat DEF IInv, InputOK, WellFormedMap
<1>1. Good(regions, Frontier)
  BY DEF IInv
<1>2. ASSUME NEW k \in 1 .. Len(original), InDescriptor(a, original[k])
      PROVE  a < Frontier
  <2> DEFINE n == Len(original)
  <2>1. n \in 1 .. n /\ Frontier = start(original[n]) + len(original[n])
    BY <1>0 DEF Frontier
  <2>2. /\ start(original[k]) \in Nat /\ len(original[k]) \in Nat
        /\ start(original[n]) \in Nat /\ len(original[n]) \in Nat
    BY <1>0, <2>1, Bounds
  <2>3. k < n => start(original[k]) + len(original[k]) <= start(original[n])
    BY <1>0, <2>1, Ordered
  <2>4. k < n \/ k = n
    BY <1>0
  <2> QED
    BY <1>0, <1>2, <2>1, <2>2, <2>3, <2>4 DEF InDescriptor, Within
<1>3. ASSUME NEW j \in 1 .. Len(regions), Within(a, regions[j].start, regions[j].end)
      PROVE  a < Frontier
  <2>1. regions[j].end <= Frontier /\ regions[j] \in MemoryRegion
    BY <1>1 DEF Good
  <2>2. Frontier \in Nat
    <3>1. CASE Len(original) = 0
      BY <3>1, <1>0 DEF Frontier
    <3>2. CASE Len(original) # 0
      BY <3>2, <1>0, Bounds DEF Frontier
    <3> QED
      BY <3>1, <3>2
  <2> QED
    BY <1>0, <1>3, <2>1, <2>2 DEF Within, MemoryRegion
<1>4. CASE a < Frontier
  BY <1>1, <1>4 DEF Good, ExactBelow, Truth, MemoryRegionKind
<1>5. CASE ~(a < Frontier)
  BY <1>2, <1>3, <1>5 DEF Truth
<1> QED
  BY <1>4, <1>5

(***************************************************************************)
(* The variables of construct_memory_map keep their types.                 *)
(***************************************************************************)
THEOREM TypeCorrect == Spec => []TypeOK
<1>1. IInv => TypeOK
  BY DEF IInv, InputOK, Good, TypeOK
<1> QED
  BY <1>1, InitIInv, NextIInv, PTL DEF Spec

(***************************************************************************)
(* construct_memory_map never panics: Len(original) + 4 entries suffice    *)
(* for every memory map (initium.rs:311), and the kernel image never       *)
(* sticks out of the region it overlaps.                                   *)
(***************************************************************************)
THEOREM NoPanic == Spec => []NeverPanics
<1>1. IInv => NeverPanics
  BY DEF IInv, NeverPanics
<1> QED
  BY <1>1, InitIInv, NextIInv, PTL DEF Spec

(***************************************************************************)
(* The report is exact at every address: memory the loader has handed out  *)
(* and the kernel image are never Usable, and all other memory that        *)
(* outlives boot services is.                                              *)
(***************************************************************************)
THEOREM ReportCorrect == Spec => []ReportIsExact
<1>1. IInv => ReportIsExact
  BY DEF IInv, Good, ReportIsExact, RegionsAscend
<1> QED
  BY <1>1, InitIInv, NextIInv, PTL DEF Spec
=============================================================================
