------------------------ MODULE VirtualLayoutProofs ------------------------
(***************************************************************************)
(* Proofs about the layout of the kernel's address space, for any number   *)
(* of level-4 entries, any kernel and any sizes: what initium places never *)
(* overlaps, and no entry is reserved in vain.                             *)
(***************************************************************************)
EXTENDS VirtualLayout, WellFoundedInduction, TLAPS

\* entry_state knows of everything that has been placed.
AllMarked ==
  /\ entry_state[0]
  /\ \A t \in Things : \A i \in placed[t] : entry_state[i]

IInv == TypeOK /\ PlacesDisjoint /\ AllMarked

-----------------------------------------------------------------------------
(***************************************************************************)
(* A non-empty set of natural numbers has a least element.                 *)
(***************************************************************************)
LEMMA LeastNatural ==
  ASSUME NEW T, T \subseteq Nat, T # {}
  PROVE  \E x \in T : \A y \in T : x <= y
<1>1. \E x \in T : \A y \in T : ~(<<y, x>> \in OpToRel(<, Nat))
  BY NatLessThanWellFounded, WFMin
<1>2. PICK x \in T : \A y \in T : ~(<<y, x>> \in OpToRel(<, Nat))
  BY <1>1
<1>3. \A y \in T : ~(y < x)
  BY <1>2 DEF OpToRel
<1> QED
  BY <1>3

(***************************************************************************)
(* get_free_entries returns the start of a window of unused entries.       *)
(***************************************************************************)
LEMMA WindowIsFree ==
  ASSUME NEW st, NEW n \in Nat, has_free_entries(st, n)
  PROVE  LET idx == get_free_entries(st, n)
         IN  n > 0 /\ idx \in EntryIndex /\ is_free(st, idx, n)
<1> DEFINE W == {i \in EntryIndex : is_free(st, i, n)}
<1>1. W # {} /\ W \subseteq Nat
  BY EntriesAssumption DEF has_free_entries, EntryIndex
<1>2. \E idx \in W : \A i \in W : idx <= i
  BY <1>1, LeastNatural
<1>3. \E idx \in EntryIndex : /\ is_free(st, idx, n)
                              /\ \A i \in EntryIndex : is_free(st, i, n) => idx <= i
  BY <1>2
<1>4. /\ get_free_entries(st, n) \in EntryIndex
      /\ is_free(st, get_free_entries(st, n), n)
  BY <1>3 DEF get_free_entries
<1> QED
  BY <1>4 DEF has_free_entries

(***************************************************************************)
(* Bytes from the start of an entry lie in the entries counted for them.   *)
(***************************************************************************)
LEMMA RoomForBytes ==
  ASSUME NEW idx \in Nat, NEW size \in Nat, NEW lo \in Nat, NEW bytes \in Nat \ {0},
         lo + bytes <= size
  PROVE  /\ level_4_entries(size) \in Nat
         /\ entries_of(idx * LEVEL_4_SIZE + lo, bytes) \subseteq idx .. idx + level_4_entries(size) - 1
<1> DEFINE L == LEVEL_4_SIZE
           n == level_4_entries(size)
           first == (idx * L + lo) \div L
           last == (idx * L + lo + bytes - 1) \div L
<1>1. L \in Nat \ {0}
  BY EntriesAssumption
<1>2. n = (size + (L - 1)) \div L
  BY DEF level_4_entries
<1>3. entries_of(idx * L + lo, bytes) = first .. last
  BY DEF entries_of, p4_index
<1>4. \A D \in Nat \ {0} : \A i, a \in Nat : (i * D + a) \div D = i + (a \div D) /\ a \div D \in Nat
  OBVIOUS
<1>5. \A D \in Nat \ {0} : \A a, b \in Nat : a <= b => (a \div D) + 1 <= (b + D) \div D
  <2> SUFFICES ASSUME NEW D \in Nat \ {0}, NEW a \in Nat, NEW b \in Nat, a <= b
               PROVE  (a \div D) + 1 <= (b + D) \div D
    OBVIOUS
  <2>1. (b + D) \div D = b \div D + 1
    OBVIOUS
  <2>2. a \div D <= b \div D
    OBVIOUS
  <2>3. a \div D \in Nat /\ b \div D \in Nat
    OBVIOUS
  <2> QED
    BY <2>1, <2>2, <2>3
<1> HIDE DEF L
<1>6. first = idx + lo \div L /\ lo \div L \in Nat
  BY <1>1, <1>4
<1>7. last = idx + (lo + bytes - 1) \div L /\ (lo + bytes - 1) \div L \in Nat
  <2> DEFINE a == lo + bytes - 1
  <2>1. a \in Nat /\ idx * L + lo + bytes - 1 = idx * L + a
    BY <1>1
  <2>2. (idx * L + a) \div L = idx + (a \div L) /\ a \div L \in Nat
    BY <2>1, <1>1, <1>4
  <2> QED
    BY <2>1, <2>2
<1>8. (lo + bytes - 1) \div L + 1 <= n
  <2>1. /\ lo + bytes - 1 \in Nat /\ size - 1 \in Nat
        /\ lo + bytes - 1 <= size - 1
        /\ size + (L - 1) = (size - 1) + L
    BY <1>1
  <2> QED
    BY <2>1, <1>1, <1>2, <1>5
<1>9. n \in Nat
  <2>1. size + (L - 1) \in Nat
    BY <1>1
  <2> QED
    BY <2>1, <1>1, <1>2, <1>4
<1> HIDE DEF n, first, last
<1>10. first .. last \subseteq idx .. idx + n - 1
  BY <1>6, <1>7, <1>8, <1>9
<1> QED
  BY <1>3, <1>9, <1>10 DEF n, L

-----------------------------------------------------------------------------
(***************************************************************************)
(* Placing something in entries that were unused, and marking them.        *)
(***************************************************************************)
LEMMA PlaceStep ==
  ASSUME IInv, NEW t \in Things, NEW E \in SUBSET EntryIndex,
         \A i \in E : ~entry_state[i],
         entry_state' \in EntryState,
         \A i \in EntryIndex : entry_state[i] => entry_state'[i],
         \A i \in E : entry_state'[i],
         placed' = [placed EXCEPT ![t] = E],
         stage' \in Things \cup {"done", "panicked"}
  PROVE  IInv'
<1>1. 0 \in EntryIndex
  BY EntriesAssumption DEF EntryIndex
<1>2. /\ placed \in [Things -> SUBSET EntryIndex]
      /\ entry_state[0]
      /\ \A u \in Things : \A i \in placed[u] : i \in EntryIndex /\ entry_state[i]
  BY DEF IInv, TypeOK, AllMarked
<1>3. \A u \in Things : placed'[u] = IF u = t THEN E ELSE placed[u]
  BY <1>2
<1>4. TypeOK'
  BY <1>2 DEF TypeOK
<1>5. AllMarked'
  BY <1>1, <1>2, <1>3 DEF AllMarked
<1>6. PlacesDisjoint'
  <2>1. ASSUME NEW u \in Things PROVE 0 \notin placed'[u]
    BY <1>2, <1>3 DEF IInv, PlacesDisjoint
  <2>2. ASSUME NEW u \in Things, NEW v \in Things, u # v, NEW i,
               i \in placed'[u], i \in placed'[v]
        PROVE  FALSE
    <3>1. CASE u # t /\ v # t
      BY <3>1, <2>2, <1>3 DEF IInv, PlacesDisjoint
    <3>2. CASE u = t
      BY <3>2, <2>2, <1>2, <1>3
    <3>3. CASE v = t
      BY <3>3, <2>2, <1>2, <1>3
    <3> QED
      BY <3>1, <3>2, <3>3
  <2> QED
    BY <2>1, <2>2 DEF PlacesDisjoint
<1> QED
  BY <1>4, <1>5, <1>6 DEF IInv

(***************************************************************************)
(* mapping_addr keeps the invariant.                                       *)
(***************************************************************************)
LEMMA MappingStep ==
  ASSUME IInv, NEW t \in Things, NEW size \in Nat, NEW next \in Things \cup {"done"},
         mapping_addr(t, size, next)
  PROVE  IInv'
<1> DEFINE n == level_4_entries(size)
           idx == get_free_entries(entry_state, n)
<1>1. CASE has_free_entries(entry_state, n)
  <2>0. n \in Nat
    BY EntriesAssumption DEF level_4_entries
  <2>1. n > 0 /\ idx \in EntryIndex /\ is_free(entry_state, idx, n)
    BY <1>1, <2>0, WindowIsFree
  <2>2. size # 0
    <3>1. \A D \in Nat \ {0} : (D - 1) \div D = 0
      OBVIOUS
    <3> QED
      BY <3>1, <2>1, EntriesAssumption DEF level_4_entries
  <2>3. idx \in Nat
    BY <2>1 DEF EntryIndex
  <2> HIDE DEF idx
  <2> DEFINE E == entries_of(idx * LEVEL_4_SIZE, size)
  <2>4. E \subseteq idx .. idx + n - 1
    <3>1. entries_of(idx * LEVEL_4_SIZE + 0, size) \subseteq idx .. idx + n - 1
      BY <2>2, <2>3, RoomForBytes
    <3>2. idx * LEVEL_4_SIZE + 0 = idx * LEVEL_4_SIZE
      BY <2>3, EntriesAssumption
    <3> QED
      BY <3>1, <3>2
  <2>5. /\ idx .. idx + n - 1 \subseteq EntryIndex
        /\ \A i \in idx .. idx + n - 1 : ~entry_state[i]
    BY <2>0, <2>1, <2>3, EntriesAssumption DEF is_free, EntryIndex
  <2>6. /\ entry_state' = mark(entry_state, idx .. idx + n - 1)
        /\ placed' = [placed EXCEPT ![t] = E]
        /\ stage' = next
    BY <1>1 DEF mapping_addr, take, get_free_address, idx
  <2>7. entry_state \in EntryState
    BY DEF IInv, TypeOK
  <2> HIDE DEF E, n
  <2>8. /\ entry_state' \in EntryState
        /\ \A i \in EntryIndex : entry_state[i] => entry_state'[i]
        /\ \A i \in E : entry_state'[i]
    BY <2>4, <2>5, <2>6, <2>7 DEF mark, EntryState
  <2> QED
    BY <2>4, <2>5, <2>6, <2>8, PlaceStep
<1>2. CASE ~has_free_entries(entry_state, n)
  BY <1>2 DEF mapping_addr, IInv, TypeOK, PlacesDisjoint, AllMarked
<1> QED
  BY <1>1, <1>2

(***************************************************************************)
(* A position-independent kernel lies in the entries reserved for it.      *)
(***************************************************************************)
LEMMA SharedObjectStep ==
  ASSUME IInv, LoadSharedObject
  PROVE  IInv'
<1>1. PICK x \in SharedObjects :
       LET size == max_addr(x) - min_addr(x)
           off  == virtual_address_offset(x, get_free_address(entry_state, size))
       IN  IF has_free_entries(entry_state, level_4_entries(size))
             THEN /\ entry_state' = mark_segments(take(entry_state, size), x, off)
                  /\ placed' = [placed EXCEPT !["kernel"] = segment_entries(x, off)]
                  /\ stage' = "stack"
             ELSE stage' = "panicked" /\ UNCHANGED <<entry_state, placed>>
  BY DEF LoadSharedObject
<1> DEFINE lo == min_addr(x)
           hi == max_addr(x)
           size == hi - lo
           n == level_4_entries(size)
           idx == get_free_entries(entry_state, n)
           off == idx * LEVEL_4_SIZE - lo
<1>2. HasSegments(x)
  BY KernelsAssumption
<1>3. lo \in Nat /\ \A s \in x : lo <= s.virtual_addr
  <2>1. \E a \in {s.virtual_addr : s \in x} : \A u \in x : a <= u.virtual_addr
    BY <1>2 DEF HasSegments
  <2>2. /\ lo \in {s.virtual_addr : s \in x}
        /\ \A u \in x : lo <= u.virtual_addr
    BY <2>1 DEF min_addr
  <2> QED
    BY <2>2, <1>2 DEF HasSegments
<1>4. hi \in Nat /\ \A s \in x : s.virtual_addr + s.mem_size <= hi
  <2>1. \E a \in {s.virtual_addr + s.mem_size : s \in x} :
          \A u \in x : u.virtual_addr + u.mem_size <= a
    BY <1>2 DEF HasSegments
  <2>2. /\ hi \in {s.virtual_addr + s.mem_size : s \in x}
        /\ \A u \in x : u.virtual_addr + u.mem_size <= hi
    BY <2>1 DEF max_addr
  <2> QED
    BY <2>2, <1>2 DEF HasSegments
<1> HIDE DEF lo, hi
<1>5. size \in Nat
  <2>1. PICK s \in x : s.virtual_addr \in Nat /\ s.mem_size \in Nat
    BY <1>2 DEF HasSegments
  <2>2. lo <= s.virtual_addr /\ s.virtual_addr + s.mem_size <= hi
    BY <1>3, <1>4
  <2> QED
    BY <2>1, <2>2, <1>3, <1>4
<1>6. CASE has_free_entries(entry_state, n)
  <2>0. n \in Nat
    BY <1>5, EntriesAssumption DEF level_4_entries
  <2>1. n > 0 /\ idx \in EntryIndex /\ is_free(entry_state, idx, n)
    BY <1>6, <2>0, WindowIsFree
  <2>3. idx \in Nat
    BY <2>1 DEF EntryIndex
  <2> DEFINE E == segment_entries(x, off)
  <2>4. /\ entry_state' = mark(mark(entry_state, idx .. idx + n - 1), E)
        /\ placed' = [placed EXCEPT !["kernel"] = E]
        /\ stage' = "stack"
    BY <1>1, <1>6 DEF take, get_free_address, virtual_address_offset, mark_segments, lo, hi
  <2> HIDE DEF idx, size, n
  <2>5. E \subseteq idx .. idx + n - 1
    <3> SUFFICES ASSUME NEW s \in x, s.mem_size > 0
                 PROVE  entries_of(off + s.virtual_addr, s.mem_size) \subseteq idx .. idx + n - 1
      BY DEF segment_entries
    <3>1. /\ s.virtual_addr \in Nat /\ s.mem_size \in Nat \ {0}
          /\ lo <= s.virtual_addr /\ s.virtual_addr + s.mem_size <= hi
      BY <1>2, <1>3, <1>4 DEF HasSegments
    <3>2. /\ s.virtual_addr - lo \in Nat
          /\ (s.virtual_addr - lo) + s.mem_size <= size
      BY <3>1, <1>3, <1>4 DEF size
    <3>3. entries_of(idx * LEVEL_4_SIZE + (s.virtual_addr - lo), s.mem_size)
            \subseteq idx .. idx + n - 1
      BY <3>1, <3>2, <2>3, <1>5, RoomForBytes DEF n
    <3>4. off + s.virtual_addr = idx * LEVEL_4_SIZE + (s.virtual_addr - lo)
      BY <3>1, <2>3, <1>3, EntriesAssumption
    <3> QED
      BY <3>3, <3>4
  <2>6. /\ idx .. idx + n - 1 \subseteq EntryIndex
        /\ \A i \in idx .. idx + n - 1 : ~entry_state[i]
    BY <2>0, <2>1, <2>3, EntriesAssumption DEF is_free, EntryIndex
  <2>7. entry_state \in EntryState
    BY DEF IInv, TypeOK
  <2> HIDE DEF E
  <2>8. /\ entry_state' \in EntryState
        /\ \A i \in EntryIndex : entry_state[i] => entry_state'[i]
        /\ \A i \in E : entry_state'[i]
    BY <2>4, <2>5, <2>6, <2>7 DEF mark, EntryState
  <2>9. "kernel" \in Things /\ "stack" \in Things
    BY DEF Things
  <2> QED
    BY <2>4, <2>5, <2>6, <2>8, <2>9, PlaceStep
<1>7. CASE ~has_free_entries(entry_state, n)
  BY <1>1, <1>7 DEF IInv, TypeOK, PlacesDisjoint, AllMarked, lo, hi
<1> QED
  BY <1>6, <1>7

LEMMA ExecutableStep ==
  ASSUME IInv, LoadExecutable, placed = [t \in Things |-> {}], entry_state = new_entries
  PROVE  IInv'
<1>1. PICK x \in Executables : /\ entry_state' = mark(entry_state, segment_entries(x, 0))
                               /\ placed' = [placed EXCEPT !["kernel"] = segment_entries(x, 0)]
  BY DEF LoadExecutable, mark_segments
<1> DEFINE E == segment_entries(x, 0)
<1>2. E \subseteq EntryIndex \ {0}
  BY KernelsAssumption
<1>3. \A i \in E : ~entry_state[i]
  BY <1>2 DEF new_entries
<1>4. entry_state \in EntryState
  BY DEF IInv, TypeOK
<1> HIDE DEF E
<1>5. /\ entry_state' \in EntryState
      /\ \A i \in EntryIndex : entry_state[i] => entry_state'[i]
      /\ \A i \in E : entry_state'[i]
  BY <1>1, <1>2, <1>4 DEF mark, EntryState, E
<1>6. "kernel" \in Things /\ stage' \in Things
  BY DEF Things, LoadExecutable
<1> QED
  BY <1>1, <1>2, <1>3, <1>5, <1>6, PlaceStep DEF E

-----------------------------------------------------------------------------

\* Nothing is placed before the kernel.
KernelFirst ==
  stage = "kernel" => entry_state = new_entries /\ placed = [t \in Things |-> {}]

LEMMA InitIInv == Init => IInv /\ KernelFirst
<1> SUFFICES ASSUME Init PROVE IInv /\ KernelFirst
  OBVIOUS
<1>1. 0 \in EntryIndex
  BY EntriesAssumption DEF EntryIndex
<1>2. TypeOK
  BY DEF Init, TypeOK, new_entries, EntryState, Things
<1>3. \A t \in Things : placed[t] = {}
  BY DEF Init
<1>4. PlacesDisjoint
  BY <1>3 DEF PlacesDisjoint
<1>5. AllMarked
  BY <1>1, <1>3 DEF Init, AllMarked, new_entries
<1> QED
  BY <1>2, <1>4, <1>5 DEF IInv, Init, KernelFirst

LEMMA NextIInv == IInv /\ KernelFirst /\ [Next]_vars => (IInv /\ KernelFirst)'
<1> SUFFICES ASSUME IInv, KernelFirst, [Next]_vars PROVE IInv' /\ KernelFirst'
  OBVIOUS
<1>0. /\ \A size \in Sizes : size \in Nat
      /\ \A size \in Sizes \cup {0} : size \in Nat
      /\ Things = {"kernel", "stack", "framebuffer", "ramdisk", "physical_memory", "boot_info"}
  BY SizesAssumption DEF Things
<1>1. CASE LoadExecutable
  <2>1. IInv'
    BY <1>1, ExecutableStep DEF LoadExecutable, KernelFirst
  <2>2. KernelFirst'
    BY <1>1 DEF LoadExecutable, KernelFirst
  <2> QED
    BY <2>1, <2>2
<1>2. CASE LoadSharedObject
  <2>1. stage' # "kernel"
    BY <1>2 DEF LoadSharedObject
  <2> QED
    BY <2>1, <1>2, SharedObjectStep DEF KernelFirst
<1>3. CASE MapStack
  <2>1. PICK size \in Nat : mapping_addr("stack", size, "framebuffer")
    BY <1>3, <1>0 DEF MapStack
  <2>2. stage' # "kernel"
    BY <2>1 DEF mapping_addr
  <2> QED
    BY <2>1, <2>2, <1>0, MappingStep DEF KernelFirst
<1>4. CASE MapFramebuffer
  <2>1. PICK size \in Nat : mapping_addr("framebuffer", size, "ramdisk")
    BY <1>4, <1>0 DEF MapFramebuffer
  <2>2. stage' # "kernel"
    BY <2>1 DEF mapping_addr
  <2> QED
    BY <2>1, <2>2, <1>0, MappingStep DEF KernelFirst
<1>5. CASE NoFramebuffer
  BY <1>5, <1>0 DEF NoFramebuffer, IInv, TypeOK, PlacesDisjoint, AllMarked, KernelFirst
<1>6. CASE MapRamdisk
  <2>1. PICK size \in Nat : mapping_addr("ramdisk", size, "physical_memory")
    BY <1>6, <1>0 DEF MapRamdisk
  <2>2. stage' # "kernel"
    BY <2>1 DEF mapping_addr
  <2> QED
    BY <2>1, <2>2, <1>0, MappingStep DEF KernelFirst
<1>7. CASE NoRamdisk
  BY <1>7, <1>0 DEF NoRamdisk, IInv, TypeOK, PlacesDisjoint, AllMarked, KernelFirst
<1>8. CASE MapPhysicalMemory
  <2>1. PICK size \in Nat : mapping_addr("physical_memory", size, "boot_info")
    BY <1>8, <1>0 DEF MapPhysicalMemory
  <2>2. stage' # "kernel"
    BY <2>1 DEF mapping_addr
  <2> QED
    BY <2>1, <2>2, <1>0, MappingStep DEF KernelFirst
<1>9. CASE MapBootInfo
  <2>1. PICK size \in Nat : mapping_addr("boot_info", size, "done")
    BY <1>9, <1>0 DEF MapBootInfo
  <2>2. stage' # "kernel"
    BY <2>1 DEF mapping_addr
  <2> QED
    BY <2>1, <2>2, <1>0, MappingStep DEF KernelFirst
<1>10. CASE UNCHANGED vars
  BY <1>10 DEF vars, IInv, TypeOK, PlacesDisjoint, AllMarked, KernelFirst
<1> QED
  BY <1>1, <1>2, <1>3, <1>4, <1>5, <1>6, <1>7, <1>8, <1>9, <1>10 DEF Next

(***************************************************************************)
(* The layout's variables keep their types: every entry placed exists.     *)
(***************************************************************************)
THEOREM TypeCorrect == Spec => []TypeOK
<1>1. IInv => TypeOK
  BY DEF IInv
<1> QED
  BY <1>1, InitIInv, NextIInv, PTL DEF Spec

(***************************************************************************)
(* Whatever the kernel and the sizes, no two things initium places share a *)
(* level-4 entry: map_to never meets a page of another mapping.            *)
(***************************************************************************)
THEOREM LayoutDisjoint == Spec => []PlacesDisjoint
<1>1. IInv => PlacesDisjoint
  BY DEF IInv
<1> QED
  BY <1>1, InitIInv, NextIInv, PTL DEF Spec
-----------------------------------------------------------------------------
\* What is placed when a stage begins.
PlacedBefore ==
  [kernel |-> {}, stack |-> {"kernel"}, framebuffer |-> {"kernel", "stack"},
   ramdisk |-> {"kernel", "stack", "framebuffer"},
   physical_memory |-> {"kernel", "stack", "framebuffer", "ramdisk"},
   boot_info |-> {"kernel", "stack", "framebuffer", "ramdisk", "physical_memory"}]

InOrder == stage \in Things => \A t \in Things \ PlacedBefore[stage] : placed[t] = {}

\* Everything placed for the first time, with nothing reserved besides.
LEMMA NoWasteStep ==
  ASSUME IInv, EveryEntryUsed, NEW t \in Things, NEW E \in SUBSET EntryIndex, placed[t] = {},
         placed' = [placed EXCEPT ![t] = E],
         \A i \in EntryIndex : entry_state'[i] =>
           entry_state[i] \/ i \in E \/ (t = "kernel" /\ \E j, k \in E : j <= i /\ i <= k)
  PROVE  EveryEntryUsed'
<1>1. \A u \in Things : placed'[u] = IF u = t THEN E ELSE placed[u]
  BY DEF IInv, TypeOK
<1>2. "kernel" \in Things
  BY DEF Things
<1>3. ASSUME NEW i \in EntryIndex, entry_state[i]
      PROVE  i = 0 \/ (\E u \in Things : i \in placed'[u]) \/ i \in KernelSpan'
  <2>1. CASE \E u \in Things : i \in placed[u]
    BY <1>1, <2>1
  <2>2. CASE i \in KernelSpan
    <3>1. t # "kernel"
      BY <2>2 DEF KernelSpan
    <3>2. placed'["kernel"] = placed["kernel"]
      BY <1>1, <1>2, <3>1
    <3> QED
      BY <2>2, <3>2 DEF KernelSpan
  <2> QED
    BY <1>3, <2>1, <2>2 DEF EveryEntryUsed
<1>4. ASSUME NEW i \in EntryIndex, t = "kernel", \E j, k \in E : j <= i /\ i <= k
      PROVE  i \in KernelSpan'
  BY <1>1, <1>4 DEF KernelSpan
<1> QED
  BY <1>1, <1>3, <1>4 DEF EveryEntryUsed

\* The first and the last entry of size bytes from the start of an entry.
LEMMA EndEntries ==
  ASSUME NEW idx \in Nat, NEW size \in Nat \ {0}
  PROVE  /\ p4_index(idx * LEVEL_4_SIZE) = idx
         /\ p4_index(idx * LEVEL_4_SIZE + size - 1) = idx + level_4_entries(size) - 1
         /\ level_4_entries(size) \in Nat
<1> DEFINE L == LEVEL_4_SIZE
           b == size - 1
<1>1. L \in Nat \ {0} /\ b \in Nat /\ size + (L - 1) = b + L /\ idx * L + size - 1 = idx * L + b
  <2>1. L \in Nat \ {0}
    BY EntriesAssumption
  <2> HIDE DEF L
  <2>2. idx * L \in Int
    BY <2>1
  <2> QED
    BY <2>1, <2>2
<1>2. \A D \in Nat \ {0} : \A i, a \in Nat :
        (i * D + a) \div D = i + (a \div D) /\ a \div D \in Nat /\ (i * D) \div D = i
        /\ (a + D) \div D = (a \div D) + 1
  OBVIOUS
<1> HIDE DEF L, b
<1>3. /\ (idx * L + b) \div L = idx + (b \div L) /\ b \div L \in Nat /\ (idx * L) \div L = idx
      /\ (b + L) \div L = (b \div L) + 1
  BY <1>1, <1>2
<1>4. level_4_entries(size) = (b \div L) + 1
  BY <1>1, <1>3 DEF level_4_entries, L
<1>5. p4_index(idx * L + size - 1) = idx + (b \div L)
  BY <1>1, <1>3 DEF p4_index, L
<1>6. idx + (b \div L) = idx + ((b \div L) + 1) - 1 /\ (b \div L) + 1 \in Nat
  BY <1>3
<1> QED
  BY <1>3, <1>4, <1>5, <1>6 DEF p4_index, L

LEMMA MappingNoWaste ==
  ASSUME IInv, EveryEntryUsed, NEW t \in Things, placed[t] = {}, NEW size \in Nat, NEW next,
         mapping_addr(t, size, next)
  PROVE  EveryEntryUsed'
<1> DEFINE n == level_4_entries(size)
           idx == get_free_entries(entry_state, n)
<1>1. CASE has_free_entries(entry_state, n)
  <2>0. n \in Nat
    BY EntriesAssumption DEF level_4_entries
  <2>1. n > 0 /\ idx \in EntryIndex /\ is_free(entry_state, idx, n)
    BY <1>1, <2>0, WindowIsFree
  <2>2. size # 0
    <3>1. \A D \in Nat \ {0} : (D - 1) \div D = 0
      OBVIOUS
    <3> QED
      BY <3>1, <2>1, EntriesAssumption DEF level_4_entries
  <2>3. idx \in Nat
    BY <2>1 DEF EntryIndex
  <2> HIDE DEF idx
  <2> DEFINE E == entries_of(idx * LEVEL_4_SIZE, size)
  <2>4. E = idx .. idx + n - 1
    BY <2>2, <2>3, EndEntries DEF entries_of
  <2>5. idx .. idx + n - 1 \subseteq EntryIndex
    BY <2>0, <2>1, <2>3, EntriesAssumption DEF is_free, EntryIndex
  <2>6. /\ entry_state' = mark(entry_state, idx .. idx + n - 1)
        /\ placed' = [placed EXCEPT ![t] = E]
    BY <1>1 DEF mapping_addr, take, get_free_address, idx
  <2> HIDE DEF E, n
  <2>7. \A i \in EntryIndex : entry_state'[i] => entry_state[i] \/ i \in E
    BY <2>4, <2>6 DEF mark
  <2> QED
    BY <2>4, <2>5, <2>6, <2>7, NoWasteStep
<1>2. CASE ~has_free_entries(entry_state, n)
  BY <1>2 DEF mapping_addr, EveryEntryUsed, KernelSpan
<1> QED
  BY <1>1, <1>2

LEMMA ExecutableNoWaste ==
  ASSUME IInv, EveryEntryUsed, placed["kernel"] = {}, LoadExecutable
  PROVE  EveryEntryUsed'
<1>1. PICK x \in Executables : /\ entry_state' = mark(entry_state, segment_entries(x, 0))
                               /\ placed' = [placed EXCEPT !["kernel"] = segment_entries(x, 0)]
  BY DEF LoadExecutable, mark_segments
<1> DEFINE E == segment_entries(x, 0)
<1>2. E \subseteq EntryIndex /\ "kernel" \in Things
  BY KernelsAssumption DEF Things
<1> HIDE DEF E
<1>3. \A i \in EntryIndex : entry_state'[i] => entry_state[i] \/ i \in E
  BY <1>1 DEF mark, E
<1> QED
  BY <1>1, <1>2, <1>3, NoWasteStep DEF E

LEMMA SharedObjectNoWaste ==
  ASSUME IInv, IInv', EveryEntryUsed, placed["kernel"] = {}, EndsNotEmpty, LoadSharedObject
  PROVE  EveryEntryUsed'
<1>1. PICK x \in SharedObjects :
       LET size == max_addr(x) - min_addr(x)
           off  == virtual_address_offset(x, get_free_address(entry_state, size))
       IN  IF has_free_entries(entry_state, level_4_entries(size))
             THEN /\ entry_state' = mark_segments(take(entry_state, size), x, off)
                  /\ placed' = [placed EXCEPT !["kernel"] = segment_entries(x, off)]
                  /\ stage' = "stack"
             ELSE stage' = "panicked" /\ UNCHANGED <<entry_state, placed>>
  BY DEF LoadSharedObject
<1> DEFINE lo == min_addr(x)
           hi == max_addr(x)
           size == hi - lo
           n == level_4_entries(size)
           idx == get_free_entries(entry_state, n)
           off == idx * LEVEL_4_SIZE - lo
           E == segment_entries(x, off)
<1>2. PICK s \in x : s.mem_size > 0 /\ s.virtual_addr = lo
  BY DEF EndsNotEmpty
<1>3. PICK r \in x : r.mem_size > 0 /\ r.virtual_addr + r.mem_size = hi
  BY DEF EndsNotEmpty
<1>4. /\ \A u \in x : u.virtual_addr \in Nat /\ u.mem_size \in Nat
      /\ lo \in Nat /\ lo <= r.virtual_addr
  <2>1. HasSegments(x)
    BY KernelsAssumption
  <2>2. \E a \in {u.virtual_addr : u \in x} : \A u \in x : a <= u.virtual_addr
    BY <2>1 DEF HasSegments
  <2>3. \A u \in x : lo <= u.virtual_addr
    BY <2>2 DEF min_addr
  <2> HIDE DEF lo
  <2> QED
    BY <1>2, <2>1, <2>3 DEF HasSegments
<1> HIDE DEF lo, hi
<1>5. size \in Nat \ {0}
  BY <1>3, <1>4
<1>6. CASE has_free_entries(entry_state, n)
  <2>0. n \in Nat
    BY <1>5, EntriesAssumption DEF level_4_entries
  <2>1. idx \in EntryIndex
    BY <1>6, <2>0, WindowIsFree
  <2>2. idx \in Nat /\ LEVEL_4_SIZE \in Nat
    BY <2>1, EntriesAssumption DEF EntryIndex
  <2>3. /\ entry_state' = mark(mark(entry_state, idx .. idx + n - 1), E)
        /\ placed' = [placed EXCEPT !["kernel"] = E]
    BY <1>1, <1>6 DEF take, get_free_address, virtual_address_offset, mark_segments, lo, hi
  <2> HIDE DEF idx, n, size
  <2>4. p4_index(idx * LEVEL_4_SIZE) = idx /\ p4_index(idx * LEVEL_4_SIZE + size - 1) = idx + n - 1
    BY <1>5, <2>2, EndEntries DEF n
  <2>5. off + s.virtual_addr = idx * LEVEL_4_SIZE /\ off + r.virtual_addr + r.mem_size - 1 = idx * LEVEL_4_SIZE + size - 1
    <3> DEFINE b == idx * LEVEL_4_SIZE
    <3>1. b \in Int
      BY <2>2
    <3> HIDE DEF b
    <3>2. (b - lo) + lo = b /\ (b - lo) + r.virtual_addr + r.mem_size - 1 = b + size - 1
      BY <1>3, <1>4, <3>1 DEF size
    <3> QED
      BY <1>2, <3>2 DEF b
  <2> HIDE DEF off
  <2>6. idx \in E /\ idx + n - 1 \in E
    <3>1. /\ entries_of(off + s.virtual_addr, s.mem_size) \subseteq E
          /\ entries_of(off + r.virtual_addr, r.mem_size) \subseteq E
      BY <1>2, <1>3 DEF segment_entries
    <3>2. \A a, c \in Int : c > 0 => p4_index(a) <= p4_index(a + c - 1) /\ p4_index(a) \in Int /\ p4_index(a + c - 1) \in Int
      <4>1. LEVEL_4_SIZE \in Nat \ {0}
        BY EntriesAssumption
      <4>2. \A D \in Nat \ {0} : \A a, c \in Int : a <= c => a \div D <= c \div D /\ a \div D \in Int /\ c \div D \in Int
        OBVIOUS
      <4>3. \A a, c \in Int : c > 0 => a <= a + c - 1 /\ a + c - 1 \in Int
        OBVIOUS
      <4> QED
        BY <4>1, <4>2, <4>3 DEF p4_index
    <3>3. off + s.virtual_addr \in Int /\ off + r.virtual_addr \in Int /\ off \in Int
      <4>1. off \in Int
        BY <1>4, <2>2 DEF off
      <4> QED
        BY <1>4, <4>1
    <3>4. \A a, c \in Int : c > 0 =>
            p4_index(a) \in entries_of(a, c) /\ p4_index(a + c - 1) \in entries_of(a, c)
      <4> SUFFICES ASSUME NEW a \in Int, NEW c \in Int, c > 0
                   PROVE  p4_index(a) \in entries_of(a, c) /\ p4_index(a + c - 1) \in entries_of(a, c)
        OBVIOUS
      <4> DEFINE first == p4_index(a)
                 last  == p4_index(a + c - 1)
      <4>1. first <= last /\ first \in Int /\ last \in Int
        BY <3>2
      <4> HIDE DEF first, last
      <4>2. first \in first .. last /\ last \in first .. last
        BY <4>1
      <4> QED
        BY <4>2 DEF first, last, entries_of
    <3>5. /\ p4_index(off + s.virtual_addr) \in entries_of(off + s.virtual_addr, s.mem_size)
          /\ p4_index(off + r.virtual_addr + r.mem_size - 1) \in entries_of(off + r.virtual_addr, r.mem_size)
      <4> DEFINE a == off + s.virtual_addr
                 b == off + r.virtual_addr
      <4>1. a \in Int /\ b \in Int /\ s.mem_size \in Int /\ r.mem_size \in Int /\ s.mem_size > 0 /\ r.mem_size > 0
        BY <1>2, <1>3, <1>4, <3>3
      <4> HIDE DEF a, b
      <4>2. p4_index(a) \in entries_of(a, s.mem_size) /\ p4_index(b + r.mem_size - 1) \in entries_of(b, r.mem_size)
        BY <3>4, <4>1
      <4> QED
        BY <4>2 DEF a, b
    <3> QED
      BY <2>4, <2>5, <3>1, <3>5
  <2>7. E \subseteq EntryIndex /\ "kernel" \in Things
    <3>1. "kernel" \in Things
      BY DEF Things
    <3>2. placed'["kernel"] = E
      BY <2>3, <3>1 DEF IInv, TypeOK
    <3> QED
      BY <3>1, <3>2 DEF IInv, TypeOK
  <2> HIDE DEF E
  <2>8. \A i \in EntryIndex : entry_state'[i] =>
          entry_state[i] \/ i \in E \/ \E j, k \in E : j <= i /\ i <= k
    <3> SUFFICES ASSUME NEW i \in EntryIndex, entry_state'[i], ~entry_state[i], i \notin E
                 PROVE  \E j, k \in E : j <= i /\ i <= k
      OBVIOUS
    <3>1. i \in idx .. idx + n - 1
      BY <2>3 DEF mark
    <3>2. idx <= i /\ i <= idx + n - 1
      BY <2>0, <2>2, <3>1
    <3> QED
      BY <2>6, <3>2
  <2> QED
    BY <2>3, <2>7, <2>8, NoWasteStep
<1>7. CASE ~has_free_entries(entry_state, n)
  BY <1>1, <1>7 DEF EveryEntryUsed, KernelSpan, lo, hi
<1> QED
  BY <1>6, <1>7

LEMMA InitOrder == Init => InOrder /\ EveryEntryUsed
<1> SUFFICES ASSUME Init PROVE InOrder /\ EveryEntryUsed
  OBVIOUS
<1>1. InOrder
  BY DEF Init, InOrder, Things
<1>2. \A i \in EntryIndex : entry_state[i] => i = 0
  BY DEF Init, new_entries
<1> QED
  BY <1>1, <1>2 DEF EveryEntryUsed

LEMMA NextOrder == IInv /\ InOrder /\ [Next]_vars => InOrder'
<1> SUFFICES ASSUME IInv, InOrder, [Next]_vars PROVE InOrder'
  OBVIOUS
<1>1. ASSUME NEW t \in Things, NEW next \in Things, stage = t,
             stage' \in {next, "panicked"}, PlacedBefore[next] = PlacedBefore[t] \cup {t},
             \A u \in Things : u # t => placed'[u] = placed[u]
      PROVE  InOrder'
  <2>1. "panicked" \notin Things
    BY DEF Things
  <2>2. \A u \in Things \ PlacedBefore[next] : placed'[u] = {}
    BY <1>1 DEF InOrder
  <2> QED
    BY <1>1, <2>1, <2>2 DEF InOrder
<1>2. ASSUME NEW t \in Things, NEW size, NEW next, mapping_addr(t, size, next)
      PROVE  stage' \in {next, "panicked"} /\ \A u \in Things : u # t => placed'[u] = placed[u]
  BY <1>2 DEF mapping_addr, IInv, TypeOK
<1>4. /\ PlacedBefore["stack"] = PlacedBefore["kernel"] \cup {"kernel"}
      /\ PlacedBefore["framebuffer"] = PlacedBefore["stack"] \cup {"stack"}
      /\ PlacedBefore["ramdisk"] = PlacedBefore["framebuffer"] \cup {"framebuffer"}
      /\ PlacedBefore["physical_memory"] = PlacedBefore["ramdisk"] \cup {"ramdisk"}
      /\ PlacedBefore["boot_info"] = PlacedBefore["physical_memory"] \cup {"physical_memory"}
  BY DEF PlacedBefore
<1>5. Things = {"kernel", "stack", "framebuffer", "ramdisk", "physical_memory", "boot_info"}
  BY DEF Things
<1>6. CASE LoadExecutable \/ LoadSharedObject
  <2>1. stage = "kernel" /\ stage' \in {"stack", "panicked"} /\ \A u \in Things : u # "kernel" => placed'[u] = placed[u]
    BY <1>6 DEF LoadExecutable, LoadSharedObject, IInv, TypeOK
  <2> QED
    BY <1>1, <1>4, <1>5, <2>1
<1>7. CASE MapStack
  BY <1>1, <1>2, <1>4, <1>5, <1>7 DEF MapStack
<1>8. CASE MapFramebuffer
  BY <1>1, <1>2, <1>4, <1>5, <1>8 DEF MapFramebuffer
<1>9. CASE NoFramebuffer
  BY <1>1, <1>4, <1>5, <1>9 DEF NoFramebuffer
<1>10. CASE MapRamdisk
  BY <1>1, <1>2, <1>4, <1>5, <1>10 DEF MapRamdisk
<1>11. CASE NoRamdisk
  BY <1>1, <1>4, <1>5, <1>11 DEF NoRamdisk
<1>12. CASE MapPhysicalMemory
  BY <1>1, <1>2, <1>4, <1>5, <1>12 DEF MapPhysicalMemory
<1>13. CASE MapBootInfo
  <2>1. stage' \in {"done", "panicked"}
    BY <1>2, <1>5, <1>13 DEF MapBootInfo
  <2> QED
    BY <1>5, <2>1 DEF InOrder
<1>14. CASE UNCHANGED vars
  BY <1>14 DEF vars, InOrder
<1> QED
  BY <1>6, <1>7, <1>8, <1>9, <1>10, <1>11, <1>12, <1>13, <1>14 DEF Next

LEMMA NextNoWaste ==
  IInv /\ IInv' /\ InOrder /\ (EndsNotEmpty => EveryEntryUsed) /\ [Next]_vars
    => (EndsNotEmpty => EveryEntryUsed')
<1> SUFFICES ASSUME IInv, IInv', InOrder, EndsNotEmpty, EveryEntryUsed, [Next]_vars PROVE EveryEntryUsed'
  OBVIOUS
<1>1. /\ \A size \in Sizes : size \in Nat
      /\ \A size \in Sizes \cup {0} : size \in Nat
      /\ Things = {"kernel", "stack", "framebuffer", "ramdisk", "physical_memory", "boot_info"}
  BY SizesAssumption DEF Things
<1>2. \A t \in Things : stage = t => placed[t] = {}
  BY DEF InOrder, Things, PlacedBefore
<1>3. CASE LoadExecutable
  BY <1>1, <1>2, <1>3, ExecutableNoWaste DEF LoadExecutable
<1>4. CASE LoadSharedObject
  BY <1>1, <1>2, <1>4, SharedObjectNoWaste DEF LoadSharedObject
<1>5. CASE MapStack
  BY <1>1, <1>2, <1>5, MappingNoWaste DEF MapStack
<1>6. CASE MapFramebuffer
  BY <1>1, <1>2, <1>6, MappingNoWaste DEF MapFramebuffer
<1>7. CASE MapRamdisk
  BY <1>1, <1>2, <1>7, MappingNoWaste DEF MapRamdisk
<1>8. CASE MapPhysicalMemory
  BY <1>1, <1>2, <1>8, MappingNoWaste DEF MapPhysicalMemory
<1>9. CASE MapBootInfo
  BY <1>1, <1>2, <1>9, MappingNoWaste DEF MapBootInfo
<1>10. CASE NoFramebuffer \/ NoRamdisk \/ UNCHANGED vars
  <2>1. UNCHANGED <<entry_state, placed>>
    BY <1>10 DEF NoFramebuffer, NoRamdisk, vars
  <2> QED
    BY <2>1 DEF EveryEntryUsed, KernelSpan
<1> QED
  BY <1>3, <1>4, <1>5, <1>6, <1>7, <1>8, <1>9, <1>10 DEF Next

(***************************************************************************)
(* Whatever the sizes, get_free_address reserves no entry in which nothing *)
(* is put: one marked as used is entry 0, holds something or lies within   *)
(* the kernel.  A shared object's first and last segment must not be empty,*)
(* as Loader::new makes room for empty segments and mark_segments does not *)
(* count them.                                                             *)
(***************************************************************************)
THEOREM NothingReservedInVain == Spec => []NoEntryWasted
<1>1. Init => IInv /\ KernelFirst /\ InOrder /\ NoEntryWasted
  BY InitIInv, InitOrder DEF NoEntryWasted
<1>2. IInv /\ KernelFirst /\ InOrder /\ NoEntryWasted /\ [Next]_vars
        => (IInv /\ KernelFirst /\ InOrder /\ NoEntryWasted)'
  BY NextIInv, NextOrder, NextNoWaste DEF EndsNotEmpty, NoEntryWasted
<1> QED
  BY <1>1, <1>2, PTL DEF Spec
=============================================================================
