--------------------- MODULE LegacyFrameAllocatorProofs ---------------------
(***************************************************************************)
(* Proofs about initium's frame allocator, for every set of well-formed    *)
(* memory maps: type correctness, the meaning of next_frame, and that      *)
(* allocate_frame implements the frame supply.                             *)
(***************************************************************************)
EXTENDS LegacyFrameAllocator, TLAPS

-----------------------------------------------------------------------------
(***************************************************************************)
(* A descriptor of a well-formed map has at least one frame, and its first *)
(* and last frame are those of its address range.                          *)
(***************************************************************************)
LEMMA FrameBounds ==
  ASSUME NEW m, WellFormedMap(m), NEW i \in 1 .. Len(m)
  PROVE  /\ m[i].phys_start \in Nat
         /\ m[i].page_count \in Nat
         /\ start_frame(m[i]) \in Nat
         /\ end_frame(m[i]) \in Nat
         /\ start(m[i]) = PAGE_SIZE * start_frame(m[i])
         /\ start(m[i]) + len(m[i]) = PAGE_SIZE * (end_frame(m[i]) + 1)
         /\ start_frame(m[i]) <= end_frame(m[i])
<1>1. m[i] \in UefiMemoryDescriptor
  BY DEF WellFormedMap
<1>2. m[i].phys_start \in Nat /\ m[i].page_count \in Nat
  BY <1>1 DEF UefiMemoryDescriptor
<1>3. m[i].phys_start % 4096 = 0 /\ m[i].page_count > 0
  BY DEF WellFormedMap, PAGE_SIZE
<1>4. \A s, c \in Nat : s % 4096 = 0 /\ c > 0
        => /\ s \div 4096 \in Nat
           /\ s = 4096 * (s \div 4096)
           /\ (s + c * 4096 - 1) \div 4096 \in Nat
           /\ s + c * 4096 = 4096 * ((s + c * 4096 - 1) \div 4096 + 1)
           /\ s \div 4096 <= (s + c * 4096 - 1) \div 4096
  OBVIOUS
<1> DEFINE s == m[i].phys_start
           c == m[i].page_count
<1>5. /\ start(m[i]) = s
      /\ len(m[i]) = c * 4096
      /\ start_frame(m[i]) = s \div 4096
      /\ end_frame(m[i]) = (s + c * 4096 - 1) \div 4096
  BY DEF start, len, start_frame, end_frame, containing_address, PAGE_SIZE
<1>6. s \in Nat /\ c \in Nat /\ s % 4096 = 0 /\ c > 0
  BY <1>2, <1>3
<1> HIDE DEF s, c
<1>7. /\ s \div 4096 \in Nat
      /\ s = 4096 * (s \div 4096)
      /\ (s + c * 4096 - 1) \div 4096 \in Nat
      /\ s + c * 4096 = 4096 * ((s + c * 4096 - 1) \div 4096 + 1)
      /\ s \div 4096 <= (s + c * 4096 - 1) \div 4096
  BY <1>4, <1>6
<1> QED
  BY <1>2, <1>5, <1>7 DEF PAGE_SIZE

(***************************************************************************)
(* The frames of a later descriptor all lie above those of an earlier one. *)
(***************************************************************************)
LEMMA FramesOrdered ==
  ASSUME NEW m, WellFormedMap(m), NEW i \in 1 .. Len(m), NEW j \in 1 .. Len(m), i < j
  PROVE  end_frame(m[i]) < start_frame(m[j])
<1>1. start(m[i]) + len(m[i]) <= start(m[j])
  BY DEF WellFormedMap
<1>2. /\ end_frame(m[i]) \in Nat
      /\ start_frame(m[j]) \in Nat
      /\ start(m[i]) + len(m[i]) = 4096 * (end_frame(m[i]) + 1)
      /\ start(m[j]) = 4096 * start_frame(m[j])
  BY FrameBounds DEF PAGE_SIZE
<1>3. 4096 * (end_frame(m[i]) + 1) <= 4096 * start_frame(m[j])
  BY <1>1, <1>2
<1> QED
  BY <1>2, <1>3

(***************************************************************************)
(* The conventional frames are those inside a conventional descriptor,     *)
(* frame 0 excepted.                                                       *)
(***************************************************************************)
LEMMA ConventionalMember ==
  ASSUME NEW m, WellFormedMap(m), NEW f
  PROVE  f \in ConventionalFrames(m) <=>
           /\ f \in Nat
           /\ f # 0
           /\ \E i \in 1 .. Len(m) : /\ kind(m[i]) = "Usable"
                                     /\ start_frame(m[i]) <= f
                                     /\ f <= end_frame(m[i])
<1>1. \A i \in 1 .. Len(m) : start_frame(m[i]) \in Nat /\ end_frame(m[i]) \in Nat
  BY FrameBounds
<1> DEFINE U == {k \in 1 .. Len(m) : kind(m[k]) = "Usable"}
           F(i) == start_frame(m[i]) .. end_frame(m[i])
<1>2. f \in ConventionalFrames(m) <=> f # 0 /\ \E i \in U : f \in F(i)
  BY DEF ConventionalFrames
<1>3. \A i \in U : f \in F(i) <=> /\ f \in Nat
                                 /\ start_frame(m[i]) <= f
                                 /\ f <= end_frame(m[i])
  BY <1>1
<1> QED
  BY <1>2, <1>3

IInv == TypeOK /\ IteratorInv /\ NextFrameSeparates

(***************************************************************************)
(* What a successful attempt on descriptor j finds, if every usable frame  *)
(* before it lies below next_frame: the frame taken is free, and it is the *)
(* lowest free one.                                                        *)
(***************************************************************************)
LEMMA TakeLowest ==
  ASSUME WellFormedMap(original), next_frame \in Nat, next_frame >= 1,
         NEW j \in 1 .. Len(original), kind(original[j]) = "Usable",
         Fits(original[j], next_frame),
         \A k \in 1 .. j - 1 : kind(original[k]) = "Usable"
                                 => end_frame(original[k]) < next_frame
  PROVE  LET f == Raised(original[j], next_frame)
         IN  /\ f \in Nat
             /\ f >= next_frame
             /\ start_frame(original[j]) <= f
             /\ f \in ConventionalFrames(original)
             /\ \A g \in ConventionalFrames(original) : g >= next_frame => f <= g
<1> DEFINE f == Raised(original[j], next_frame)
<1>1. /\ start_frame(original[j]) \in Nat
      /\ end_frame(original[j]) \in Nat
  BY FrameBounds
<1>2. /\ f \in Nat
      /\ f >= next_frame
      /\ start_frame(original[j]) <= f
      /\ f <= end_frame(original[j])
  BY <1>1 DEF Raised, Fits
<1>3. f \in ConventionalFrames(original)
  BY <1>1, <1>2, ConventionalMember
<1>4. ASSUME NEW g \in ConventionalFrames(original), g >= next_frame
      PROVE  f <= g
  <2>1. PICK i \in 1 .. Len(original) :
          /\ kind(original[i]) = "Usable"
          /\ g \in Nat
          /\ start_frame(original[i]) <= g
          /\ g <= end_frame(original[i])
    BY ConventionalMember
  <2>2. start_frame(original[i]) \in Nat /\ end_frame(original[i]) \in Nat
    BY FrameBounds
  <2>3. CASE i < j
    <3>1. i \in 1 .. j - 1
      BY <2>3
    <3>2. end_frame(original[i]) < next_frame
      BY <3>1, <2>1
    <3> QED
      BY <3>2, <2>1, <2>2, <1>4
  <2>4. CASE i = j
    BY <2>4, <2>1, <1>1, <1>4 DEF Raised
  <2>5. CASE i > j
    <3>1. end_frame(original[j]) < start_frame(original[i])
      BY <2>5, FramesOrdered
    <3> QED
      BY <3>1, <2>1, <2>2, <1>1, <1>2
  <2> QED
    BY <2>3, <2>4, <2>5
<1> QED
  BY <1>2, <1>3, <1>4

(***************************************************************************)
(* A failed attempt leaves next_frame alone, and beyond the descriptor.    *)
(***************************************************************************)
LEMMA MissIsBeyond ==
  ASSUME WellFormedMap(original), next_frame \in Nat,
         NEW j \in 1 .. Len(original), ~Fits(original[j], next_frame)
  PROVE  /\ Raised(original[j], next_frame) = next_frame
         /\ end_frame(original[j]) < next_frame
<1>1. /\ start_frame(original[j]) \in Nat
      /\ end_frame(original[j]) \in Nat
      /\ start_frame(original[j]) <= end_frame(original[j])
  BY FrameBounds
<1> QED
  BY <1>1 DEF Raised, Fits

-----------------------------------------------------------------------------

LEMMA InitIInv == Init => IInv
<1> SUFFICES ASSUME Init PROVE IInv
  OBVIOUS
<1>1. WellFormedMap(original)
  BY MapsWellFormed DEF Init
<1>2. Len(original) \in Nat
  BY <1>1 DEF WellFormedMap
<1>3. next_frame = 1
  BY DEF Init, new, containing_address, PAGE_SIZE
<1>4. TypeOK
  BY <1>1, <1>2, <1>3 DEF Init, new, TypeOK, NoFrame, NoDescriptor
<1>5. IteratorInv
  BY <1>3 DEF Init, new, IteratorInv, NoDescriptor
<1>6. {f \in ConventionalFrames(original) : f < next_frame} = {}
  <2> SUFFICES ASSUME NEW f \in ConventionalFrames(original), f < 1
               PROVE  FALSE
    BY <1>3
  <2> QED
    BY <1>1, ConventionalMember
<1> QED
  BY <1>4, <1>5, <1>6 DEF IInv, NextFrameSeparates, Init

(***************************************************************************)
(* A successful attempt on the descriptor yielded last (current) or next   *)
(* (scan) adds the lowest free frame and keeps next_frame's meaning.       *)
(***************************************************************************)
LEMMA TakeStep ==
  ASSUME IInv, NEW j \in 1 .. Len(original), kind(original[j]) = "Usable",
         \A k \in 1 .. j - 1 : kind(original[k]) = "Usable"
                                 => end_frame(original[k]) < next_frame,
         Take(original[j]), original' = original
  PROVE  /\ ret' \in Nat
         /\ ret' + 1 = next_frame'
         /\ ret' >= next_frame
         /\ start_frame(original[j]) <= ret'
         /\ ret' \in ConventionalFrames(original) \ allocated
         /\ \A g \in ConventionalFrames(original) \ allocated : ret' <= g
         /\ allocated' = allocated \cup {ret'}
         /\ NextFrameSeparates'
<1> DEFINE f == Raised(original[j], next_frame)
<1>1. /\ WellFormedMap(original)
      /\ next_frame \in Nat
      /\ next_frame >= 1
      /\ Fits(original[j], next_frame)
  BY DEF IInv, TypeOK, IteratorInv, Take
<1>2. /\ f \in Nat
      /\ f >= next_frame
      /\ start_frame(original[j]) <= f
      /\ f \in ConventionalFrames(original)
      /\ \A g \in ConventionalFrames(original) : g >= next_frame => f <= g
  BY <1>1, TakeLowest
<1>3. ret' = f /\ next_frame' = f + 1 /\ allocated' = allocated \cup {f}
  BY DEF Take
<1> HIDE DEF f
<1>4. \A g \in ConventionalFrames(original) : g \in Nat
  BY <1>1, ConventionalMember
<1>5. \A g \in ConventionalFrames(original) : g \notin allocated <=> g >= next_frame
  BY <1>1, <1>4 DEF IInv, NextFrameSeparates
<1>6. NextFrameSeparates'
  <2>1. allocated = {g \in ConventionalFrames(original) : g < next_frame}
    BY DEF IInv, NextFrameSeparates
  <2>2. \A g \in ConventionalFrames(original) : g < f + 1 <=> g < next_frame \/ g = f
    BY <1>1, <1>2, <1>4
  <2>3. allocated \cup {f} = {g \in ConventionalFrames(original) : g < f + 1}
    BY <2>1, <2>2, <1>2
  <2> QED
    BY <2>3, <1>3 DEF NextFrameSeparates
<1> QED
  BY <1>2, <1>3, <1>5, <1>6

LEMMA NextIInv == IInv /\ [Next]_vars => IInv'
<1> SUFFICES ASSUME IInv, [Next]_vars PROVE IInv'
  OBVIOUS
<1> USE DEF NoDescriptor, NoFrame
<1>0. /\ WellFormedMap(original) /\ Len(original) \in Nat
      /\ memory_map \in 1 .. Len(original) + 1
      /\ next_frame \in Nat /\ next_frame >= 1
  BY DEF IInv, TypeOK, IteratorInv, WellFormedMap
<1>1. CASE Call
  BY <1>1 DEF Call, IInv, TypeOK, IteratorInv, NextFrameSeparates
<1>2. CASE FromCurrent
  <2> DEFINE j == current_descriptor
  <2>1. /\ j \in 1 .. Len(original)
        /\ kind(original[j]) = "Usable"
        /\ j = memory_map - 1
    BY <1>2, <1>0 DEF FromCurrent, IInv, TypeOK, IteratorInv
  <2>2. \A k \in 1 .. j - 1 : kind(original[k]) = "Usable"
                                => end_frame(original[k]) < next_frame
    BY <2>1, <1>0 DEF IInv, IteratorInv
  <2>3. Take(original[j]) /\ original' = original
    BY <1>2 DEF FromCurrent
  <2>4. /\ ret' \in Nat
        /\ ret' + 1 = next_frame'
        /\ ret' >= next_frame
        /\ start_frame(original[j]) <= ret'
    BY <2>1, <2>2, <2>3, TakeStep
  <2>4a. allocated' = allocated \cup {ret'} /\ NextFrameSeparates'
    BY <2>1, <2>2, <2>3, TakeStep
  <2>5. start_frame(original[j]) \in Nat
    BY <2>1, <1>0, FrameBounds
  <2>6. TypeOK'
    <3>1. /\ original' = original /\ memory_map' = memory_map
          /\ current_descriptor' = current_descriptor /\ pc' = "idle"
      BY <1>2 DEF FromCurrent
    <3>2. allocated' \subseteq Nat
      BY <2>4, <2>4a DEF IInv, TypeOK
    <3>3. next_frame' \in Nat
      BY <2>4, <1>0
    <3> QED
      BY <3>1, <3>2, <3>3, <2>4 DEF IInv, TypeOK
  <2>7. \A k \in 1 .. memory_map - 1 :
          kind(original[k]) = "Usable" /\ k # j => end_frame(original[k]) < next_frame'
    <3> SUFFICES ASSUME NEW k \in 1 .. memory_map - 1, kind(original[k]) = "Usable", k # j
                 PROVE  end_frame(original[k]) < next_frame'
      OBVIOUS
    <3>1. k \in 1 .. j - 1 /\ k \in 1 .. Len(original)
      BY <2>1, <1>0
    <3>2. end_frame(original[k]) \in Nat /\ end_frame(original[k]) < next_frame
      BY <3>1, <2>2, <1>0, FrameBounds
    <3> QED
      BY <3>2, <2>4, <1>0
  <2>8. IteratorInv'
    <3>1. /\ original' = original /\ memory_map' = memory_map
          /\ current_descriptor' = j /\ pc' = "idle"
      BY <1>2 DEF FromCurrent
    <3>2. start_frame(original[j]) <= next_frame' /\ next_frame' >= 1
      BY <2>4, <2>5, <1>0
    <3> QED
      BY <3>1, <3>2, <2>1, <2>7 DEF IteratorInv
  <2> QED
    BY <2>4a, <2>6, <2>8 DEF IInv
<1>3. CASE LeaveCurrent
  <2> DEFINE j == current_descriptor
  <2>1. /\ j \in 1 .. Len(original)
        /\ kind(original[j]) = "Usable"
        /\ j = memory_map - 1
    BY <1>3, <1>0 DEF LeaveCurrent, IInv, TypeOK, IteratorInv
  <2>2. ~Fits(original[j], next_frame) /\ next_frame' = Raised(original[j], next_frame)
    BY <1>3 DEF LeaveCurrent, Miss
  <2>3. next_frame' = next_frame /\ end_frame(original[j]) < next_frame
    BY <2>1, <2>2, <1>0, MissIsBeyond
  <2>4. TypeOK' /\ NextFrameSeparates'
    BY <1>3, <1>0, <2>3 DEF LeaveCurrent, Miss, IInv, TypeOK, NextFrameSeparates
  <2>5. \A k \in 1 .. memory_map - 1 :
          kind(original[k]) = "Usable" => end_frame(original[k]) < next_frame
    BY <2>3 DEF IInv, IteratorInv
  <2>6. IteratorInv'
    BY <1>3, <1>0, <2>3, <2>5 DEF LeaveCurrent, IteratorInv
  <2> QED
    BY <2>4, <2>6 DEF IInv
<1>4. CASE SkipDescriptor
  <2>1. TypeOK' /\ NextFrameSeparates'
    BY <1>4, <1>0 DEF SkipDescriptor, IInv, TypeOK, NextFrameSeparates
  <2>2. IteratorInv'
    BY <1>4, <1>0 DEF SkipDescriptor, IInv, IteratorInv
  <2> QED
    BY <2>1, <2>2 DEF IInv
<1>5. CASE FromNext
  <2> DEFINE j == memory_map
  <2>1. /\ j \in 1 .. Len(original)
        /\ kind(original[j]) = "Usable"
        /\ current_descriptor = NoDescriptor
    BY <1>5, <1>0 DEF FromNext, IInv, IteratorInv
  <2>2. \A k \in 1 .. j - 1 : kind(original[k]) = "Usable"
                                => end_frame(original[k]) < next_frame
    BY <2>1, <1>0 DEF IInv, IteratorInv
  <2>3. Take(original[j]) /\ original' = original
    BY <1>5 DEF FromNext
  <2>4. /\ ret' \in Nat
        /\ ret' + 1 = next_frame'
        /\ ret' >= next_frame
        /\ start_frame(original[j]) <= ret'
    BY <2>1, <2>2, <2>3, TakeStep
  <2>4a. allocated' = allocated \cup {ret'} /\ NextFrameSeparates'
    BY <2>1, <2>2, <2>3, TakeStep
  <2>5. start_frame(original[j]) \in Nat
    BY <2>1, <1>0, FrameBounds
  <2>6. TypeOK'
    <3>1. /\ original' = original /\ memory_map' = memory_map + 1
          /\ current_descriptor' = memory_map /\ pc' = "idle"
      BY <1>5 DEF FromNext
    <3>2. allocated' \subseteq Nat
      BY <2>4, <2>4a DEF IInv, TypeOK
    <3>3. next_frame' \in Nat
      BY <2>4, <1>0
    <3> QED
      BY <3>1, <3>2, <3>3, <2>1, <2>4, <1>0 DEF IInv, TypeOK
  <2>7. \A k \in 1 .. memory_map :
          kind(original[k]) = "Usable" /\ k # j => end_frame(original[k]) < next_frame'
    <3> SUFFICES ASSUME NEW k \in 1 .. memory_map, kind(original[k]) = "Usable", k # j
                 PROVE  end_frame(original[k]) < next_frame'
      OBVIOUS
    <3>1. k \in 1 .. j - 1 /\ k \in 1 .. Len(original)
      BY <2>1, <1>0
    <3>2. end_frame(original[k]) \in Nat /\ end_frame(original[k]) < next_frame
      BY <3>1, <2>2, <1>0, FrameBounds
    <3> QED
      BY <3>2, <2>4, <1>0
  <2>8. IteratorInv'
    <3>1. /\ original' = original /\ memory_map' - 1 = memory_map
          /\ current_descriptor' = j /\ pc' = "idle"
      BY <1>5, <1>0 DEF FromNext
    <3>2. start_frame(original[j]) <= next_frame' /\ next_frame' >= 1
      BY <2>4, <2>5, <1>0
    <3> QED
      BY <3>1, <3>2, <2>1, <2>7 DEF IteratorInv
  <2> QED
    BY <2>4a, <2>6, <2>8 DEF IInv
<1>6. CASE PassNext
  <2> DEFINE j == memory_map
  <2>1. /\ j \in 1 .. Len(original)
        /\ kind(original[j]) = "Usable"
        /\ current_descriptor = NoDescriptor
    BY <1>6, <1>0 DEF PassNext, IInv, IteratorInv
  <2>2. ~Fits(original[j], next_frame) /\ next_frame' = Raised(original[j], next_frame)
    BY <1>6 DEF PassNext, Miss
  <2>3. next_frame' = next_frame /\ end_frame(original[j]) < next_frame
    BY <2>1, <2>2, <1>0, MissIsBeyond
  <2>4. TypeOK' /\ NextFrameSeparates'
    BY <1>6, <1>0, <2>3 DEF PassNext, Miss, IInv, TypeOK, NextFrameSeparates
  <2>5. \A k \in 1 .. memory_map :
          kind(original[k]) = "Usable" => end_frame(original[k]) < next_frame
    BY <2>1, <2>3, <1>0 DEF IInv, IteratorInv
  <2>6. IteratorInv'
    BY <1>6, <1>0, <2>1, <2>3, <2>5 DEF PassNext, IteratorInv
  <2> QED
    BY <2>4, <2>6 DEF IInv
<1>7. CASE ReturnNone
  BY <1>7 DEF ReturnNone, IInv, TypeOK, IteratorInv, NextFrameSeparates
<1>8. CASE UNCHANGED vars
  BY <1>8 DEF vars, IInv, TypeOK, IteratorInv, NextFrameSeparates
<1> QED
  BY <1>1, <1>2, <1>3, <1>4, <1>5, <1>6, <1>7, <1>8 DEF Next, allocate_frame

(***************************************************************************)
(* allocate_frame answers None only when every conventional frame has been *)
(* handed out.                                                             *)
(***************************************************************************)
LEMMA NoneLeft ==
  ASSUME IInv, Next, pc = "scan", pc' = "idle", ret' = NoFrame
  PROVE  allocated' = ConventionalFrames(original')
<1> USE DEF NoDescriptor, NoFrame
<1>0. /\ WellFormedMap(original) /\ Len(original) \in Nat
      /\ memory_map \in 1 .. Len(original) + 1
      /\ next_frame \in Nat
  BY DEF IInv, TypeOK, WellFormedMap
<1>1. CASE FromNext
  <2>1. /\ memory_map \in 1 .. Len(original)
        /\ kind(original[memory_map]) = "Usable"
        /\ \A k \in 1 .. memory_map - 1 : kind(original[k]) = "Usable"
                                     => end_frame(original[k]) < next_frame
    BY <1>1, <1>0 DEF FromNext, IInv, TypeOK, IteratorInv
  <2>2. ret' \in Nat
    BY <2>1, <1>1, TakeStep DEF FromNext
  <2> QED
    BY <2>2
<1>2. CASE ReturnNone
  <2>1. \A k \in 1 .. Len(original) : kind(original[k]) = "Usable"
                                        => end_frame(original[k]) < next_frame
    BY <1>2, <1>0 DEF ReturnNone, IInv, IteratorInv
  <2>2. ASSUME NEW f \in ConventionalFrames(original) PROVE f < next_frame
    <3>1. PICK i \in 1 .. Len(original) : /\ kind(original[i]) = "Usable"
                                          /\ f \in Nat
                                          /\ f <= end_frame(original[i])
      BY <1>0, ConventionalMember
    <3>2. end_frame(original[i]) \in Nat
      BY <1>0, FrameBounds
    <3> QED
      BY <3>1, <3>2, <2>1, <1>0
  <2>3. allocated = ConventionalFrames(original)
    BY <2>2 DEF IInv, NextFrameSeparates
  <2>4. allocated' = allocated /\ original' = original
    BY <1>2 DEF ReturnNone
  <2> QED
    BY <2>3, <2>4
<1> QED
  BY <1>1, <1>2 DEF Next, Call, allocate_frame, FromCurrent, LeaveCurrent, SkipDescriptor, PassNext

(***************************************************************************)
(* The allocator's variables keep their types.                             *)
(***************************************************************************)
THEOREM TypeCorrect == Spec => []TypeOK
<1>1. IInv => TypeOK
  BY DEF IInv
<1> QED
  BY <1>1, InitIInv, NextIInv, PTL DEF Spec

(***************************************************************************)
(* The frames handed out are exactly the conventional frames below         *)
(* next_frame: construct_memory_map may tell used from free memory by      *)
(* next_frame alone.                                                       *)
(***************************************************************************)
THEOREM NextFrameCorrect == Spec => []NextFrameSeparates
<1>1. IInv => NextFrameSeparates
  BY DEF IInv
<1> QED
  BY <1>1, InitIInv, NextIInv, PTL DEF Spec

(***************************************************************************)
(* Every usable descriptor the iterator has left lies below next_frame.    *)
(***************************************************************************)
THEOREM IteratorCorrect == Spec => []IteratorInv
<1>1. IInv => IteratorInv
  BY DEF IInv
<1> QED
  BY <1>1, InitIInv, NextIInv, PTL DEF Spec

-----------------------------------------------------------------------------

(***************************************************************************)
(* Every step of the allocator is a step of the frame supply or stutters:  *)
(* a successful attempt grants the lowest free frame, and when the         *)
(* iterator is exhausted no conventional frame is left.                    *)
(***************************************************************************)
LEMMA StepRefines == IInv /\ [Next]_vars => [Supply!Next]_(Supply!supplyVars)
<1> SUFFICES ASSUME IInv, [Next]_vars PROVE [Supply!Next]_(Supply!supplyVars)
  OBVIOUS
<1> USE DEF NoDescriptor, NoFrame
<1> DEFINE answer == IF pc = "idle" THEN ret ELSE -2
<1>0. /\ WellFormedMap(original) /\ Len(original) \in Nat
      /\ memory_map \in 1 .. Len(original) + 1
      /\ next_frame \in Nat
  BY DEF IInv, TypeOK, WellFormedMap
<1>a. Supply!Unallocated = ConventionalFrames(original) \ allocated
  <2>1. Supply!ConventionalFrames(original) = ConventionalFrames(original)
    BY DEF Supply!ConventionalFrames, Supply!start_frame, Supply!end_frame, Supply!start,
           Supply!len, Supply!kind, Supply!containing_address, Supply!PAGE_SIZE,
           ConventionalFrames, start_frame, end_frame, start, len, kind,
           containing_address, PAGE_SIZE
  <2> QED
    BY <2>1 DEF Supply!Unallocated
<1>1. CASE Call
  <2>1. answer # -2 /\ answer' = -2
    BY <1>1 DEF Call, IInv, TypeOK
  <2> QED
    BY <2>1, <1>1 DEF Call, Supply!Next, Supply!Request, Supply!Pending
<1>2. ASSUME NEW j \in 1 .. Len(original), kind(original[j]) = "Usable",
             \A k \in 1 .. j - 1 : kind(original[k]) = "Usable"
                                     => end_frame(original[k]) < next_frame,
             Take(original[j]), original' = original, pc # "idle", pc' = "idle"
      PROVE  Supply!Next
  <2>1. /\ ret' \in ConventionalFrames(original) \ allocated
        /\ \A g \in ConventionalFrames(original) \ allocated : ret' <= g
        /\ allocated' = allocated \cup {ret'}
    BY <1>2, TakeStep
  <2>2. Supply!Grant(ret')
    BY <1>2, <2>1, <1>a DEF Supply!Grant, Supply!Pending
  <2> QED
    BY <2>1, <2>2, <1>a DEF Supply!Next
<1>3. CASE FromCurrent
  <2>1. /\ current_descriptor \in 1 .. Len(original)
        /\ kind(original[current_descriptor]) = "Usable"
        /\ \A k \in 1 .. current_descriptor - 1 : kind(original[k]) = "Usable"
                                     => end_frame(original[k]) < next_frame
    BY <1>3, <1>0 DEF FromCurrent, IInv, TypeOK, IteratorInv
  <2> QED
    BY <2>1, <1>2, <1>3 DEF FromCurrent
<1>4. CASE FromNext
  <2>1. /\ memory_map \in 1 .. Len(original)
        /\ kind(original[memory_map]) = "Usable"
        /\ \A k \in 1 .. memory_map - 1 : kind(original[k]) = "Usable"
                                     => end_frame(original[k]) < next_frame
    BY <1>4, <1>0 DEF FromNext, IInv, TypeOK, IteratorInv
  <2> QED
    BY <2>1, <1>2, <1>4 DEF FromNext
<1>5. CASE LeaveCurrent \/ SkipDescriptor \/ PassNext
  BY <1>5 DEF LeaveCurrent, SkipDescriptor, PassNext, Miss, Supply!supplyVars
<1>6. CASE ReturnNone
  <2>1. allocated' = ConventionalFrames(original')
    BY <1>6, NoneLeft DEF ReturnNone, Next, allocate_frame
  <2>2. allocated' = allocated /\ original' = original
    BY <1>6 DEF ReturnNone
  <2>3. Supply!Unallocated = {}
    BY <2>1, <2>2, <1>a
  <2> QED
    BY <2>3, <1>6 DEF ReturnNone, Supply!Next, Supply!Refuse, Supply!Pending, Supply!NoFrame
<1>7. CASE UNCHANGED vars
  BY <1>7 DEF vars, Supply!supplyVars
<1> QED
  BY <1>1, <1>3, <1>4, <1>5, <1>6, <1>7 DEF Next, allocate_frame

(***************************************************************************)
(* allocate_frame implements the frame supply: each conventional frame     *)
(* above frame 0 is handed out once, in ascending order, and None is       *)
(* answered only when none is left.                                        *)
(***************************************************************************)
THEOREM AllocatorRefines == Spec => ImplementsFrameSupply
<1>1. Init => Supply!Init
  BY DEF Init, Supply!Init, NoFrame, Supply!NoFrame
<1> QED
  BY <1>1, InitIInv, NextIInv, StepRefines, PTL DEF Spec, ImplementsFrameSupply, Supply!Spec
=============================================================================
