------------------------ MODULE LegacyFrameAllocator ------------------------
(***************************************************************************)
(* initium's physical frame allocator (initium/src/memory.rs).  It walks   *)
(* the memory map with an iterator, remembers the descriptor it is         *)
(* allocating from, and hands out frames in ascending order, starting at   *)
(* frame 1.  The paging code calls allocate_frame for the kernel's data,   *)
(* stack, GDT and boot information and, inside map_to, for page tables.    *)
(*                                                                         *)
(* allocate_frame is modelled by its control flow: the call, the attempt   *)
(* on the current descriptor, and one step per iteration of its loop.      *)
(***************************************************************************)
EXTENDS UefiMemoryMap

CONSTANT MemoryMaps   \* the memory maps the firmware may hand over

ASSUME MapsWellFormed == \A m \in MemoryMaps : WellFormedMap(m)

VARIABLES
  original,            \* the memory map
  memory_map,          \* the iterator: index of the descriptor it yields next
  current_descriptor,  \* index of the descriptor in use, or NoDescriptor
  next_frame,          \* number of the next candidate frame
  pc,                  \* where allocate_frame is
  ret,                 \* what the last call returned: a frame or NoFrame
  allocated            \* history: every frame returned so far

vars == <<original, memory_map, current_descriptor, next_frame, pc, ret, allocated>>

NoDescriptor == 0
NoFrame == -1

(***************************************************************************)
(* allocate_frame_from_descriptor: raise next_frame to the start of the    *)
(* descriptor, and take it if it does not lie beyond the end.              *)
(***************************************************************************)
Raised_KeepsOld(d, nf) == nf
Raised(d, nf) == IF nf < start_frame(d) THEN start_frame(d) ELSE nf

Fits_ExclusiveEnd(d, nf) == Raised(d, nf) < end_frame(d)
Fits(d, nf) == Raised(d, nf) <= end_frame(d)

Take(d) ==
  /\ Fits(d, next_frame)
  /\ ret' = Raised(d, next_frame)
  /\ next_frame' = Raised(d, next_frame) + 1
  /\ allocated' = allocated \cup {ret'}

Miss(d) ==
  /\ ~Fits(d, next_frame)
  /\ next_frame' = Raised(d, next_frame)
  /\ UNCHANGED <<ret, allocated>>

-----------------------------------------------------------------------------

new_AtFrameZero ==
  /\ memory_map = 1
  /\ current_descriptor = NoDescriptor
  /\ next_frame = containing_address(0)

(***************************************************************************)
(* LegacyFrameAllocator::new, new_starting_at.                             *)
(***************************************************************************)
new ==
  /\ memory_map = 1
  /\ current_descriptor = NoDescriptor
  /\ next_frame = containing_address(4096)

Init ==
  /\ original \in MemoryMaps
  /\ new
  /\ pc = "idle"
  /\ ret = NoFrame
  /\ allocated = {}

(***************************************************************************)
(* allocate_frame.                                                         *)
(***************************************************************************)
Call ==
  /\ pc = "idle"
  /\ pc' = IF current_descriptor = NoDescriptor THEN "scan" ELSE "current"
  /\ UNCHANGED <<original, memory_map, current_descriptor, next_frame, ret, allocated>>

FromCurrent ==
  /\ pc = "current"
  /\ Take(original[current_descriptor])
  /\ pc' = "idle"
  /\ UNCHANGED <<original, memory_map, current_descriptor>>

LeaveCurrent ==
  /\ pc = "current"
  /\ Miss(original[current_descriptor])
  /\ current_descriptor' = NoDescriptor
  /\ pc' = "scan"
  /\ UNCHANGED <<original, memory_map>>

SkipDescriptor_Stuck ==
  /\ pc = "scan"
  /\ memory_map <= Len(original)
  /\ kind(original[memory_map]) # "Usable"
  /\ UNCHANGED <<original, memory_map, current_descriptor, next_frame, pc, ret, allocated>>

SkipDescriptor ==
  /\ pc = "scan"
  /\ memory_map <= Len(original)
  /\ kind(original[memory_map]) # "Usable"
  /\ memory_map' = memory_map + 1
  /\ UNCHANGED <<original, current_descriptor, next_frame, pc, ret, allocated>>

FromNext ==
  /\ pc = "scan"
  /\ memory_map <= Len(original)
  /\ kind(original[memory_map]) = "Usable"
  /\ Take(original[memory_map])
  /\ current_descriptor' = memory_map
  /\ memory_map' = memory_map + 1
  /\ pc' = "idle"
  /\ UNCHANGED original

PassNext ==
  /\ pc = "scan"
  /\ memory_map <= Len(original)
  /\ kind(original[memory_map]) = "Usable"
  /\ Miss(original[memory_map])
  /\ memory_map' = memory_map + 1
  /\ UNCHANGED <<original, current_descriptor, pc>>

ReturnNone_Polls ==
  /\ pc = "scan"
  /\ memory_map > Len(original)
  /\ ret' = NoFrame
  /\ pc' = "idle"
  /\ memory_map' = memory_map + 1
  /\ UNCHANGED <<original, current_descriptor, next_frame, allocated>>

ReturnNone ==
  /\ pc = "scan"
  /\ memory_map > Len(original)
  /\ ret' = NoFrame
  /\ pc' = "idle"
  /\ UNCHANGED <<original, memory_map, current_descriptor, next_frame, allocated>>

allocate_frame ==
  FromCurrent \/ LeaveCurrent \/ SkipDescriptor \/ FromNext \/ PassNext \/ ReturnNone

Next == Call \/ allocate_frame

Spec == Init /\ [][Next]_vars

\* The loader runs alone on the boot processor: a started call keeps running.
FairSpec == Spec /\ WF_vars(allocate_frame)

-----------------------------------------------------------------------------

TypeOK ==
  /\ WellFormedMap(original)
  /\ memory_map \in 1 .. Len(original) + 1
  /\ current_descriptor \in 0 .. Len(original)
  /\ next_frame \in Nat
  /\ pc \in {"idle", "current", "scan"}
  /\ ret \in Nat \cup {NoFrame}
  /\ allocated \subseteq Nat

(***************************************************************************)
(* next_frame alone tells used from free conventional memory: the frames   *)
(* handed out are exactly the conventional frames below it.  This is what  *)
(* construct_memory_map (memory.rs:123) relies on when it reports all      *)
(* conventional memory below next_frame as Bootloader and all of it above  *)
(* as Usable: no frame in use is given away and none is lost.              *)
(***************************************************************************)
NextFrameSeparates ==
  allocated = {f \in ConventionalFrames(original) : f < next_frame}

(***************************************************************************)
(* The iterator and the current descriptor: only the descriptor yielded    *)
(* last can be current, and every usable descriptor left behind lies       *)
(* wholly below next_frame.                                                *)
(***************************************************************************)
IteratorInv ==
  /\ current_descriptor # NoDescriptor =>
       /\ current_descriptor = memory_map - 1
       /\ kind(original[current_descriptor]) = "Usable"
       /\ start_frame(original[current_descriptor]) <= next_frame
  /\ pc = "current" => current_descriptor # NoDescriptor
  /\ pc = "scan" => current_descriptor = NoDescriptor
  /\ next_frame >= 1
  /\ \A k \in 1 .. memory_map - 1 :
       kind(original[k]) = "Usable" /\ k # current_descriptor
         => end_frame(original[k]) < next_frame

(***************************************************************************)
(* allocate_frame implements the frame supply: callers get, in order, each *)
(* conventional frame above frame 0 once, and None only when all are gone, *)
(* although the allocator never looks back at a descriptor it has left.    *)
(***************************************************************************)
Supply == INSTANCE FrameSupply WITH
            answer <- IF pc = "idle" THEN ret ELSE -2

ImplementsFrameSupply == Supply!Spec

(***************************************************************************)
(* Every call of allocate_frame returns (the loop over the iterator ends). *)
(***************************************************************************)
CallReturns == pc # "idle" ~> pc = "idle"
=============================================================================
