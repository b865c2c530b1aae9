---------------------------- MODULE FrameSupply ----------------------------
(***************************************************************************)
(* What the boot loader's frame allocator promises its callers (the paging *)
(* code of initium): every request is answered, a granted frame is the     *)
(* lowest frame of conventional memory that was never granted before, and  *)
(* None is answered only when no such frame is left.                       *)
(***************************************************************************)
EXTENDS UefiMemoryMap

CONSTANT MemoryMaps   \* the memory maps the firmware may hand over

VARIABLES
  original,   \* the memory map, fixed by the firmware
  allocated,  \* the frames granted so far
  answer      \* the last answer: a frame, NoFrame, or Pending

supplyVars == <<original, allocated, answer>>

Pending == -2
NoFrame == -1

Unallocated == ConventionalFrames(original) \ allocated

Init ==
  /\ original \in MemoryMaps
  /\ allocated = {}
  /\ answer = NoFrame

Request ==
  /\ answer # Pending
  /\ answer' = Pending
  /\ UNCHANGED <<original, allocated>>

Grant(f) ==
  /\ answer = Pending
  /\ f \in Unallocated
  /\ \A g \in Unallocated : f <= g
  /\ answer' = f
  /\ allocated' = allocated \cup {f}
  /\ UNCHANGED original

Refuse ==
  /\ answer = Pending
  /\ Unallocated = {}
  /\ answer' = NoFrame
  /\ UNCHANGED <<original, allocated>>

Next == Request \/ (\E f \in Unallocated : Grant(f)) \/ Refuse

Spec == Init /\ [][Next]_supplyVars
=============================================================================
