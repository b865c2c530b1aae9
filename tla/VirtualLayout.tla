--------------------------- MODULE VirtualLayout ---------------------------
(***************************************************************************)
(* Where initium puts things in the kernel's address space: the order in   *)
(* which load_kernel, set_up_mappings and create_boot_info                 *)
(* (initium/src/kernel.rs, initium/src/initium.rs) take level-4 entries    *)
(* from Entries.  Every mapping is made with map_to, which fails on a page *)
(* that is already mapped: what is placed must not overlap.                *)
(***************************************************************************)
EXTENDS Entries, Sequences

CONSTANTS
  Executables,    \* the segments, sets of [virtual_addr, mem_size], of
                  \* fixed-address kernels; mark_segments takes those of every type,
                  \* and the ones that are not Load lie within the ones that are
  SharedObjects,  \* the same, of position-independent kernels
  Sizes           \* sizes in bytes of what is mapped besides the kernel

\* A fixed-address kernel is linked to addresses of the address space outside entry 0.
ASSUME KernelsAssumption ==
  /\ \A x \in Executables : HasSegments(x) /\ segment_entries(x, 0) \subseteq EntryIndex \ {0}
  /\ \A x \in SharedObjects : HasSegments(x)

ASSUME SizesAssumption == Sizes \subseteq Nat \ {0}

VARIABLES
  entry_state,  \* Mappings::used_entries
  stage,        \* what is placed next, or "done", or "panicked"
  placed        \* history: the entries of the bytes of each thing placed

vars == <<entry_state, stage, placed>>

Things == {"kernel", "stack", "framebuffer", "ramdisk", "physical_memory", "boot_info"}

Init ==
  /\ entry_state = new_entries
  /\ stage = "kernel"
  /\ placed = [t \in Things |-> {}]

(***************************************************************************)
(* Loader::new: a fixed-address kernel takes the entries of its segments.  *)
(***************************************************************************)
LoadExecutable ==
  /\ stage = "kernel"
  /\ \E x \in Executables :
       /\ entry_state' = mark_segments(entry_state, x, 0)
       /\ placed' = [placed EXCEPT !["kernel"] = segment_entries(x, 0)]
  /\ stage' = "stack"

(***************************************************************************)
(* Loader::new: a position-independent kernel is moved to free entries     *)
(* with room for everything from its lowest to its highest address.        *)
(***************************************************************************)
virtual_address_offset(x, address) == address - min_addr(x)

LoadSharedObject ==
  /\ stage = "kernel"
  /\ \E x \in SharedObjects :
       LET size == max_addr(x) - min_addr(x)
           off  == virtual_address_offset(x, get_free_address(entry_state, size))
       IN  IF has_free_entries(entry_state, level_4_entries(size))
             THEN /\ entry_state' = mark_segments(take(entry_state, size), x, off)
                  /\ placed' = [placed EXCEPT !["kernel"] = segment_entries(x, off)]
                  /\ stage' = "stack"
             ELSE stage' = "panicked" /\ UNCHANGED <<entry_state, placed>>

(***************************************************************************)
(* mapping_addr: everything else goes to free entries of its own.          *)
(***************************************************************************)
mapping_addr(thing, size, next) ==
  IF has_free_entries(entry_state, level_4_entries(size))
    THEN /\ entry_state' = take(entry_state, size)
         /\ placed' = [placed EXCEPT ![thing] =
                         entries_of(get_free_address(entry_state, size), size)]
         /\ stage' = next
    ELSE stage' = "panicked" /\ UNCHANGED <<entry_state, placed>>

MapStack ==
  stage = "stack" /\ \E size \in Sizes : mapping_addr("stack", size, "framebuffer")

\* The firmware may report a framebuffer of no bytes.
MapFramebuffer ==
  stage = "framebuffer" /\ \E size \in Sizes \cup {0} : mapping_addr("framebuffer", size, "ramdisk")

NoFramebuffer ==
  stage = "framebuffer" /\ stage' = "ramdisk" /\ UNCHANGED <<entry_state, placed>>

MapRamdisk ==
  stage = "ramdisk" /\ \E size \in Sizes : mapping_addr("ramdisk", size, "physical_memory")

NoRamdisk ==
  stage = "ramdisk" /\ stage' = "physical_memory" /\ UNCHANGED <<entry_state, placed>>

MapPhysicalMemory ==
  stage = "physical_memory" /\ \E size \in Sizes : mapping_addr("physical_memory", size, "boot_info")

MapBootInfo ==
  stage = "boot_info" /\ \E size \in Sizes : mapping_addr("boot_info", size, "done")

Next ==
  \/ LoadExecutable \/ LoadSharedObject
  \/ MapStack \/ MapFramebuffer \/ NoFramebuffer \/ MapRamdisk \/ NoRamdisk
  \/ MapPhysicalMemory \/ MapBootInfo

Spec == Init /\ [][Next]_vars

-----------------------------------------------------------------------------

TypeOK ==
  /\ entry_state \in EntryState
  /\ stage \in Things \cup {"done", "panicked"}
  /\ placed \in [Things -> SUBSET EntryIndex]

(***************************************************************************)
(* No two things initium places share a level-4 entry, and none is in      *)
(* entry 0, where it identity-maps its own code and the GDT: whatever the  *)
(* kernel is linked to and whatever the sizes, no byte of one is mapped    *)
(* over a byte of another.                                                 *)
(***************************************************************************)
PlacesDisjoint ==
  /\ \A t \in Things : 0 \notin placed[t]
  /\ \A t, u \in Things : t # u => placed[t] \cap placed[u] = {}

\* What a kernel moved as a whole lies across.
KernelSpan ==
  {i \in EntryIndex : \E j, k \in placed["kernel"] : j <= i /\ i <= k}

EveryEntryUsed ==
  \A i \in EntryIndex : entry_state[i] =>
     \/ i = 0
     \/ \E t \in Things : i \in placed[t]
     \/ i \in KernelSpan

\* Loader::new measures a shared object with its empty segments, mark_segments
\* marks nothing for them.
EndsNotEmpty ==
  \A x \in SharedObjects :
    /\ \E s \in x : s.mem_size > 0 /\ s.virtual_addr = min_addr(x)
    /\ \E s \in x : s.mem_size > 0 /\ s.virtual_addr + s.mem_size = max_addr(x)

(***************************************************************************)
(* Nothing is reserved for nothing: an entry marked as used is entry 0,    *)
(* holds something, or lies between two entries of the kernel, so that the *)
(* panic for want of entries is raised only when they are really taken.    *)
(* This holds provided that in every shared object the segments that begin *)
(* first and end last are not empty (EndsNotEmpty): for an empty segment   *)
(* at either end get_free_address reserves entries nothing is put in.      *)
(***************************************************************************)
NoEntryWasted == EndsNotEmpty => EveryEntryUsed
=============================================================================
