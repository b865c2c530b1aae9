---------------------------- MODULE BootMappings ----------------------------
(***************************************************************************)
(* The address spaces initium builds before it enters the kernel           *)
(* (create_page_tables in initium/src/main.rs, set_up_mappings,            *)
(* create_boot_info and switch_to_kernel in initium/src/initium.rs,        *)
(* initium/src/gdt.rs), and the first mappings the kernel adds itself      *)
(* (nukleus/src/memory.rs, nukleus/src/memory/allocator.rs).               *)
(*                                                                         *)
(* One action is one iteration of a mapping loop: it allocates a frame     *)
(* where the code does, walks the four levels of page tables, allocates    *)
(* and clears the tables that are missing and writes the entry.  Frames    *)
(* come lowest first (module FrameSupply); level-4 entries come from       *)
(* module Entries.  Memory is touched through the address space that is    *)
(* active, and a touch of an address that is not mapped is a fault.        *)
(***************************************************************************)
EXTENDS Entries, Sequences, FiniteSets

CONSTANTS
  PAGE_SIZE,       \* 4096 in the code
  FANOUT,          \* entries of a page table; 512 in the code
  STACK_SIZE,      \* kernel_stack_size
  BOOT_INFO_SIZE,  \* size of BootInfo
  REGION_SIZE,     \* size of a MemoryRegion
  HEAP_START,      \* where nukleus maps its heap
  HEAP_SIZE,
  None,            \* no value
  Machines,        \* what the boot may find: see WellFormed
  usable_after(_, _)  \* usable_after(memory, k): the frames that nukleus allocates from,
                      \* in order, if initium was granted the first k frames

\* Pages, and frames, that one level-4 entry covers.
EntryPages == FANOUT * FANOUT * FANOUT

ASSUME PagingAssumption ==
  /\ PAGE_SIZE \in Nat \ {0} /\ FANOUT \in Nat \ {0, 1}
  /\ LEVEL_4_SIZE = PAGE_SIZE * EntryPages
  /\ STACK_SIZE \in Nat \ {0} /\ STACK_SIZE % PAGE_SIZE = 0
  /\ BOOT_INFO_SIZE \in Nat \ {0} /\ REGION_SIZE \in Nat \ {0}
  /\ HEAP_START \in Nat /\ HEAP_START % PAGE_SIZE = 0 /\ HEAP_SIZE \in Nat \ {0}
  \* The heap starts inside an entry other than the first and ends in the same one.
  /\ p4_index(HEAP_START) \in EntryIndex \ {0} /\ HEAP_START % LEVEL_4_SIZE # 0
  /\ p4_index(HEAP_START + HEAP_SIZE - 1) = p4_index(HEAP_START)

NoAddress == -1

containing(addr) == addr \div PAGE_SIZE

pages_of(addr, size) == containing(addr) .. containing(addr + size - 1)

(***************************************************************************)
(* A machine: its memory (the frames of conventional memory in the order   *)
(* they are granted, and its end), the number of memory descriptors,       *)
(* the frame with the code of context_switch, the frames of the data the   *)
(* loader runs on (its stack, the memory map, the configuration table),    *)
(* the kernel, the framebuffer and the ramdisk.  A kernel has the segments *)
(* to load, none empty, the first frame of the file, the pages of its      *)
(* image (counted from the lowest) that the loader gives a frame of their  *)
(* own (module KernelLoader), those whose bytes it reads from the file (it *)
(* copies them, or they hold the dynamic section or relocations) and the   *)
(* entry point, which lies in a segment.  The headers are in the file's    *)
(* first frame.  The loader's code does not straddle the 512 GiB boundary, *)
(* and a framebuffer leaves at least a page of its last entry free.        *)
(***************************************************************************)
frames_of(memory) == 0 .. containing(memory.max_phys - 1)

WellFormedMemory(memory) ==
  /\ memory.max_phys \in Nat \ {0}
  /\ memory.free \in Seq(frames_of(memory))
  /\ \A i \in 1 .. Len(memory.free) : \A j \in 1 .. i - 1 : memory.free[j] < memory.free[i]

WellFormedKernel(k) ==
  /\ HasSegments(k.segments) /\ \A s \in k.segments : s.mem_size > 0
  /\ k.fixed \in BOOLEAN /\ k.file \in Nat /\ k.own \subseteq Nat /\ k.read \subseteq Nat
  /\ k.fixed => segment_entries(k.segments, 0) \subseteq EntryIndex \ {0}
  /\ \E s \in k.segments : k.entry_point \in s.virtual_addr .. s.virtual_addr + s.mem_size - 1

WellFormed(m) ==
  /\ WellFormedMemory(m.memory) /\ m.descriptors \in Nat \ {0}
  /\ m.code \in Nat /\ m.code + 1 # EntryPages /\ m.data \subseteq Nat
  /\ \A i \in 1 .. Len(m.memory.free) : m.memory.free[i] # m.code
  /\ m.framebuffer # None =>
       /\ m.framebuffer.addr \in Nat \ {0} /\ m.framebuffer.byte_len \in Nat
       /\ m.framebuffer.byte_len + PAGE_SIZE <= LEVEL_4_SIZE
  /\ m.ramdisk # None =>
       m.ramdisk.addr \in Nat /\ m.ramdisk.addr % PAGE_SIZE = 0 /\ m.ramdisk.len \in Nat \ {0}
  /\ WellFormedKernel(m.kernel)

ASSUME MachinesAssumption == \A m \in Machines : WellFormed(m)

(***************************************************************************)
(* What the memory map reports to nukleus (module MemoryHandoff): frames   *)
(* of the machine, each once, and none that initium was granted.           *)
(***************************************************************************)
WellReported(memory, k) ==
  LET usable == usable_after(memory, k)
  IN  /\ usable \in Seq(frames_of(memory))
      /\ \A i \in 1 .. Len(usable) : \A j \in 1 .. i - 1 : usable[i] # usable[j]
      /\ \A i \in 1 .. Len(usable), j \in 1 .. k : usable[i] # memory.free[j]

ASSUME ReportAssumption ==
  \A memory \in {m.memory : m \in Machines} :
    \A k \in 0 .. Len(memory.free) : WellReported(memory, k)

VARIABLES
  machine,      \* the machine booted on
  pc,           \* the next step of the code
  loop,         \* iterations done of the mapping loop at pc
  supply,       \* the frames the allocator in charge has not granted yet
  tables,       \* the frame of each page table of the address spaces
  mapped,       \* the frame each page of the address spaces is mapped to
  entry_state,  \* Mappings::used_entries
  at,           \* the virtual address of each thing placed
  gdtr,         \* the frame of the GDT the processor uses
  boot_info,    \* what BootInfo says
  failure       \* None, or the panic or fault that ended the boot

vars == <<machine, pc, loop, supply, tables, mapped, entry_state, at, gdtr,
          boot_info, failure>>

Spaces == {"bootloader", "kernel"}
Things == {"kernel", "stack", "framebuffer", "ramdisk", "physical_memory", "boot_info"}

Memory == machine.memory
Kernel == machine.kernel
Framebuffer == machine.framebuffer
Ramdisk == machine.ramdisk

Init ==
  /\ machine \in Machines
  /\ pc = "bootloader_table" /\ loop = 0
  /\ supply = Memory.free
  /\ tables = [s \in Spaces |-> <<>>]
  /\ mapped = [s \in Spaces |-> <<>>]
  /\ entry_state = new_entries
  /\ at = [t \in Things |-> NoAddress]
  /\ gdtr = NoAddress
  /\ boot_info = None
  /\ failure = None

-----------------------------------------------------------------------------
(***************************************************************************)
(* Memory access.  Until the switch, frames are reached at their own       *)
(* address (phys_offset is 0), and the loader's new level-4 table keeps    *)
(* only entry 0 of the firmware's; nukleus reaches them at the offset it   *)
(* is told.                                                                *)
(***************************************************************************)
is_mapped(space, page, frame) ==
  page \in DOMAIN mapped[space] /\ mapped[space][page] = frame

accessible(frame) ==
  CASE pc = "bootloader_table" -> TRUE
    [] pc = "init_heap" ->
         is_mapped("kernel", containing(boot_info.physical_memory_offset) + frame, frame)
    [] OTHER -> frame < EntryPages

\* The table of a level on the way to a page; one of level 4 is the root.
table(page, level) ==
  <<level, CASE level = 4 -> 0
             [] level = 3 -> page \div EntryPages
             [] level = 2 -> page \div (FANOUT * FANOUT)
             [] level = 1 -> page \div FANOUT>>

\* The level whose table has the entry of a page, or of a huge page.
last_level(pages) == IF pages = 1 THEN 1 ELSE 2

\* create_next_table: the walk finds tables down to this level; a table it adds is empty.
found_level(space, page, pages) ==
  CHOOSE l \in last_level(pages) .. 4 :
    /\ \A m \in l .. 4 : table(page, m) \in DOMAIN tables[space]
    /\ l > last_level(pages) => table(page, l - 1) \notin DOMAIN tables[space]

\* PageAlreadyMapped, or ParentEntryHugePage.
page_taken(space, page, pages) ==
  \/ \E p \in page .. page + pages - 1 : p \in DOMAIN mapped[space]
  \/ pages > 1 /\ <<1, page \div FANOUT>> \in DOMAIN tables[space]

(***************************************************************************)
(* Mapper::map_to of a page (or a huge page of FANOUT pages).  own is 1 if *)
(* the loop body has just allocated the frame for the page, and writes     *)
(* says whether it has written to that frame.                              *)
(***************************************************************************)
map_to_outcome(space, page, pages, own, writes) ==
  LET found   == found_level(space, page, pages)
      n       == own + found - last_level(pages)
      touched == {supply[i] : i \in {j \in 1 .. n : j <= Len(supply) /\ (j > own \/ writes)}}
      walked  == {tables[space][table(page, l)] : l \in found .. 4}
  IN  IF Len(supply) < own THEN "no_frame"
      ELSE IF \E f \in touched \cup walked : ~accessible(f) THEN "fault"
      ELSE IF page_taken(space, page, pages) THEN "already_mapped"
      ELSE IF Len(supply) < n THEN "no_frame"
      ELSE None

\* f with the values of g added: f @@ g, of which the prover has no definition.
extended(f, g) == [x \in DOMAIN f \cup DOMAIN g |-> IF x \in DOMAIN f THEN f[x] ELSE g[x]]

map_to_effect(space, page, pages, frame, own) ==
  LET found == found_level(space, page, pages)
      last  == last_level(pages)
      new   == [t \in {table(page, l) : l \in last .. found - 1} |-> supply[own + found - t[1]]]
  IN  /\ mapped' = [mapped EXCEPT ![space] =
                      extended(@, [p \in page .. page + pages - 1 |-> frame + (p - page)])]
      /\ tables' = [tables EXCEPT ![space] = extended(@, new)]
      /\ supply' = SubSeq(supply, own + found - last + 1, Len(supply))

map_to(space, page, pages, frame, own, writes) ==
  /\ failure' = map_to_outcome(space, page, pages, own, writes)
  /\ IF failure' = None
       THEN map_to_effect(space, page, pages, frame, own)
       ELSE UNCHANGED <<tables, mapped, supply>>

At(step) == pc = step /\ failure = None

Goto(step) == pc' = step /\ loop' = 0

\* The end of an iteration of a loop of count iterations.
EndIteration(count, next) ==
  /\ IF failure' # None THEN UNCHANGED <<pc, loop>>
     ELSE IF loop + 1 < count THEN loop' = loop + 1 /\ UNCHANGED pc
     ELSE Goto(next)
  /\ UNCHANGED <<machine, entry_state, at, gdtr, boot_info>>

-----------------------------------------------------------------------------
(***************************************************************************)
(* create_page_tables: a level-4 table for the loader, filled while the    *)
(* firmware's is still active, and one for the kernel.  Once CR3 is        *)
(* written the loader's own code and data must still be mapped.            *)
(***************************************************************************)
loader_frames == {machine.code} \cup machine.data

NewLevel4Table(space, next) ==
  /\ failure' = IF supply = <<>> THEN "no_frame"
                ELSE IF ~accessible(Head(supply)) THEN "fault"
                ELSE IF space = "bootloader" /\ \E f \in loader_frames : f >= EntryPages THEN "fault"
                ELSE None
  /\ IF failure' = None
       THEN /\ tables' = [tables EXCEPT ![space] = [t \in {<<4, 0>>} |-> Head(supply)]]
            /\ supply' = Tail(supply)
            /\ Goto(next)
       ELSE UNCHANGED <<tables, supply, pc, loop>>
  /\ UNCHANGED <<machine, mapped, entry_state, at, gdtr, boot_info>>

CreateBootloaderTable == At("bootloader_table") /\ NewLevel4Table("bootloader", "kernel_table")

CreateKernelTable == At("kernel_table") /\ NewLevel4Table("kernel", "kernel")

(***************************************************************************)
(* mapping_addr: level-4 entries of its own for everything placed.         *)
(***************************************************************************)
place_KeepsEntries(thing, size, next) ==
  /\ IF has_free_entries(entry_state, level_4_entries(size))
       THEN /\ at' = [at EXCEPT ![thing] = get_free_address(entry_state, size)]
            /\ UNCHANGED entry_state
            /\ failure' = None /\ Goto(next)
       ELSE failure' = "no_entries" /\ UNCHANGED <<at, entry_state, pc, loop>>
  /\ UNCHANGED <<machine, supply, tables, mapped, gdtr, boot_info>>

place(thing, size, next) ==
  /\ IF has_free_entries(entry_state, level_4_entries(size))
       THEN /\ at' = [at EXCEPT ![thing] = get_free_address(entry_state, size)]
            /\ entry_state' = take(entry_state, size)
            /\ failure' = None /\ Goto(next)
       ELSE failure' = "no_entries" /\ UNCHANGED <<at, entry_state, pc, loop>>
  /\ UNCHANGED <<machine, supply, tables, mapped, gdtr, boot_info>>

\* An optional thing that is absent.
Skip(next) ==
  Goto(next) /\ UNCHANGED <<machine, supply, tables, mapped, entry_state, at, gdtr, boot_info, failure>>

(***************************************************************************)
(* load_kernel, of which module KernelLoader has the details: the headers  *)
(* are read from the file, where the firmware put it; the entries of a     *)
(* fixed-address kernel are marked, a position-independent one is placed;  *)
(* then the pages of the image are mapped in ascending order.  A page that *)
(* two segments share is refused.                                          *)
(***************************************************************************)
image_offset == IF Kernel.fixed THEN 0 ELSE at["kernel"] - min_addr(Kernel.segments)

HeadersUnreadable ==
  /\ At("kernel") /\ ~accessible(Kernel.file)
  /\ failure' = "fault"
  /\ UNCHANGED <<machine, pc, loop, supply, tables, mapped, entry_state, at, gdtr, boot_info>>

PlaceExecutable ==
  /\ At("kernel") /\ accessible(Kernel.file) /\ Kernel.fixed
  /\ at' = [at EXCEPT !["kernel"] = min_addr(Kernel.segments)]
  /\ entry_state' = mark_segments(entry_state, Kernel.segments, 0)
  /\ Goto("map_kernel")
  /\ UNCHANGED <<machine, supply, tables, mapped, gdtr, boot_info, failure>>

PlaceSharedObject ==
  /\ At("kernel") /\ accessible(Kernel.file) /\ ~Kernel.fixed
  /\ LET low  == min_addr(Kernel.segments)
         size == max_addr(Kernel.segments) - low
         addr == get_free_address(entry_state, size)
     IN  IF has_free_entries(entry_state, level_4_entries(size))
           THEN /\ at' = [at EXCEPT !["kernel"] = addr]
                /\ entry_state' = mark_segments(take(entry_state, size), Kernel.segments, addr - low)
                /\ Goto("map_kernel") /\ UNCHANGED failure
           ELSE failure' = "no_entries" /\ UNCHANGED <<at, entry_state, pc, loop>>
  /\ UNCHANGED <<machine, supply, tables, mapped, gdtr, boot_info>>

segment_pages(s) == pages_of(image_offset + s.virtual_addr, s.mem_size)

kernel_pages == UNION {segment_pages(s) : s \in Kernel.segments}

shared_pages ==
  {p \in kernel_pages : \E s, t \in Kernel.segments : s # t /\ p \in segment_pages(s) \cap segment_pages(t)}

unmapped_kernel_pages == kernel_pages \ DOMAIN mapped["kernel"]

kernel_page == CHOOSE p \in unmapped_kernel_pages : \A q \in unmapped_kernel_pages : p <= q

image_page == kernel_page - containing(at["kernel"])

own_frames == IF image_page \in Kernel.own THEN 1 ELSE 0

\* Where the mapping itself would succeed: a page mapped before, or bytes of the file out of reach.
refusal ==
  IF map_to_outcome("kernel", kernel_page, 1, own_frames, own_frames = 1) # None THEN None
  ELSE IF kernel_page \in shared_pages THEN "already_mapped"
  ELSE IF image_page \in Kernel.read /\ ~accessible(Kernel.file + image_page) THEN "fault"
  ELSE None

RefuseKernelPage ==
  /\ At("map_kernel") /\ refusal # None
  /\ failure' = refusal
  /\ UNCHANGED <<machine, pc, loop, supply, tables, mapped, entry_state, at, gdtr, boot_info>>

MapKernelPage ==
  /\ At("map_kernel") /\ refusal = None
  /\ map_to("kernel", kernel_page, 1, IF own_frames = 1 THEN Head(supply) ELSE Kernel.file + image_page,
            own_frames, own_frames = 1)
  /\ IF failure' = None /\ unmapped_kernel_pages \subseteq DOMAIN mapped'["kernel"]
       THEN Goto("stack") ELSE UNCHANGED <<pc, loop>>
  /\ UNCHANGED <<machine, entry_state, at, gdtr, boot_info>>

(***************************************************************************)
(* The stack, above a guard page that stays unmapped.                      *)
(***************************************************************************)
stack_start == at["stack"] + PAGE_SIZE
stack_top == stack_start + STACK_SIZE

PlaceStack == At("stack") /\ place("stack", PAGE_SIZE + STACK_SIZE, "map_stack")

MapStackPage ==
  /\ At("map_stack")
  /\ map_to("kernel", containing(stack_start) + loop, 1, Head(supply), 1, FALSE)
  /\ EndIteration(containing(stack_top - 1) - containing(stack_start) + 1, "identity_map")

(***************************************************************************)
(* The two pages that hold context_switch, and the GDT, are mapped to      *)
(* themselves: the GDT after it has been written and loaded.               *)
(***************************************************************************)
IdentityMapCode_OnePage ==
  /\ At("identity_map")
  /\ map_to("kernel", machine.code + loop, 1, machine.code + loop, 0, FALSE)
  /\ EndIteration(1, "gdt")

IdentityMapCode ==
  /\ At("identity_map")
  /\ map_to("kernel", machine.code + loop, 1, machine.code + loop, 0, FALSE)
  /\ EndIteration(2, "gdt")

create_and_load_Peeks ==
  /\ At("gdt")
  /\ failure' = IF supply = <<>> THEN "no_frame"
                ELSE IF ~accessible(Head(supply)) THEN "fault" ELSE None
  /\ IF failure' = None
       THEN gdtr' = Head(supply) /\ UNCHANGED supply /\ Goto("map_gdt")
       ELSE UNCHANGED <<gdtr, supply, pc, loop>>
  /\ UNCHANGED <<machine, tables, mapped, entry_state, at, boot_info>>

create_and_load ==
  /\ At("gdt")
  /\ failure' = IF supply = <<>> THEN "no_frame"
                ELSE IF ~accessible(Head(supply)) THEN "fault" ELSE None
  /\ IF failure' = None
       THEN gdtr' = Head(supply) /\ supply' = Tail(supply) /\ Goto("map_gdt")
       ELSE UNCHANGED <<gdtr, supply, pc, loop>>
  /\ UNCHANGED <<machine, tables, mapped, entry_state, at, boot_info>>

MapGdt ==
  /\ At("map_gdt")
  /\ map_to("kernel", gdtr, 1, gdtr, 0, FALSE)
  /\ EndIteration(1, "framebuffer")

(***************************************************************************)
(* The framebuffer: as many entries as byte_len needs, then every frame    *)
(* from the one with its first byte to the one with its last byte.         *)
(***************************************************************************)
framebuffer_frames == pages_of(Framebuffer.addr, Framebuffer.byte_len)

PlaceFramebuffer ==
  At("framebuffer") /\ Framebuffer # None
    /\ place("framebuffer", Framebuffer.byte_len, "map_framebuffer")

NoFramebuffer == At("framebuffer") /\ Framebuffer = None /\ Skip("ramdisk")

MapFramebufferPage ==
  /\ At("map_framebuffer")
  /\ map_to("kernel", containing(at["framebuffer"]) + loop, 1,
            containing(Framebuffer.addr) + loop, 0, FALSE)
  /\ EndIteration(Cardinality(framebuffer_frames), "ramdisk")

ramdisk_page_count == (Ramdisk.len - 1) \div PAGE_SIZE

PlaceRamdisk ==
  At("ramdisk") /\ Ramdisk # None /\ place("ramdisk", Ramdisk.len, "map_ramdisk")

NoRamdisk == At("ramdisk") /\ Ramdisk = None /\ Skip("physical_memory")

MapRamdiskPage ==
  /\ At("map_ramdisk")
  /\ map_to("kernel", containing(at["ramdisk"]) + loop, 1, containing(Ramdisk.addr) + loop, 0, FALSE)
  /\ EndIteration(ramdisk_page_count + 1, "physical_memory")

(***************************************************************************)
(* All physical memory at an offset, in huge pages, from frame 0 to the    *)
(* huge frame with the last byte.                                          *)
(***************************************************************************)
huge_frames_RoundsDown == Memory.max_phys \div (PAGE_SIZE * FANOUT)

huge_frames == (Memory.max_phys - 1) \div (PAGE_SIZE * FANOUT) + 1

PlacePhysicalMemory ==
  At("physical_memory") /\ place("physical_memory", Memory.max_phys, "map_physical_memory")

MapPhysicalMemoryPage ==
  /\ At("map_physical_memory")
  /\ map_to("kernel", containing(at["physical_memory"]) + FANOUT * loop, FANOUT, FANOUT * loop, 0, FALSE)
  /\ EndIteration(huge_frames, "boot_info")

(***************************************************************************)
(* create_boot_info: BootInfo and room for the memory regions behind it,   *)
(* mapped to the same frames in the kernel's address space and then in the *)
(* loader's, through which they are written.                               *)
(***************************************************************************)
boot_info_size == BOOT_INFO_SIZE + (machine.descriptors + 4) * REGION_SIZE

boot_info_page == containing(at["boot_info"]) + loop

PlaceBootInfo == At("boot_info") /\ place("boot_info", boot_info_size, "map_boot_info")

MapBootInfoKernel ==
  /\ At("map_boot_info")
  /\ map_to("kernel", boot_info_page, 1, Head(supply), 1, FALSE)
  /\ pc' = IF failure' = None THEN "map_boot_info_again" ELSE pc
  /\ UNCHANGED <<machine, loop, entry_state, at, gdtr, boot_info>>

MapBootInfoBootloader ==
  /\ At("map_boot_info_again")
  /\ map_to("bootloader", boot_info_page, 1, mapped["kernel"][boot_info_page], 0, FALSE)
  /\ IF failure' # None THEN UNCHANGED <<pc, loop>>
     ELSE IF boot_info_page < containing(at["boot_info"] + boot_info_size - 1)
       THEN pc' = "map_boot_info" /\ loop' = loop + 1
     ELSE Goto("write_boot_info")
  /\ UNCHANGED <<machine, entry_state, at, gdtr, boot_info>>

WriteBootInfo ==
  /\ At("write_boot_info")
  /\ IF pages_of(at["boot_info"], boot_info_size) \subseteq DOMAIN mapped["bootloader"]
       THEN /\ boot_info' = [framebuffer            |-> at["framebuffer"],
                             physical_memory_offset |-> at["physical_memory"],
                             ramdisk_address        |-> at["ramdisk"],
                             ramdisk_len            |-> IF Ramdisk = None THEN 0 ELSE Ramdisk.len]
            /\ Goto("switch") /\ UNCHANGED failure
       ELSE failure' = "fault" /\ UNCHANGED <<boot_info, pc, loop>>
  /\ UNCHANGED <<machine, supply, tables, mapped, entry_state, at, gdtr>>

(***************************************************************************)
(* context_switch: CR3 is written, then the code goes on at its own        *)
(* address, pushes a word on the new stack and jumps to the entry point,   *)
(* where the GDT is used and BootInfo is read.                             *)
(***************************************************************************)
switch_faults ==
  \/ \E f \in {machine.code, machine.code + 1, gdtr} : ~is_mapped("kernel", f, f)
  \/ containing(stack_top - 1) \notin DOMAIN mapped["kernel"]
  \/ containing(image_offset + Kernel.entry_point) \notin DOMAIN mapped["kernel"]
  \/ ~(pages_of(at["boot_info"], boot_info_size) \subseteq DOMAIN mapped["kernel"])

context_switch ==
  /\ At("switch")
  /\ IF switch_faults
       THEN failure' = "fault" /\ UNCHANGED <<pc, loop>>
       ELSE Goto("kernel_main") /\ UNCHANGED failure
  /\ UNCHANGED <<machine, supply, tables, mapped, entry_state, at, gdtr, boot_info>>

(***************************************************************************)
(* nukleus: main wants a framebuffer, then init_heap allocates from the    *)
(* frames reported as usable and maps the heap at its fixed address.       *)
(***************************************************************************)
KernelMain ==
  /\ At("kernel_main")
  /\ IF boot_info.framebuffer = NoAddress
       THEN failure' = "no_framebuffer" /\ UNCHANGED <<pc, loop, supply>>
       ELSE /\ supply' = usable_after(Memory, Len(Memory.free) - Len(supply))
            /\ Goto("init_heap") /\ UNCHANGED failure
  /\ UNCHANGED <<machine, tables, mapped, entry_state, at, gdtr, boot_info>>

init_heap ==
  /\ At("init_heap")
  /\ map_to("kernel", containing(HEAP_START) + loop, 1, Head(supply), 1, FALSE)
  /\ EndIteration(Cardinality(pages_of(HEAP_START, HEAP_SIZE)), "running")

Next ==
  \/ CreateBootloaderTable \/ CreateKernelTable
  \/ HeadersUnreadable \/ PlaceExecutable \/ PlaceSharedObject \/ MapKernelPage \/ RefuseKernelPage
  \/ PlaceStack \/ MapStackPage \/ IdentityMapCode \/ create_and_load \/ MapGdt
  \/ PlaceFramebuffer \/ NoFramebuffer \/ MapFramebufferPage
  \/ PlaceRamdisk \/ NoRamdisk \/ MapRamdiskPage
  \/ PlacePhysicalMemory \/ MapPhysicalMemoryPage
  \/ PlaceBootInfo \/ MapBootInfoKernel \/ MapBootInfoBootloader \/ WriteBootInfo
  \/ context_switch \/ KernelMain \/ init_heap

Spec == Init /\ [][Next]_vars

-----------------------------------------------------------------------------

Steps ==
  {"bootloader_table", "kernel_table", "kernel", "map_kernel", "stack", "map_stack", "identity_map",
   "gdt", "map_gdt", "framebuffer", "map_framebuffer", "ramdisk", "map_ramdisk",
   "physical_memory", "map_physical_memory", "boot_info", "map_boot_info", "map_boot_info_again",
   "write_boot_info", "switch", "kernel_main", "init_heap", "running"}

Failures == {"no_frame", "no_entries", "already_mapped", "fault", "no_framebuffer"}

ASSUME NoneAssumption == None \notin Failures

TypeOK ==
  /\ WellFormed(machine)
  /\ pc \in Steps /\ loop \in Nat
  /\ supply \in Seq(Nat)
  /\ \A s \in Spaces :
       /\ \A t \in DOMAIN tables[s] : t \in (1 .. 4) \X Nat /\ tables[s][t] \in Nat
       /\ \A p \in DOMAIN mapped[s] : p \in 0 .. NumEntries * EntryPages - 1 /\ mapped[s][p] \in Nat
  /\ entry_state \in EntryState
  /\ at \in [Things -> Nat \cup {NoAddress}]
  /\ gdtr \in Nat \cup {NoAddress}
  /\ boot_info = None \/ pc \in {"switch", "kernel_main", "init_heap", "running"}
  /\ failure \in Failures \cup {None}

(***************************************************************************)
(* No frame serves two purposes: page tables of either address space, the  *)
(* GDT, the stack, BootInfo, the image's own pages and the heap never      *)
(* share a frame, and until the switch none of them is the frame of the    *)
(* code that runs.                                                         *)
(***************************************************************************)
KernelEntered == pc \in {"kernel_main", "init_heap", "running"}

PlacedPages(thing, addr, size) == IF at[thing] = NoAddress THEN {} ELSE pages_of(addr, size)

own_pages ==
  {p \in kernel_pages : p - containing(at["kernel"]) \in Kernel.own}
    \cup PlacedPages("stack", stack_start, STACK_SIZE)
    \cup PlacedPages("boot_info", at["boot_info"], boot_info_size)
    \cup (IF pc = "running" THEN pages_of(HEAP_START, HEAP_SIZE)
          ELSE IF pc = "init_heap" THEN {containing(HEAP_START) + i : i \in 0 .. loop - 1}
          ELSE {})

Users ==
  (UNION {{<<"table", s, t>> : t \in DOMAIN tables[s]} : s \in Spaces})
    \cup {<<"page", p>> : p \in own_pages \cap DOMAIN mapped["kernel"]}
    \cup {<<"gdt">> : g \in {gdtr} \ {NoAddress}}
    \cup {<<"code">> : c \in {pc} \ {"kernel_main", "init_heap", "running"}}

frame_of(u) ==
  CASE u[1] = "table" -> tables[u[2]][u[3]]
    [] u[1] = "page"  -> mapped["kernel"][u[2]]
    [] u[1] = "gdt"   -> gdtr
    [] u[1] = "code"  -> machine.code

FramesExclusive ==
  Cardinality({frame_of(u) : u \in Users}) = Cardinality(Users)

(***************************************************************************)
(* When the kernel is entered its address space holds what the code means  *)
(* to map and not a page more (in particular no guard page below the       *)
(* stack), and BootInfo can be trusted: it is the same memory in both      *)
(* address spaces; every byte of physical memory is found at the offset it *)
(* gives, every byte of the ramdisk at ramdisk_address and every byte of   *)
(* the framebuffer at its address, for a framebuffer that starts on a page *)
(* boundary: otherwise the bytes are shifted to the start of the page.     *)
(***************************************************************************)
ExpectedPages ==
  kernel_pages \cup pages_of(stack_start, STACK_SIZE) \cup {machine.code, machine.code + 1, gdtr}
    \cup PlacedPages("framebuffer", at["framebuffer"],
                     (Framebuffer.addr % PAGE_SIZE) + Framebuffer.byte_len)
    \cup PlacedPages("ramdisk", at["ramdisk"], Ramdisk.len)
    \cup pages_of(at["physical_memory"], huge_frames * FANOUT * PAGE_SIZE)
    \cup pages_of(at["boot_info"], boot_info_size)

\* The len bytes at a virtual address are the ones at a physical address.
Shows(virt, phys, len) ==
  \A j \in 0 .. len - 1 : is_mapped("kernel", containing(virt + j), containing(phys + j))

AddressSpaceTrue ==
  KernelEntered =>
    /\ DOMAIN mapped["kernel"] \subseteq ExpectedPages \cup pages_of(HEAP_START, HEAP_SIZE)
    /\ ExpectedPages \subseteq DOMAIN mapped["kernel"]
    /\ containing(at["stack"]) \notin DOMAIN mapped["kernel"]
    /\ \A p \in pages_of(at["boot_info"], boot_info_size) :
         is_mapped("bootloader", p, mapped["kernel"][p])
    /\ Shows(boot_info.physical_memory_offset, 0, Memory.max_phys)
    /\ Ramdisk = None <=> boot_info.ramdisk_address = NoAddress
    /\ Ramdisk # None => boot_info.ramdisk_len = Ramdisk.len
                          /\ Shows(boot_info.ramdisk_address, Ramdisk.addr, Ramdisk.len)
    /\ Framebuffer = None <=> boot_info.framebuffer = NoAddress
    /\ Framebuffer # None =>
         Shows(boot_info.framebuffer, Framebuffer.addr - (Framebuffer.addr % PAGE_SIZE), Framebuffer.byte_len)

(***************************************************************************)
(* The boot fails only for a reason: the loader faults only on a frame     *)
(* above the 512 GiB that its own level-4 entry 0 covers (its code or its  *)
(* data, a frame of the kernel file that it reads, a frame it was granted) *)
(* and the kernel never (the switch included); a mapping is refused only   *)
(* if two segments of the kernel share a page, if the frame the GDT was    *)
(* given is the page after context_switch, which is identity mapped        *)
(* already, or if the kernel, or something placed, occupies the entry of   *)
(* the heap; memory is short only when fewer frames are left than one      *)
(* mapping may need.                                                       *)
(***************************************************************************)
FailuresExplained ==
  /\ failure = "fault" =>
       /\ ~KernelEntered /\ pc # "switch"
       /\ \/ pc = "bootloader_table" /\ \E f \in loader_frames : f >= EntryPages
          \/ pc = "kernel" /\ Kernel.file >= EntryPages
          \/ pc = "map_kernel" /\ \E i \in Kernel.read : Kernel.file + i >= EntryPages
          \/ \E i \in 1 .. Len(supply) : i <= 4 /\ supply[i] >= EntryPages
  /\ failure = "already_mapped" =>
       \/ pc = "map_kernel" /\ shared_pages # {}
       \/ pc = "map_gdt" /\ gdtr = machine.code + 1
       \/ pc = "init_heap" /\ entry_state[p4_index(HEAP_START)]
  /\ failure = "no_frame" => Len(supply) < 4
  /\ failure = "no_framebuffer" => Framebuffer = None

(***************************************************************************)
(* Seen from the level-4 entries alone, the mapping code does what module  *)
(* VirtualLayout says, step by step.                                       *)
(***************************************************************************)
size_of(thing) ==
  CASE thing = "stack"           -> PAGE_SIZE + STACK_SIZE
    [] thing = "framebuffer"     -> Framebuffer.byte_len
    [] thing = "ramdisk"         -> Ramdisk.len
    [] thing = "physical_memory" -> Memory.max_phys
    [] thing = "boot_info"       -> boot_info_size

placed_entries ==
  [t \in Things |->
     IF at[t] = NoAddress THEN {}
     ELSE IF t = "kernel" THEN segment_entries(Kernel.segments, image_offset)
     ELSE entries_of(at[t], size_of(t))]

layout_stage ==
  CASE failure = "no_entries" -> "panicked"
    [] failure # "no_entries" /\ pc \in {"bootloader_table", "kernel_table", "kernel"} -> "kernel"
    [] failure # "no_entries" /\ pc \in {"map_kernel", "stack"} -> "stack"
    [] failure # "no_entries" /\ pc \in {"map_stack", "identity_map", "gdt", "map_gdt", "framebuffer"} -> "framebuffer"
    [] failure # "no_entries" /\ pc \in {"map_framebuffer", "ramdisk"} -> "ramdisk"
    [] failure # "no_entries" /\ pc \in {"map_ramdisk", "physical_memory"} -> "physical_memory"
    [] failure # "no_entries" /\ pc \in {"map_physical_memory", "boot_info"} -> "boot_info"
    [] OTHER -> "done"

FixedKernels == {m.kernel.segments : m \in {n \in Machines : n.kernel.fixed}}

RelocatableKernels == {m.kernel.segments : m \in {n \in Machines : ~n.kernel.fixed}}

MappedSizes ==
  {PAGE_SIZE + STACK_SIZE}
    \cup ({m.framebuffer.byte_len : m \in {n \in Machines : n.framebuffer # None}} \ {0})
    \cup {m.ramdisk.len : m \in {n \in Machines : n.ramdisk # None}}
    \cup {m.memory.max_phys : m \in Machines}
    \cup {BOOT_INFO_SIZE + (m.descriptors + 4) * REGION_SIZE : m \in Machines}

Layout == INSTANCE VirtualLayout WITH
  Executables <- FixedKernels, SharedObjects <- RelocatableKernels, Sizes <- MappedSizes,
  stage <- layout_stage, placed <- placed_entries

ImplementsLayout == Layout!Spec
=============================================================================
