# L.I.F.E: a verification project for the boot path

L.I.F.E is an operating system in three crates and a host tool:

* **initium** (`src/initium`) is the UEFI boot loader. It reads the kernel file and
  a ramdisk, picks a display mode, leaves boot services, builds the kernel's page
  tables and jumps to the kernel.
* **nukleus** (`src/nukleus`) is the kernel. It sets up a heap from the memory that
  initium reports as free, then draws on the framebuffer.
* **synapse** (`src/synapse`) is the data both share: `BootInfo`, memory regions.
* **life** (`src/src`, `src/build.rs`) builds the disk image on the host.

There are no tests. A mistake in the boot path shows as a machine that hangs
(both panic handlers are `loop {}`) or, worse, as memory that two owners write to.
This project models that path, checks it with TLC and proves the core with TLAPS.

## 1. Inventory

| Part | State | Operations | Interacts with | Hard behaviour | Correct when |
|---|---|---|---|---|---|
| Frame allocator, `initium/src/memory.rs`, `descriptor.rs` | `original`, the iterator `memory_map`, `current_descriptor`, `next_frame` | `new`, `allocate_frame` | called by all paging code, also inside `map_to` | many calls over a forward-only iterator; descriptor ends; exhaustion | each conventional frame is granted once, `None` only when all are gone |
| Memory report, `construct_memory_map` | the region slice, `next_index` | one pass over the descriptors | consumes the allocator; its output is all nukleus knows of memory | splits at the allocator's position and around the kernel image; fixed capacity; two assertions | every byte reported once, with the right kind |
| nukleus memory, `nukleus/src/memory.rs`, `memory/allocator.rs` | `next` | `allocate_frame`, `init_heap` | reads the report | the only link to the loader's allocator is the report | no granted frame is in use |
| `Entries`, `initium/src/entries.rs` | `entry_state` | `mark_segments`, `get_free_entries`, `get_free_address` | the ELF loader, `set_up_mappings`, `create_boot_info` | sizes at entry boundaries; kernels linked anywhere | nothing placed overlaps |
| ELF loader, `initium/src/kernel.rs` | page table, frames, `tls_template` | load, TLS, dynamic and RELRO segments, relocation, copy on write | takes frames from the allocator and entries from `Entries` | pages start as the file's own frames and are copied when written; data that straddles pages | the image in memory is what the ELF file says |
| Mappings and switch, `initium/src/initium.rs`, `gdt.rs` | two page tables, `Mappings`, `BootInfo` | `set_up_mappings`, `create_boot_info`, `switch_to_kernel` | all of the above | identity-mapped pages that must survive the switch | the kernel finds everything where `BootInfo` says |
| Boot flow, `initium/src/main.rs` | firmware handles, files, mode | `load_file_from_disk`, `load_framebuffer`, `create_page_tables`, `main_inner` | firmware | order relative to `exit_boot_services`; empty files; mode order | files survive until used |
| Drawing, `nukleus/src/text_based_interface*` | the framebuffer | `draw_primitive` | `Framebuffer` of synapse | coordinates at the edge of the screen | every write is inside the buffer |
| Disk image, `src/src/*.rs` | file table, temporary files | `create_uefi_image` | host file system | sizes; failure between steps | an image contains every file |

The boot is sequential: one processor runs it from start to end and nothing
interrupts it. What is hard here is not concurrency but long sequences of
operations by components that never see each other's state: two allocators
connected by a report, six mappings connected by a bit array, four loops over
the program headers connected by one page table flag. Only the host tool has an
environment that acts on its own: it may be killed, and its input may change under
it. `PROJECT.json` lists the hazards, each at its line.

## 2. Modules

| Module | Models |
|---|---|
| `UefiMemoryMap` | the descriptors and the `LegacyMemoryRegion` trait (`descriptor.rs`), page arithmetic |
| `FrameSupply` | abstract: what the frame allocator promises |
| `LegacyFrameAllocator` | `allocate_frame`, step by step |
| `MemoryRegions` | `construct_memory_map`, one step per descriptor |
| `MemoryHandoff` | composition: `LegacyFrameAllocator` and `MemoryRegions` (by `INSTANCE`), then `NukleusFrameAllocator` and `init_heap` |
| `Entries` | the methods of `Entries`, as operators |
| `VirtualLayout` | who takes level-4 entries, in which order |
| `KernelLoader` | `Loader::new` and `load_segments` |
| `BootMappings` | `create_page_tables`, `set_up_mappings`, `create_boot_info`, `context_switch`, and `init_heap` in the new address space; implements `VirtualLayout` (by `INSTANCE`) |
| `BootFlow` | initium under the firmware: files, display mode, ACPI table |
| `FramebufferWriter` | the drawing loops of nukleus and the picture of its `main` |
| `DiskImage` | the host tool: FAT volume, GPT disk, emulator |
| `MC*` | instances for TLC: `MCMemoryMaps` enumerates memory maps and kernel images for three of them |
| `*Proofs` | theorems and lemmas |

Operators named `X_SomethingElse` in front of an operator `X` are mutants: `X` with
a plausible mistake. `PROJECT.json` names, for each property, a mutant that breaks it.

### State and actions

**LegacyFrameAllocator.** The variables are the fields of the struct. The iterator
is the index of the descriptor it yields next. `Call` enters `allocate_frame`;
`FromCurrent` and `LeaveCurrent` are the two outcomes of the attempt on the current
descriptor; `SkipDescriptor`, `FromNext`, `PassNext` and `ReturnNone` are what an
iteration of the `while let` loop can do. `allocated` is a history variable.

**MemoryRegions.** The inputs are variables that never change. `Iterate` is one
iteration of the `for` loop, including both assertions and the `expect` in
`add_region`; `pc` becomes `"panicked"` if one fails. A panic leaves `regions` as it
was: nobody reads it any more.

**MemoryHandoff.** `phase` says who runs. In `"initium"` the allocator takes steps
until it has granted between two and `LoaderFrames` frames, or panics on `None`.
Then the report is built, and `init_heap` asks for one frame per heap page and for
the three page tables that `map_to` creates under the unused level-4 entry of
`HEAP_START` (the order of these requests makes no difference to which frames are
granted). The items of `usable_frames` are named by a region and a place in it, and
`nth` picks the one with n items before it.

**VirtualLayout.** `placed` records the level-4 entries in which the bytes of each
thing lie, independently of `entry_state`, where the code reserves them.

**KernelLoader.** Memory holds for each byte where its value comes from: file offset,
zero, byte k of a relocated word, or junk. The file occupies the first frames, as
`load_file_from_disk` leaves it; frames of the allocator follow, in the order they are
granted (`FrameSupply` promises no more than that they are distinct and free). All
pages of the kernel are taken to be under the same lower page tables, three of
which the first `map_to` allocates. One step is one program header of one of the
loops, or one relocation. `inner.result` is `"ok"`, `"err"` (an `Err` reaches
`load_kernel`'s caller, which panics), `"panic"`, or `"garbage"` (bytes were decoded
as a relocation that are not one); after the last three no step is possible, so
what a failing handler has done halfway is left out. `new_result` is what `Loader::new`
returns: `xmas_elf`'s `sanity_check` of each program header (with the header's own
alignment, as the library does), the ELF types that are `unimplemented!()`, the panics of
`get_free_address` (an alignment that is no power of two, which only the ELF file can bring
about as all other callers pass constants; a size of no entries), and `header::sanity_check`.

**BootMappings.** Both address spaces are functions from pages to frames (`mapped`), with
the frames of their page tables (`tables`, by level and index). `map_to` is the library
call: it walks the four levels, takes a frame for each table that is missing, and
refuses a page that is mapped. A step is an iteration of one of the loops. Memory is
reached the way the code reaches it: while the firmware's tables are active
everywhere, then only below 512 GiB, because `create_page_tables` copies entry 0 alone,
and after the switch at `physical_memory_offset`; touching anything else is a `"fault"`.
What the ELF loader does to a page is abstracted to whether the page gets a frame of
its own, and whether its bytes are read from the kernel file, which happens at the file's
physical address: the headers first (`HeadersUnreadable`), then each page that is copied or
holds the dynamic section or relocations (`RefuseKernelPage`, also for a page that two
segments share; segments form a set, so two identical headers count once). The machine (free
frames, descriptors, kernel and where its file lies, framebuffer, ramdisk, where
`context_switch` and the data the loader runs on lie) is chosen in `Init`. Assumed of it: the loader's two code pages
do not straddle 512 GiB; a framebuffer leaves a page of its last entry free; the
ramdisk starts at a page and is not empty (`BootFlow` shows this); the kernel has Load
segments, none of them empty, its entry point lies in one, and an executable is linked
outside level-4 entry 0. Conventional memory is granted in ascending order (`FrameSupply`).
What nukleus allocates from is given by the constant operator `usable_after`, a function of the
memory and of how many frames initium took; of it only that is assumed which
`MemoryHandoff` shows: frames of the machine, each once, none that initium was granted.
Page flags and control registers are left out.

**BootFlow.** One step per firmware call, or per run of calls without a change of state between
them; each call can fail, the four that are unwrapped (`open_volume`, `into_type`, `get_info`,
`read`: `FileCalls`) with a panic of their own. Taken to succeed is `exit_boot_services`: the
library resets the machine if it fails. `opened` is the set of protocols held
exclusively, which scoped values close on return; `owner` says whose each page is.
The firmware (files, refused protocols, modes, memory, configuration table) is chosen
in `Init`; which free pages `allocate_pages` returns is chosen when it is called. The
page count of an empty file is computed modulo `UsizeRange`, as the code does.

**FramebufferWriter.** `buffer` holds every byte of the framebuffer. Coordinates are taken
modulo `USIZE` where they are cast or subtracted; `checked` says whether the build
panics instead. `draw_pixels` is `draw_pixel` for the up to four points of one iteration,
which have one colour, so their order makes no difference. Assumed: `byte_len` covers all
rows (UEFI), coordinates are small enough that `f32` is exact (below 2^24).

**DiskImage.** `pc` is the next operation on the host's file system; `HostFails` lets it fail,
as an `Err` or, where the code says `unwrap`, as a panic. `Kill` ends the tool without its
destructors, `RunAgain` starts it again on what is there, `Rebuild` replaces a source
file between runs or between measuring and copying. A destination is a path without
case, as FAT compares it, and its spelling, by which the `BTreeMap` keeps it apart;
`todo` is the set of destinations left, of which `AddFile` takes the first in the map's order.
What a FAT volume needs for itself is any number in `Overheads`. Sizes are the real
ones, in bytes. Errors that `fatfs` swallows when it flushes in a destructor, and the
volume label, are left out.

## 3. Runs

| Run | Shows | Bounds |
|---|---|---|
| `frame_allocator` | `ImplementsFrameSupply`, `NextFrameSeparates`, `IteratorInv`, `CallReturns` | all maps of up to 3 descriptors of 1 or 2 pages, with and without holes, conventional or not, frame 0 included |
| `memory_regions` | `ReportIsExact`, `NeverPanics` | the same maps with a third type; every reachable `next_frame`; every kernel image of whole or half pages inside a LOADER_DATA descriptor |
| `memory_handoff` | `GrantsAreFree`, `PanicsAreReal` | maps of up to 3 descriptors of 1 or 4 pages; 2 to 3 loader frames; a heap of 2 pages and 3 tables |
| `kernel_tail` | violation of `KernelImageKept`, see below | as `memory_handoff` |
| `virtual_layout` | `PlacesDisjoint`, `NoEntryWasted` | 8 entries of 4 bytes; kernels of 1 or 2 segments; sizes 1, 4, 5, 9 and a framebuffer of 0 |
| `kernel_loader` | `ImageCorrect`, `ProtectionCorrect`, `FileUntouched`, `FramesOwned`, `CopiedOnce`, `LoadSucceeds` | pages of 4 bytes, words of 2, relocation entries of 3; a code and a data segment that may share a page of the file; up to 2 relocations anywhere in data or `.bss`; RELRO of nothing, a byte, everything; segments packed with a small `p_align`; and damaged files |
| `boot_mappings` | `FramesExclusive`, `AddressSpaceTrue`, `FailuresExplained`, `ImplementsLayout` | pages of 4 bytes, page tables of 4 entries (a level-4 entry is 64 pages), 10 entries; 10 kernels, 7 memories of 1 to 90 frames, 4 places for the loader's code, 5 framebuffers, 3 ramdisks; kernel files and loader data on both sides of the end of entry 0, segments that share a page |
| `boot_flow` | `HandedOverIntact`, `SystemInfoTrue`, `ModeChosen` | 2 files, every protocol and file call refused for either, up to 3 modes in any order, a few pages |
| `framebuffer_writer` | `PictureCorrect`, `PanicsExplained`, `DrawingEnds` | screens of 1 to 5 by 1 to 4 pixels with and without padding, both pixel formats; `usize` of 64 values; the picture of `main` at about 1:50 and lines, disks and circles at and over every edge |
| `disk_image` (1.2 million states) | `BootsWholeImage`, `FailsCleanly`, `NoSpaceExplained` | up to 3 files on the volume, 2 runs, one source replaced per run |

Why these bounds are enough. Three descriptors are a predecessor, the descriptor at
hand and a successor; page counts of 1 and 2 make a first page that is also the
last, and one that is not. Half-page images hit every way an image's end can lie
relative to pages and regions, and reports are compared at each half page, so no
difference can hide. In `memory_handoff`, 4-page descriptors give memory for the
heap, 1-page descriptors make it run out. Eight level-4 entries make allocations
succeed, fail, and find a gap below a kernel that is too small. With 4-byte pages
a word, a relocation table, a data segment and `.bss` each begin and end at every
offset of a page and straddle pages. The damaged files reach every `Err` and panic
of the loader: duplicate or missing dynamic entries, wrong entry sizes, tables
outside the image or over what they relocate, unsupported types, odd alignments, overlapping
segments, two TLS segments, too few frames. With 64 pages to a level-4 entry, memory
and kernels reach beyond one entry, and 10 entries can be used up by a kernel linked
all over them; the seven memories make frames run out at nearly every step, put the
GDT's frame right behind `context_switch`, and put free frames above entry 0. Radii up to
twice the screen make circles and disks leave it on every side. File lengths make
the volume's slack exactly 64 KiB, or nearly a MiB; the destinations of `disk_image`
collide with the loader, and with directories, in either order.

TypeOK of each module is checked as well. Deadlock checking is off where the
program ends (the report is complete, the kernel loaded, a panic).

**Fairness.** `frame_allocator` and `framebuffer_writer` assume weak fairness of
the code's own next step. One processor executes the boot, nothing preempts it, and it takes
no lock; so a step that is possible is taken. Nothing else is assumed fair: in
`frame_allocator` callers need not call again.

**What the code does at its edges.** Some properties state what holds, and by that what does
not; no document of the repository promises otherwise. `FailuresExplained`: the boot
stops if the GDT's frame is the one after `context_switch` (it is identity-mapped twice),
if anything the loader touches lies above 512 GiB (a free frame it needs, its own code or data,
the kernel file where `AnyPages` put it), if two segments of the kernel share a page, or if a
kernel is linked into the level-4 entry of nukleus' heap. `AddressSpaceTrue`: a framebuffer that does not start on
a page is seen shifted. `SystemInfoTrue`: an ACPI 1 table is never found, since the second
search continues where the first one ended; an empty file stops the boot, and so does a file
call that the firmware refuses, also one for the optional ramdisk. `ModeChosen`:
the mode depends on the order in which the firmware lists modes. `PanicsExplained`: a
screen below 200 by 100 pixels stops a debug build. `BootsWholeImage`: a destination
that differs from another one in case only is replaced without an error. `ImageCorrect` and
`ProtectionCorrect`: the address a segment is loaded at and its place in the file have to agree
modulo a page (`PageCongruent`), because frames are mapped as a whole. Linkers see to it, but the
loader does not check it: `sanity_check` uses the header's own `p_align`, which is small when
segments are packed (`ld -n`, `-N`), and a shared object whose lowest segment does not begin on
a page is moved by a part of one. Such files are among those of the run; the loader accepts them
and maps them shifted. `NoEntryWasted`:
`Loader::new` counts empty segments when it measures a shared object, `mark_segments` does
not, so an empty segment at either end of the image reserves entries for nothing: the property
has `EndsNotEmpty` as its hypothesis.

**Finding (`kernel_tail`).** `construct_memory_map` cuts the kernel image out of the
Usable memory, using the file's length in bytes (`initium.rs:140`). If this is not a
multiple of the page size, the Usable region behind the image begins in the middle
of a page. nukleus turns region addresses into frames by rounding down
(`nukleus/src/memory.rs:28-30`) and so uses the frame that holds the end of the image.
initium maps the image's frames in place, so the end of the last file page of the
kernel (usually the end of `.data` or of a table that is not loaded) may be
overwritten by the heap or its page tables. `GrantsAreFree` states what does hold:
frames the image fills are kept.

## 4. Proofs

All theorems hold for every value of the constants, under the assumptions named in
the modules:

* `MapsWellFormed`, `InputsWellFormed`, `BootsWellFormed`: descriptors are page-aligned, not
  empty, sorted and disjoint, which UEFI and `memory_map.sort()` give; the image is not
  empty and begins at a page of one LOADER_DATA descriptor, where `load_file_from_disk`
  put it.
* `EntriesAssumption`, and in `VirtualLayout` `KernelsAssumption` (a kernel has Load segments,
  an executable is linked outside level-4 entry 0) and `SizesAssumption` (nothing placed is
  empty).
* In `KernelLoader`, only that the fields of an ELF file are numbers (`KernelsAssumption`),
  and that pages, words and table entries have a size and free level-4 entries begin at a
  page (`SizesAssumption`).
* `PagingAssumption`, `MachinesAssumption` and `ReportAssumption` of `BootMappings`: the sizes fit
  together, the heap begins inside a level-4 entry and ends in the same one (as `HEAP_START` and
  `HEAP_SIZE` of nukleus do), and the machine and the report are as described in section 2.
* `SizesAssumption` and `DestinationsAssumption` of `DiskImage`: lengths are numbers and a cluster
  has a size; the keys of the file table are distinct, and no other spelling of the loader's
  path comes after the one the tool uses (it is in lower case, whose letters come last; a trailing
  slash, which `fatfs` trims, would be such a spelling, but nothing in the repository passes one).
* `FlowAssumption` and `FirmwaresAssumption` of `BootFlow`: memory is finite and smaller than
  `usize` can count, the firmware's data have their types and it lists a current mode.
  `NoneAssumption` says that `None` is no value of the types it is an option of.

The theorems and their arguments:

* `LegacyFrameAllocatorProofs`: `TypeCorrect`, `NextFrameCorrect`, `IteratorCorrect`, and
  `AllocatorRefines`: the allocator implements `FrameSupply`. `NextFrameSeparates` is not
  inductive: that a frame below `next_frame` was granted depends on what the
  iterator has passed. `IteratorInv` adds this (only the descriptor yielded last can be
  current; every usable one left behind ends below `next_frame`), and the conjunction
  with `TypeOK` is inductive. The refinement then follows step by step: a grant is
  the least free frame because everything the iterator has not reached is above.
* `MemoryRegionsProofs`: `TypeCorrect`, `NoPanic`, `ReportCorrect`. The invariant adds a count
  of the regions written: one per descriptor, one more after the descriptor that
  `next_free` splits, two more after the one that contains the image. At most one
  descriptor does each, so `Len + 4` (in fact `Len + 3`) is enough; the assertions hold
  because a region that overlaps the image is the whole LOADER_DATA descriptor
  that contains it.
* `MemoryHandoffProofs`: `TypeCorrect`, `GrantsCorrect`, `PanicsCorrect`. The composition reuses the
  invariants of its two components: both proof modules are instantiated, their
  definitions are shown to be those of this module, and their `IInv` is carried from
  phase to phase (the report with every address of memory in `Addresses`). `GrantInv` adds
  that the n-th grant is the n-th item of `usable_frames`. Grants are free because the
  report is exact, and distinct because regions are in order and do not share a frame:
  only the kernel image, which begins at a page, can make a region begin inside one. For
  `PanicsCorrect` the items are counted: every frame that survives boot services and is
  neither granted nor part of the image is an item's frame.
* `VirtualLayoutProofs`: `TypeCorrect`, `LayoutDisjoint`, `NothingReservedInVain`. The invariant
  adds that whatever is placed is marked in `entry_state`, and that the kernel is placed
  first; for the last theorem, that nothing is placed before its stage. `NoEntryWasted` is about
  kernels whose outermost segments are not empty (`EndsNotEmpty`, see section 3).
* `BootMappingsProofs`: `MappingsFollowLayout`, the refinement of `VirtualLayout`, step by step:
  each action of the mapping code either takes the step of the layout that its `pc`
  stands for, or changes nothing the layout sees. `MappingsDisjoint` carries `LayoutDisjoint`
  over: `VirtualLayoutProofs` is instantiated with the refinement mapping, and the
  assumptions of `VirtualLayout` are proved of every machine (in particular no mapping is
  of size 0).
  * `MappingsTyped`, `FramesNeverShared`, `AddressSpaceHolds`, `FailuresAreExplained` rest on
    `BootInvariant`. None of the four is inductive. Its invariant `IInv` says at every step how
    far each mapping loop is (`Pages(s)`: the pages loop `s` has mapped so far), that these
    and the kernel's are exactly the pages mapped (`DomInv`) and what they show (`ShowInv`),
    where the page tables lie (`TableInv`), that `supply` is what is left of the granted
    frames (`SupplyInv`), and that no two users of frames share one, nor has one that is
    still to be granted (`UsersInv`); `LayoutInv` is the invariant of `VirtualLayout`, carried over.
  * A page is refused only if something mapped it before: another segment, or, by `DomInv`, a loop or the
    kernel, by `LayoutInv` their level-4 entries are disjoint, and what remains is what
    `FailuresExplained` lists: the two identity mappings in entry 0, and the heap's entry,
    which `Entries` does not reserve. A page covered by a huge page cannot be met, as the entries
    mapped in huge pages hold nothing else. A fault is traced to the frame being touched:
    it comes from the first four of `supply`, as one mapping takes at most four frames, or is one of
    the kernel file or of the loader itself.
  * `AddressSpaceTrue` then is the case of all loops done; each thing's pages cover its bytes by
    the arithmetic of page and entry boundaries.
* `BootFlowProofs`: `TypeCorrect`, `HandOverCorrect`, `SystemInfoCorrect`, `ModeCorrect`. The
  invariant says for every step which protocol is open, which file is being loaded and
  what has been loaded, whose every page is, and why the boot has panicked. For the
  display mode it holds what the loop over the modes knows after n of them (`LoopInv`).
* `DiskImageProofs`: `ImageTyped`, `EmulatorGetsWholeImage`, `FailuresAreClean`, `SlackSuffices`,
  from `ToolInvariant`, for every set of files, every place where the host fails or the tool is
  killed, and any number of runs. `IInv` says what the temporary file and the image are at each
  step, and of the volume (`Holds`) that each file on it belongs to a destination handled so
  far, that a destination handled so far has its file, and that the loader, once written,
  stays: destinations come in the map's order, and no later one has its path.
  * `SlackSuffices` needs a count: while no source was replaced, the clusters of the volume take
    at most the measured lengths of the files handled, and a cluster more for each of them and
    for each directory (`SlackInv`). The sums are the recursive function of the library's
    `SumFunction`. That it exists, is unique, and does not depend on the order of the
    terms is proved by the least size of a set for which it would not be so
    (`SumExists`, `SumUnique`, `SumTake`), without a rule of induction.
* `KernelLoaderProofs`: `TypeCorrect`, `FileKept`, `OneOwner`, for every ELF file, also a
  damaged one. Both properties depend on page table flags: a write is harmless
  because the page is marked COPIED, so the invariant `IInv` adds that a page
  marked so is not one of the file's frames, and that a mapped frame of the
  allocator has been taken (so the next one is new). Each operation on `Inner` keeps
  this (one lemma each, from `make_mut` up to `handle_load_segment`); that a segment's
  frames are frames of the file comes from `sanity_check`, which `Loader::new` runs.
  * `ImageIsCorrect` and `ProtectionIsCorrect` hold for every file the loader accepts whose segments
    keep their place in a page (`PageCongruent`, see section 3), however damaged otherwise.
    `ImageInv` says the same of the segments handled so far and the relocations
    applied so far. A write changes the byte it is meant for and no other,
    because a frame of the allocator has one page (`OneOwner`) and the file's frames are
    never written (`FileKept`).
  * `NoFrameWasted`: `CountInv` keeps account of the frames taken: the page tables, the zeroed
    pages, and the pages of the file that a tail or a relocation has changed.
  * `WellFormedLoads`: `SuccessInv` rules out, for a file as a linker writes it and with
    enough frames, each error, panic and misread relocation. It needs the three invariants
    above: the table is read through the page table being changed, and frames suffice
    only because none is wasted.

Only model-checked: the liveness properties `CallReturns` and `DrawingEnds` (the
prover has no rules for fairness), and the invariants of `FramebufferWriter`: what a line and a
circle cover (`PictureCorrect`) is a statement about all iterations of loops that stop only when
they meet their end, which TLC settles for every primitive near the small screens; `TypeOK`
and `PanicsExplained` of that module have not been proved either. The finding's `KernelImageKept` is
violated, and so has no proof.

## 5. Not modelled, and the plan

All parts with state are modelled, and every safety property is proved but those of
`FramebufferWriter`. There `PanicsExplained` comes first: the invariant is that every point drawn is
on the screen (`on_screen`), from which the index bound follows by the arithmetic of rows and
stride. What the drawing loops cover (`PictureCorrect`) and the liveness properties stay with TLC.

Left out for good: the firmware, `x86_64`, `xmas_elf`, `linked_list_allocator`, `fatfs` and `gpt`
(external; modelled from how they are called, where needed), the processor's control
registers, page flags outside the kernel image, the volume label, and the build script
(it runs cargo and keeps no state). Two tools that write the same `uefi.img` at once
are not modelled: cargo starts one at a time per build directory while it builds, and
nothing in the code guards against it otherwise. The ramdisk's frames are reported to
nukleus as usable; nukleus never reads the ramdisk and no document says who
owns it, so there is no property about it.
