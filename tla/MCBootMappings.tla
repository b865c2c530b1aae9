--------------------------- MODULE MCBootMappings ---------------------------
(***************************************************************************)
(* Machines with a few dozen frames, page tables of four entries and pages *)
(* of four bytes: a level-4 entry covers 64 pages.                         *)
(***************************************************************************)
EXTENDS BootMappings

CONSTANTS
  CodeFrames,      \* where context_switch may lie
  DescriptorCounts

\* Ascending frames of lo .. hi - 1 that are not in the set s.
FramesWithout(lo, hi, s) ==
  SelectSeq([i \in 1 .. hi - lo |-> lo + i - 1], LAMBDA f : f \notin s)

Segment(addr, size) == [virtual_addr |-> addr, mem_size |-> size]

\* The kernel file occupies frames 2 and 3, the ramdisk frames 4 to 6.
Kernels ==
  { [fixed |-> FALSE, segments |-> {Segment(0, 4)}, own |-> {}, read |-> {}, file |-> 2, entry_point |-> 1],
    [fixed |-> FALSE, segments |-> {Segment(2, 7), Segment(13, 250)},
     own |-> 2 .. 65, read |-> {0, 2}, file |-> 2, entry_point |-> 3],
    [fixed |-> FALSE, segments |-> {Segment(2, 7), Segment(13, 3)},
     own |-> {2, 3}, read |-> {2}, file |-> 2, entry_point |-> 3],
    \* Linked to the entry of the heap, and away from the heap's pages or over them.
    [fixed |-> TRUE, segments |-> {Segment(HEAP_START + 64, 8)},
     own |-> {1}, read |-> {1}, file |-> 2, entry_point |-> HEAP_START + 64],
    [fixed |-> TRUE, segments |-> {Segment(HEAP_START + 5, 8)},
     own |-> {1}, read |-> {1}, file |-> 2, entry_point |-> HEAP_START + 8],
    [fixed |-> TRUE, segments |-> {Segment(LEVEL_4_SIZE, 3), Segment(2 * LEVEL_4_SIZE - 2, 4)},
     own |-> {}, read |-> {}, file |-> 2, entry_point |-> LEVEL_4_SIZE],
    \* Linked so that few entries, or none, are left, or too large for any.
    [fixed |-> TRUE, segments |-> {Segment(i * LEVEL_4_SIZE, 1) : i \in {2, 3, 5, 7, 8}},
     own |-> {}, read |-> {}, file |-> 2, entry_point |-> 2 * LEVEL_4_SIZE],
    [fixed |-> TRUE, segments |-> {Segment(i * LEVEL_4_SIZE, 1) : i \in {4, 6, 7}},
     own |-> {}, read |-> {}, file |-> 2, entry_point |-> 4 * LEVEL_4_SIZE],
    [fixed |-> TRUE, segments |-> {Segment(i * LEVEL_4_SIZE, 1) : i \in 1 .. 9},
     own |-> {}, read |-> {}, file |-> 2, entry_point |-> 2 * LEVEL_4_SIZE],
    [fixed |-> FALSE, segments |-> {Segment(0, 9 * LEVEL_4_SIZE + 1)},
     own |-> {}, read |-> {}, file |-> 2, entry_point |-> 0] }

Device(addr, len) == [addr |-> addr, byte_len |-> len]

Framebuffers == {None, Device(400, 0), Device(400, 9), Device(402, 8), Device(41, 3)}

Ramdisks == {None, [addr |-> 16, len |-> 9], [addr |-> 16, len |-> 8]}

\* Where conventional memory lies: <<first frame, end of memory, frames in between in use>>.
Memories == { <<7, 8, {}>>, <<0, 28, {}>>, <<0, 38, {}>>, <<0, 61, {}>>,
    <<0, 75, 50 .. 72>>, <<7, 75, 9 .. 50>>, <<58, 90, {}>> }

MemoryMachine(memory, k, c, f, r, d) ==
  LET used == memory[3] \cup 2 .. 6 \cup {c}
  IN  [ memory      |-> [free     |-> FramesWithout(memory[1], memory[2], used \cup {0}),
                         max_phys |-> memory[2] * PAGE_SIZE,
                         in_use   |-> memory[3]],
        descriptors |-> d,
        code        |-> c,
        data        |-> {},
        kernel      |-> k,
        framebuffer |-> f,
        ramdisk     |-> r ]

\* The report keeps the kernel file back, but not the frames of the ramdisk.
UsableAfter(memory, k) ==
  FramesWithout(0, memory.max_phys \div PAGE_SIZE,
                memory.in_use \cup {2, 3} \cup {memory.free[i] : i \in 1 .. k})

\* A file that lies across the end of entry 0 or above it; segments that share a page.
HighFiles ==
  {MemoryMachine(<<7, 75, 62 .. 70>>, [k EXCEPT !.file = n, !.read = r], 21, Device(400, 9), None, 2) :
     k \in Kernels, n \in {62, 63, 64}, r \in {{}, {1}, {0, 2}}}

SharedPages ==
  {MemoryMachine(<<7, 75, {}>>,
     [fixed |-> t, segments |-> {Segment(LEVEL_4_SIZE + a, 7), Segment(LEVEL_4_SIZE + 10, 4), Segment(LEVEL_4_SIZE + 12, 1)},
      own |-> {}, read |-> {2}, file |-> 2, entry_point |-> LEVEL_4_SIZE + 12], 21, None, None, 2) :
     t \in BOOLEAN, a \in 0 .. 3}

\* A stack or a memory map of the loader on either side of that end.
HighData ==
  {[MemoryMachine(<<7, 61, {}>>, k, 21, Device(400, 9), None, 2) EXCEPT !.data = {5, f}] :
     k \in Kernels, f \in {63, 64}}

SomeMachines ==
  {MemoryMachine(m, k, c, f, r, d) :
     m \in Memories, k \in Kernels, c \in CodeFrames, f \in Framebuffers, r \in Ramdisks,
     d \in DescriptorCounts}
    \cup HighFiles \cup SharedPages \cup HighData
=============================================================================
