--------------------------- MODULE MCKernelLoader ---------------------------
(***************************************************************************)
(* Kernels of two Load segments with pages of 4 bytes.  The first is code  *)
(* and holds a table for two relocations that lies in two pages; the       *)
(* second is data that starts at DataOffsets in the file, so it may share  *)
(* a page of the file with the code, is DataSizes long and is followed by  *)
(* BssSizes of zeroes.                                                     *)
(***************************************************************************)
EXTENDS KernelLoader

CONSTANTS DataOffsets, DataSizes, BssSizes, FreeFrames

\* Segments to load are aligned to a page, as linkers do, and the others to a byte.
Header(type, offset, addr, file_size, mem_size, w, x) ==
  [type |-> type, offset |-> offset, virtual_addr |-> addr, file_size |-> file_size,
   mem_size |-> mem_size, align |-> IF type = "Load" THEN PAGE_SIZE ELSE 1, w |-> w, x |-> x]

Aligned(h, align) == [h EXCEPT !.align = align]

Code == Header("Load", 0, 4, 7, 7, FALSE, TRUE)

Data(o, size, bss) == Header("Load", o, 12 + (o % 4), size, size + bss, TRUE, FALSE)

DataSegments == {Data(o, s, b) : o \in DataOffsets, s \in DataSizes, b \in BssSizes}

Dynamic == Header("Dynamic", 0, 4, 1, 1, FALSE, FALSE)

Tls == Header("Tls", 2, 6, 1, 3, FALSE, FALSE)

Relro(d, size) == Header("GnuRelro", d.offset, d.virtual_addr, 1, size, FALSE, FALSE)

\* No RELRO segment, one of a byte, one of the whole data segment.
Relros(d) == {<<>>, <<Relro(d, 1)>>, <<Relro(d, d.mem_size)>>}

Reloc(o, addend) == [type |-> "Relative", offset |-> o, addend |-> addend]

Words(d) == d.virtual_addr .. d.virtual_addr + d.mem_size - WORD_SIZE

RelocLists(d) ==
  {<<>>} \cup {<<Reloc(o, 9)>> : o \in Words(d)}
         \cup {<<Reloc(o, 9), Reloc(u, 1)>> : o \in Words(d), u \in Words(d)}

Tag(tag, val) == [tag |-> tag, val |-> val]

Section(size, ent) == <<Tag("RelaEnt", ent), Tag("Rela", 5), Tag("RelaSize", size)>>

Elf(type, d, relro, relocs, free) ==
  [type |-> type, sane |-> TRUE, file_len |-> 16, free_frames |-> free,
   headers |-> relro \o <<Dynamic, Code, Tls, d>>,
   dynamic |-> Section(RELA_SIZE * Len(relocs), RELA_SIZE), rela_at |-> 1, relocs |-> relocs]

Linked(free) ==
  UNION {{Elf(t, d, r, l, f) : t \in {"Executable", "SharedObject"}, r \in Relros(d),
                               l \in RelocLists(d), f \in free} : d \in DataSegments}

(***************************************************************************)
(* Kernels the loader has to refuse, and kernels it accepts although no    *)
(* linker writes them: a damaged dynamic section, relocations it does not  *)
(* support, segments that overlap, lie outside the file or are packed      *)
(* without regard to pages, too few frames.                                *)
(***************************************************************************)
Sample(relocs) == Elf("SharedObject", Data(7, 2, 6), <<>>, relocs, 12)

Good == <<Reloc(15, 9), Reloc(20, 1)>>

DynamicSections ==
  LET tags == {Tag("Rela", 5), Tag("RelaSize", 6), Tag("RelaEnt", 3), Tag("RelaEnt", 4)}
  IN  UNION {[1 .. n -> tags] : n \in 0 .. 3}
        \cup {<<Tag("Rela", a), Tag("RelaSize", s), Tag("RelaEnt", 3)>> : a \in {4, 10, 40}, s \in {6, 9}}

BadRelocs ==
  {Reloc(15, U64 - 1), Reloc(40, 9), Reloc(5, 9), Reloc(8, 9), Reloc(22, 9),
   [type |-> "Symbol", offset |-> 15, addend |-> 9]}

HeaderLists ==
  LET d == Data(7, 2, 6)
  IN  {<<>>, <<Code, Code>>, <<Tls, Code, Tls>>, <<d, Header("Load", 0, 20, 1, 1, TRUE, FALSE)>>,
       <<Header("Load", 0, 16, 1, 1, TRUE, FALSE), d>>, <<Header("Load", 3, 7, 0, 3, TRUE, FALSE)>>,
       <<Header("Load", 4, 8, 0, 6, TRUE, FALSE), Code>>, <<Header("Load", 9, 9, 7, 7, TRUE, FALSE)>>,
       <<Header("Load", 1, 4, 2, 2, TRUE, FALSE)>>, <<Code, Relro(Code, 20)>>,
       <<Header("Load", 4, 8, 0, 6, TRUE, FALSE), Dynamic>>, <<Header("Load", 1, 5, 2, 2, TRUE, FALSE)>>}

\* Segments packed without regard to pages: the code accepts them, in place or shifted.
PackedLists ==
  {<<Aligned(Header("Load", o, a, s, s + b, TRUE, FALSE), n)>> :
     o \in {0, 1}, a \in {4, 5, 6}, s \in {2, 5}, b \in {0, 4}, n \in {0, 1, 2, 3}}
    \cup {<<Code, Aligned(Header("Load", o, 14, 4, 4 + b, TRUE, FALSE), n)>> :
            o \in {7, 8, 10}, b \in {0, 4}, n \in {1, 2, 8}}

Damaged ==
  {[Sample(Good) EXCEPT !.dynamic = s] : s \in DynamicSections}
    \cup {Sample(<<b, Reloc(15, 9)>>) : b \in BadRelocs}
    \cup {[Sample(Good) EXCEPT !.headers = hs, !.free_frames = f] : hs \in HeaderLists, f \in 0 .. 6}
    \cup {[Sample(Good) EXCEPT !.free_frames = f] : f \in 0 .. 8}
    \cup {[Sample(<<>>) EXCEPT !.type = t, !.headers = hs] : t \in {"Executable", "SharedObject"}, hs \in PackedLists}
    \cup {[Sample(Good) EXCEPT !.type = "Other"], [Sample(Good) EXCEPT !.sane = FALSE]}

AllKernels == Linked(FreeFrames) \cup Damaged
=============================================================================
