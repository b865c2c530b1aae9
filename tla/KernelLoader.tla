---------------------------- MODULE KernelLoader ----------------------------
(***************************************************************************)
(* initium's ELF loader (initium/src/kernel.rs).  The kernel file lies in  *)
(* page-aligned physical memory; the loader maps its frames at the virtual *)
(* addresses of the Load segments, gives zero-initialised data fresh       *)
(* frames, applies the relocations, write-protects the RELRO segment.      *)
(* A page of the file that has to change is first copied to a fresh frame  *)
(* and marked with the page table flag COPIED.                             *)
(*                                                                         *)
(* Memory holds, for each byte, where its value comes from: the file, the  *)
(* zeroing of data, a relocated word, or nothing (junk).  One step is one  *)
(* program header of one of the four loops of load_segments, or one        *)
(* relocation.                                                             *)
(***************************************************************************)
EXTENDS Integers, Sequences, FiniteSets

CONSTANTS
  PAGE_SIZE,     \* 4096
  WORD_SIZE,     \* bytes of a relocated address: 8
  RELA_SIZE,     \* size_of::<Rela<u64>>(): 24
  U64,           \* 2^64: an addend is an integer below it
  FREE_ADDRESS,  \* what Entries::get_free_address returns (see VirtualLayout)
  Kernels        \* the ELF files that may be loaded, with the frames there are

ProgramHeader ==
  [type : {"Load", "Tls", "Dynamic", "GnuRelro"}, offset : Nat, virtual_addr : Nat,
   file_size : Nat, mem_size : Nat, align : Nat, w : BOOLEAN, x : BOOLEAN]

Rela == [type : {"Relative", "Symbol"}, offset : Nat, addend : Nat]

\* sane: whether header::sanity_check accepts the file header; rela_at: where in the file the
\* relocations are.
ElfFile ==
  [type : {"Executable", "SharedObject", "Other"}, sane : BOOLEAN, file_len : Nat, free_frames : Nat,
   headers : Seq(ProgramHeader), dynamic : Seq([tag : {"Rela", "RelaSize", "RelaEnt"}, val : Nat]),
   rela_at : Nat, relocs : Seq(Rela)]

ASSUME KernelsAssumption == Kernels \subseteq ElfFile

ASSUME SizesAssumption ==
  /\ PAGE_SIZE \in Nat \ {0}
  /\ WORD_SIZE \in 1 .. PAGE_SIZE
  /\ RELA_SIZE \in Nat \ {0}
  /\ U64 \in Nat
  /\ FREE_ADDRESS \in Nat
  /\ FREE_ADDRESS % PAGE_SIZE = 0

VARIABLES
  elf,     \* the kernel file: its headers, dynamic section and relocations
  inner,   \* Inner: page table, physical memory, frames used, and the outcome
  loop,    \* the loop of load_segments that runs, or "done"
  header,  \* the program header that loop takes next
  rela,    \* in "relocate": the table's address, its entries and the next one
  tls_template

vars == <<elf, inner, loop, header, rela, tls_template>>

FileByte(o)    == <<"file", o, 0>>
ZeroByte       == <<"zero", 0, 0>>
WordByte(v, k) == <<"word", v, k>>   \* byte k of the value v
Junk           == <<"junk", 0, 0>>

Offsets == 0 .. PAGE_SIZE - 1

page_of(addr) == addr \div PAGE_SIZE

pages_of(first, last) == page_of(first) .. page_of(last)

align_up(addr) == ((addr + PAGE_SIZE - 1) \div PAGE_SIZE) * PAGE_SIZE

Headers(type) == {i \in 1 .. Len(elf.headers) : elf.headers[i].type = type}

Loads == {elf.headers[i] : i \in Headers("Load")}

(***************************************************************************)
(* The file is at kernel_offset = 0: its frames are 0 .. FileFrames - 1,   *)
(* and the frame allocator hands out the elf.free_frames that follow.      *)
(***************************************************************************)
FileFrames == (elf.file_len + PAGE_SIZE - 1) \div PAGE_SIZE

Frames == 0 .. FileFrames + elf.free_frames - 1

FileImage(f) ==
  [o \in Offsets |-> IF f * PAGE_SIZE + o < elf.file_len THEN FileByte(f * PAGE_SIZE + o) ELSE Junk]

has_frames(in, n) == in.used + n <= elf.free_frames

next_frame(in) == FileFrames + in.used

fail(in, how) == [in EXCEPT !.result = how]

-----------------------------------------------------------------------------
(***************************************************************************)
(* Loader::new.                                                            *)
(***************************************************************************)
min_addr == CHOOSE a \in {h.virtual_addr : h \in Loads} : \A h \in Loads : a <= h.virtual_addr

virtual_address_offset ==
  IF elf.type = "SharedObject" /\ Loads # {} THEN FREE_ADDRESS - min_addr ELSE 0

virt(h) == virtual_address_offset + h.virtual_addr

\* xmas_elf: program::sanity_check, which asks for a header's own alignment and not for a page's.
sanity_check(h) ==
  /\ h.offset + h.file_size < elf.file_len
  /\ h.align > 1 => h.virtual_addr % h.align = h.offset % h.align

is_power_of_two(n) == \E k \in 0 .. n : n = 2 ^ k

\* Entries::get_free_address panics for an alignment it does not take and for a size of no entries.
get_free_address_panics ==
  \/ \E h \in Loads : ~is_power_of_two(h.align) /\ \A g \in Loads : g.align <= h.align
  \/ \A h, g \in Loads : h.virtual_addr + h.mem_size <= g.virtual_addr

new_result ==
  IF \E i \in 1 .. Len(elf.headers) : ~sanity_check(elf.headers[i]) THEN "err"
  ELSE IF elf.type = "Other" \/ (elf.type = "SharedObject" /\ get_free_address_panics) THEN "panic"
  ELSE IF ~elf.sane THEN "err"
  ELSE "ok"

(***************************************************************************)
(* Frames are mapped as a whole, so a segment is where it should be only   *)
(* if its address and its place in the file agree modulo a page.  Nothing  *)
(* checks that: a header's alignment may be less than a page, and a shared *)
(* object whose lowest segment does not begin on a page is moved by a part *)
(* of one.  Linkers see to it unless they are told to pack the segments.   *)
(***************************************************************************)
PageCongruent == \A h \in Loads : virt(h) % PAGE_SIZE = h.offset % PAGE_SIZE

Init ==
  /\ elf \in Kernels
  /\ inner = [page_table |-> [p \in {} |-> 0],
              memory |-> [f \in Frames |-> IF f < FileFrames THEN FileImage(f)
                                           ELSE [o \in Offsets |-> Junk]],
              used |-> 0,
              result |-> new_result]
  /\ loop = "load"
  /\ header = 1
  /\ rela = [table |-> 0, entries |-> 0, idx |-> 0]
  /\ tls_template = <<>>

-----------------------------------------------------------------------------
(***************************************************************************)
(* x86_64: map_to.  It fails if a page is mapped already or if there is no *)
(* frame for a page table; all pages of the kernel are under the same      *)
(* tables, three of which the first call allocates.  Page p is mapped to   *)
(* frame p + shift.                                                        *)
(***************************************************************************)
table_frames(in) == IF DOMAIN in.page_table = {} THEN 3 ELSE 0

mapped(in, pages) == pages \cap DOMAIN in.page_table

map_to(in, pages, shift, flags) ==
  [in EXCEPT !.page_table =
     [p \in DOMAIN @ \cup pages |->
        IF p \in pages THEN [frame |-> p + shift, writable |-> flags.w,
                             no_execute |-> ~flags.x, copied |-> FALSE]
                       ELSE @[p]]]

(***************************************************************************)
(* make_mut: a page the loader may write to.                               *)
(***************************************************************************)
copy_page_SameFrame(in, p) ==
  [in EXCEPT !.memory[next_frame(in)] = in.memory[in.page_table[p].frame],
             !.page_table[p] = [@ EXCEPT !.frame = next_frame(in), !.copied = TRUE]]

copy_page(in, p) ==
  [in EXCEPT !.memory[next_frame(in)] = in.memory[in.page_table[p].frame],
             !.page_table[p] = [@ EXCEPT !.frame = next_frame(in), !.copied = TRUE],
             !.used = @ + 1]

make_mut_Unchecked(in, p) ==
  IF p \notin DOMAIN in.page_table THEN fail(in, "panic")
  ELSE IF in.page_table[p].copied THEN in
  ELSE copy_page(in, p)

make_mut_AlwaysCopies(in, p) ==
  IF p \notin DOMAIN in.page_table \/ ~has_frames(in, 1) THEN fail(in, "panic")
  ELSE copy_page(in, p)

make_mut_InPlace(in, p) ==
  IF p \notin DOMAIN in.page_table THEN fail(in, "panic")
  ELSE [in EXCEPT !.page_table[p].copied = TRUE]

make_mut(in, p) ==
  IF p \notin DOMAIN in.page_table THEN fail(in, "panic")
  ELSE IF in.page_table[p].copied THEN in
  ELSE IF ~has_frames(in, 1) THEN fail(in, "panic")
  ELSE copy_page(in, p)

\* Write bytes, a function from offsets, to page p.
write(in, p, bytes) ==
  LET mut == make_mut(in, p)
  IN  IF mut.result # "ok" THEN mut
      ELSE [mut EXCEPT !.memory[mut.page_table[p].frame] =
              [o \in Offsets |-> IF o \in DOMAIN bytes THEN bytes[o] ELSE @[o]]]

(***************************************************************************)
(* copy_to: a word may lie in two pages.                                   *)
(***************************************************************************)
word_bytes(p, addr, value) ==
  [o \in {o \in Offsets : p * PAGE_SIZE + o \in addr .. addr + WORD_SIZE - 1}
     |-> WordByte(value, p * PAGE_SIZE + o - addr)]

copy_to_FirstPage(in, addr, value) ==
  write(in, page_of(addr), word_bytes(page_of(addr), addr, value))

copy_to(in, addr, value) ==
  LET start_page == page_of(addr)
      end_page   == page_of(addr + WORD_SIZE - 1)
      started    == write(in, start_page, word_bytes(start_page, addr, value))
  IN  IF started.result # "ok" \/ start_page = end_page THEN started
      ELSE write(started, end_page, word_bytes(end_page, addr, value))

-----------------------------------------------------------------------------
(***************************************************************************)
(* handle_bss_section: the rest of the last page of file data is zeroed in *)
(* a copy of that page; the pages after it are fresh frames.  The loop     *)
(* over those stops at the first page that is mapped already.              *)
(***************************************************************************)
zero_start(h) == virt(h) + h.file_size

bss_pages_FromTail(h) == pages_of(zero_start(h), virt(h) + h.mem_size - 1)

bss_pages(h) == pages_of(align_up(zero_start(h)), virt(h) + h.mem_size - 1)

clear_tail(in, h) ==
  IF zero_start(h) % PAGE_SIZE = 0 THEN in
  ELSE write(in, page_of(zero_start(h) - 1),
             [o \in zero_start(h) % PAGE_SIZE .. PAGE_SIZE - 1 |-> ZeroByte])

map_zeroed(in, h) ==
  LET pages   == bss_pages(h)
      taken   == mapped(in, pages)
      reached == {p \in pages : \A q \in taken : p <= q}
      first   == next_frame(in) + table_frames(in)
      fresh   == first .. first + Cardinality(pages) - 1
      zeroed  == [in EXCEPT !.memory = [f \in DOMAIN @ |-> IF f \in fresh
                                                             THEN [o \in Offsets |-> ZeroByte]
                                                             ELSE @[f]],
                            !.used = @ + table_frames(in) + Cardinality(pages)]
  IN  IF pages = {} THEN in
      ELSE IF ~has_frames(in, 1) THEN fail(in, "panic")
      ELSE IF ~has_frames(in, 1 + table_frames(in)) THEN fail(in, "err")
      ELSE IF ~has_frames(in, Cardinality(reached) + table_frames(in)) THEN fail(in, "panic")
      ELSE IF taken # {} THEN fail(in, "err")
      ELSE map_to(zeroed, pages, first - page_of(align_up(zero_start(h))), h)

handle_bss_section(in, h) ==
  LET cleared == clear_tail(in, h)
  IN  IF cleared.result = "ok" THEN map_zeroed(cleared, h) ELSE cleared

(***************************************************************************)
(* handle_load_segment: the file's frames are mapped in place.             *)
(***************************************************************************)
file_shift(h) == page_of(virt(h)) - page_of(h.offset)

file_pages(h) == {f + file_shift(h) : f \in pages_of(h.offset, h.offset + h.file_size - 1)}

handle_load_segment(in, h) ==
  LET tables == IF file_pages(h) = {} THEN 0 ELSE table_frames(in)
      file   == map_to([in EXCEPT !.used = @ + tables], file_pages(h), -file_shift(h), h)
  IN  IF mapped(in, file_pages(h)) # {} \/ ~has_frames(in, tables) THEN fail(in, "err")
      ELSE IF h.mem_size > h.file_size THEN handle_bss_section(file, h)
      ELSE file

-----------------------------------------------------------------------------
(***************************************************************************)
(* load_segments: four loops over the program headers, in this order.      *)
(***************************************************************************)
AtHeader(l, types) ==
  /\ inner.result = "ok"
  /\ loop = l
  /\ header <= Len(elf.headers)
  /\ elf.headers[header].type \in types

AtEnd(l) == inner.result = "ok" /\ loop = l /\ header > Len(elf.headers)

LoadSegment ==
  /\ AtHeader("load", {"Load"})
  /\ inner' = handle_load_segment(inner, elf.headers[header])
  /\ header' = header + 1
  /\ UNCHANGED <<elf, loop, rela, tls_template>>

TlsSegment ==
  /\ AtHeader("load", {"Tls"})
  /\ LET h == elf.headers[header]
     IN  IF tls_template = <<>>
           THEN /\ tls_template' = <<[start_address |-> virt(h), mem_size |-> h.mem_size,
                                      file_size |-> h.file_size]>>
                /\ UNCHANGED inner
           ELSE /\ inner' = fail(inner, "err")
                /\ UNCHANGED tls_template
  /\ header' = header + 1
  /\ UNCHANGED <<elf, loop, rela>>

\* A header of a type the running loop does not treat.
SkipHeader ==
  /\ \/ AtHeader("load", {"Dynamic", "GnuRelro"})
     \/ AtHeader("dynamic", {"Load", "Tls", "GnuRelro"})
     \/ AtHeader("relro", {"Load", "Tls", "Dynamic"})
  /\ header' = header + 1
  /\ UNCHANGED <<elf, inner, loop, rela, tls_template>>

NextLoop ==
  /\ \/ AtEnd("load") /\ loop' = "dynamic"
     \/ AtEnd("dynamic") /\ loop' = "relro"
  /\ header' = 1
  /\ UNCHANGED <<elf, inner, rela, tls_template>>

-----------------------------------------------------------------------------
(***************************************************************************)
(* handle_dynamic_segment: where the relocation table is.                  *)
(***************************************************************************)
tagged(tag) == {i \in 1 .. Len(elf.dynamic) : elf.dynamic[i].tag = tag}

value_of(tag) == elf.dynamic[CHOOSE i \in tagged(tag) : TRUE].val

dynamic_result ==
  CASE \E tag \in {"Rela", "RelaSize", "RelaEnt"} : Cardinality(tagged(tag)) > 1 -> "err"
    [] \A tag \in {"Rela", "RelaSize", "RelaEnt"} : tagged(tag) = {} -> "ok"
    [] OTHER -> IF \E tag \in {"Rela", "RelaSize", "RelaEnt"} : tagged(tag) = {} THEN "err"
                ELSE IF value_of("RelaEnt") # RELA_SIZE THEN "panic"
                ELSE "ok"

num_entries == value_of("RelaSize") \div value_of("RelaEnt")

DynamicSegment ==
  /\ AtHeader("dynamic", {"Dynamic"})
  /\ inner' = [inner EXCEPT !.result = dynamic_result]
  /\ IF dynamic_result = "ok" /\ tagged("Rela") # {}
       THEN /\ rela' = [table |-> value_of("Rela"), entries |-> num_entries, idx |-> 0]
            /\ loop' = "relocate"
            /\ UNCHANGED header
       ELSE /\ header' = header + 1
            /\ UNCHANGED <<rela, loop>>
  /\ UNCHANGED <<elf, tls_template>>

(***************************************************************************)
(* read_relocation and apply_relocation.  The table is read through the    *)
(* page table, so what is read may be something else than the file's       *)
(* entry: then the outcome is "garbage", and no more is said of the run.   *)
(***************************************************************************)
byte_at(in, addr) == in.memory[in.page_table[page_of(addr)].frame][addr % PAGE_SIZE]

read_relocation(in, table, idx) ==
  LET addr == virtual_address_offset + table + RELA_SIZE * idx
  IN  IF ~ pages_of(addr, addr + RELA_SIZE - 1) \subseteq DOMAIN in.page_table THEN "panic"
      ELSE IF /\ idx < Len(elf.relocs)
              /\ \A k \in 0 .. RELA_SIZE - 1 :
                   byte_at(in, addr + k) = FileByte(elf.rela_at + RELA_SIZE * idx + k)
           THEN "ok" ELSE "garbage"

check_is_in_load(o) == \E h \in Loads : o \in h.virtual_addr .. h.virtual_addr + h.mem_size - 1

apply_relocation(in, r) ==
  IF r.type # "Relative" THEN fail(in, "panic")
  ELSE IF ~ check_is_in_load(r.offset) THEN fail(in, "err")
  ELSE IF virtual_address_offset + r.addend \notin 0 .. U64 - 1 THEN fail(in, "panic")
  ELSE copy_to(in, virtual_address_offset + r.offset, virtual_address_offset + r.addend)

Relocate ==
  /\ inner.result = "ok"
  /\ loop = "relocate"
  /\ rela.idx < rela.entries
  /\ LET read == read_relocation(inner, rela.table, rela.idx)
     IN  inner' = IF read = "ok" THEN apply_relocation(inner, elf.relocs[rela.idx + 1])
                                 ELSE fail(inner, read)
  /\ rela' = [rela EXCEPT !.idx = @ + 1]
  /\ UNCHANGED <<elf, loop, header, tls_template>>

Relocated ==
  /\ inner.result = "ok"
  /\ loop = "relocate"
  /\ rela.idx = rela.entries
  /\ loop' = "dynamic"
  /\ header' = header + 1
  /\ UNCHANGED <<elf, inner, rela, tls_template>>

-----------------------------------------------------------------------------
(***************************************************************************)
(* handle_relro_segment and remove_copied_flags.                           *)
(***************************************************************************)
mem_pages(h) == pages_of(virt(h), virt(h) + h.mem_size - 1)

relro_pages_LastDropped(h) == pages_of(virt(h), virt(h) + h.mem_size - 1 - PAGE_SIZE)

relro_pages(h) == mem_pages(h)

handle_relro_segment(in, h) ==
  IF ~ relro_pages(h) \subseteq DOMAIN in.page_table THEN fail(in, "panic")
  ELSE [in EXCEPT !.page_table =
          [p \in DOMAIN in.page_table |-> [in.page_table[p] EXCEPT !.writable = @ /\ p \notin relro_pages(h)]]]

RelroSegment ==
  /\ AtHeader("relro", {"GnuRelro"})
  /\ inner' = handle_relro_segment(inner, elf.headers[header])
  /\ header' = header + 1
  /\ UNCHANGED <<elf, loop, rela, tls_template>>

remove_copied_flags(in) ==
  LET pages == UNION {mem_pages(h) : h \in Loads}
  IN  IF ~ pages \subseteq DOMAIN in.page_table THEN fail(in, "panic")
      ELSE [in EXCEPT !.page_table =
              [p \in DOMAIN in.page_table |-> [in.page_table[p] EXCEPT !.copied = @ /\ p \notin pages]]]

Finish ==
  /\ AtEnd("relro")
  /\ inner' = remove_copied_flags(inner)
  /\ loop' = "done"
  /\ UNCHANGED <<elf, header, rela, tls_template>>

Next ==
  \/ LoadSegment
  \/ TlsSegment
  \/ SkipHeader
  \/ NextLoop
  \/ DynamicSegment
  \/ Relocate
  \/ Relocated
  \/ RelroSegment
  \/ Finish

Spec == Init /\ [][Next]_vars

-----------------------------------------------------------------------------
TypeOK ==
  /\ inner.used \in 0 .. elf.free_frames
  /\ inner.result \in {"ok", "err", "panic", "garbage"}
  /\ DOMAIN inner.memory = Frames
  /\ \A p \in DOMAIN inner.page_table : inner.page_table[p].frame \in Frames
  /\ loop \in {"load", "dynamic", "relocate", "relro", "done"}
  /\ header \in 1 .. Len(elf.headers) + 1
  /\ rela.idx \in 0 .. rela.entries
  /\ Len(tls_template) \in {0, 1}

(***************************************************************************)
(* The pages make_mut copies, and the frames a load with the first n       *)
(* relocations takes: page tables, zeroed pages, one copy per changed page.*)
(***************************************************************************)
TailPages ==
  {page_of(zero_start(h) - 1) : h \in {g \in Loads : /\ g.mem_size > g.file_size
                                                     /\ zero_start(g) % PAGE_SIZE # 0}}

WordPages(r) == pages_of(virtual_address_offset + r.offset,
                         virtual_address_offset + r.offset + WORD_SIZE - 1)

ZeroedPages == UNION {bss_pages(h) : h \in {g \in Loads : g.mem_size > g.file_size}}

FramesNeeded(n) ==
  LET copied == TailPages \cup UNION {WordPages(elf.relocs[i]) : i \in 1 .. n}
      tables == IF ZeroedPages \cup UNION {file_pages(h) : h \in Loads} = {} THEN 0 ELSE 3
  IN  tables + Cardinality(ZeroedPages) + Cardinality(copied)

\* A kernel file as a linker writes it.
WellFormed ==
  LET word(r)  == r.offset .. r.offset + WORD_SIZE - 1
      table(h) == h.virtual_addr - h.offset + elf.rela_at ..
                  h.virtual_addr - h.offset + elf.rela_at + RELA_SIZE * Len(elf.relocs) - 1
      file(h)  == h.virtual_addr .. h.virtual_addr + h.file_size - 1
      mem(h)   == h.virtual_addr .. h.virtual_addr + h.mem_size - 1
  IN  /\ elf.type # "Other" /\ elf.sane
      /\ \A i \in 1 .. Len(elf.headers) : sanity_check(elf.headers[i])
      /\ Loads # {} /\ \A h \in Loads : is_power_of_two(h.align)
      /\ PageCongruent
      /\ \A h \in Loads : h.file_size <= h.mem_size /\ h.mem_size > 0
      /\ \A i, j \in Headers("Load") :
           i # j => mem_pages(elf.headers[i]) \cap mem_pages(elf.headers[j]) = {}
      /\ Cardinality(Headers("Tls")) <= 1
      /\ \A i \in Headers("GnuRelro") : \E h \in Loads : mem_pages(elf.headers[i]) \subseteq mem_pages(h)
      /\ \A i \in 1 .. Len(elf.relocs) :
           /\ elf.relocs[i].type = "Relative"
           /\ \E h \in Loads : word(elf.relocs[i]) \subseteq mem(h)
           /\ virtual_address_offset + elf.relocs[i].addend \in 0 .. U64 - 1
      /\ \/ elf.relocs = <<>> /\ elf.dynamic = <<>>
         \/ /\ \A tag \in {"Rela", "RelaSize", "RelaEnt"} : Cardinality(tagged(tag)) = 1
            /\ value_of("RelaEnt") = RELA_SIZE
            /\ value_of("RelaSize") = RELA_SIZE * Len(elf.relocs)
            /\ \E h \in Loads :
                 /\ value_of("Rela") = h.virtual_addr - h.offset + elf.rela_at
                 /\ table(h) \subseteq file(h)
                 /\ \A i \in 1 .. Len(elf.relocs) : word(elf.relocs[i]) \cap table(h) = {}

Loaded == loop = "done" /\ inner.result = "ok"

(***************************************************************************)
(* Whatever the loader does, the file it reads from stays as it is: every  *)
(* write goes to a copy made by make_mut or to a zeroed frame, although    *)
(* the pages are mapped to the file's own frames.  ElfFile borrows these   *)
(* bytes as an immutable slice for the whole load.                         *)
(***************************************************************************)
FileUntouched == \A f \in 0 .. FileFrames - 1 : inner.memory[f] = FileImage(f)

(***************************************************************************)
(* A frame taken from the frame allocator backs one page only, so a write  *)
(* through make_mut changes no other page.                                 *)
(***************************************************************************)
FramesOwned ==
  \A p, q \in DOMAIN inner.page_table :
    p # q /\ inner.page_table[p].frame >= FileFrames
      => inner.page_table[p].frame # inner.page_table[q].frame

(***************************************************************************)
(* Once load_segments has returned, each byte of each Load segment reads,  *)
(* through the page table, as the ELF file demands: the byte of the last   *)
(* relocated word over it, else the file's byte, else zero.  This is said  *)
(* of the files whose segments keep their place in a page (PageCongruent): *)
(* the loader accepts others too, and maps them shifted.                   *)
(***************************************************************************)
ImageCorrect ==
  LET over(a) == {i \in 1 .. rela.idx : a \in elf.relocs[i].offset .. elf.relocs[i].offset + WORD_SIZE - 1}
      last(S) == CHOOSE i \in S : \A j \in S : j <= i
      word(a) == LET r == elf.relocs[last(over(a))]
                 IN  WordByte(virtual_address_offset + r.addend, a - r.offset)
  IN  Loaded /\ PageCongruent => \A h \in Loads : \A k \in 0 .. h.mem_size - 1 :
        byte_at(inner, virt(h) + k) =
          IF over(h.virtual_addr + k) # {} THEN word(h.virtual_addr + k)
          ELSE IF k < h.file_size THEN FileByte(h.offset + k)
          ELSE ZeroByte

(***************************************************************************)
(* Once load_segments has returned, each page of a Load segment has the    *)
(* segment's permissions, is write-protected if any of it is RELRO, and    *)
(* keeps no COPIED mark, through every copy made on the way.  Again, the   *)
(* segments have to keep their place in a page.                            *)
(***************************************************************************)
ProtectionCorrect ==
  Loaded /\ PageCongruent => \A h \in Loads : \A p \in mem_pages(h) :
    LET relro == \E i \in Headers("GnuRelro") : p \in mem_pages(elf.headers[i])
    IN  /\ inner.page_table[p].no_execute = ~h.x
        /\ inner.page_table[p].writable = (h.w /\ ~relro)
        /\ ~inner.page_table[p].copied

(***************************************************************************)
(* A load takes no more frames than the image needs: a page that many      *)
(* relocations change is copied once.                                      *)
(***************************************************************************)
CopiedOnce == Loaded => inner.used = FramesNeeded(rela.idx)

(***************************************************************************)
(* A well-formed kernel for which there are enough frames never makes the  *)
(* loader fail, panic, or decode bytes that are no relocation.             *)
(***************************************************************************)
LoadSucceeds ==
  WellFormed /\ FramesNeeded(Len(elf.relocs)) <= elf.free_frames => inner.result = "ok"
=============================================================================
