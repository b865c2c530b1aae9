------------------------- MODULE KernelLoaderProofs -------------------------
(***************************************************************************)
(* Proofs about the ELF loader.  For every ELF file, well-formed or not:   *)
(* it never writes to the file it loads, every frame it takes backs one    *)
(* page, and an image it accepts has the right bytes and permissions and   *)
(* cost no frame too many.  A well-formed file is accepted.                *)
(***************************************************************************)
EXTENDS KernelLoader, FiniteSetTheorems, NaturalsInduction, WellFoundedInduction, TLAPS

Results == {"ok", "err", "panic", "garbage"}

PageTableEntry == [frame : Frames, writable : BOOLEAN, no_execute : BOOLEAN, copied : BOOLEAN]

IsInner(in) ==
  /\ in = [page_table |-> in.page_table, memory |-> in.memory,
           used |-> in.used, result |-> in.result]
  /\ DOMAIN in.page_table \subseteq Int
  /\ in.page_table \in [DOMAIN in.page_table -> PageTableEntry]
  /\ DOMAIN in.memory = Frames
  /\ in.used \in 0 .. elf.free_frames
  /\ in.result \in Results

\* A frame of the allocator is mapped only after it was taken ...
OnlyTaken(in) == \A p \in DOMAIN in.page_table : in.page_table[p].frame < FileFrames + in.used

\* ... at one page only; and a page marked as copied is not one of the file's.
Owned(in) ==
  \A p, q \in DOMAIN in.page_table :
    p # q /\ in.page_table[p].frame >= FileFrames
      => in.page_table[p].frame # in.page_table[q].frame

CopiedElsewhere(in) ==
  \A p \in DOMAIN in.page_table :
    in.page_table[p].copied => in.page_table[p].frame >= FileFrames

Untouched(in) == \A f \in 0 .. FileFrames - 1 : in.memory[f] = FileImage(f)

InnerOK(in) ==
  IsInner(in) /\ OnlyTaken(in) /\ Owned(in) /\ CopiedElsewhere(in) /\ Untouched(in)

IInv ==
  /\ elf \in ElfFile
  /\ InnerOK(inner)
  /\ loop \in {"load", "dynamic", "relocate", "relro", "done"}
  /\ header \in 1 .. Len(elf.headers) + 1
  /\ loop = "relocate" => header <= Len(elf.headers)
  /\ rela \in [table : Nat, entries : Nat, idx : Nat]
  /\ rela.idx <= rela.entries
  /\ Len(tls_template) \in {0, 1}
  /\ inner.result = "ok" => \A i \in 1 .. Len(elf.headers) : sanity_check(elf.headers[i])

-----------------------------------------------------------------------------
(***************************************************************************)
(* Arithmetic.                                                             *)
(***************************************************************************)

LEMMA SizeFacts == PAGE_SIZE \in Nat /\ PAGE_SIZE > 0 /\ WORD_SIZE \in Nat /\ FREE_ADDRESS \in Nat
BY SizesAssumption

LEMMA FileFramesNat == ASSUME elf \in ElfFile PROVE FileFrames \in Nat /\ elf.free_frames \in Nat
<1>1. elf.file_len \in Nat /\ elf.free_frames \in Nat
  BY DEF ElfFile
<1>2. elf.file_len + PAGE_SIZE - 1 \in Nat
  BY <1>1, SizeFacts
<1> QED
  BY <1>1, <1>2, SizeFacts DEF FileFrames

\* A set of natural numbers that is not empty has a least element.
LEMMA LeastElement ==
  ASSUME NEW S, S \subseteq Nat, S # {}
  PROVE  \E m \in S : \A n \in S : m <= n
<1>1. PICK m \in S : \A n \in S : ~ (<<n, m>> \in OpToRel(<, Nat))
  BY NatLessThanWellFounded, WFMin, Zenon
<1>2. OpToRel(<, Nat) = {s \in Nat \X Nat : s[1] < s[2]}
  BY Zenon DEF OpToRel
<1>3. \A n \in S : ~ (<<n, m>> \in {s \in Nat \X Nat : s[1] < s[2]})
  BY <1>1, <1>2, Zenon
<1>4. SUFFICES ASSUME NEW n \in S PROVE m <= n
  BY <1>4
<1>5. <<n, m>> \in Nat \X Nat
  BY SMT
<1>6. ~ (<<n, m>>[1] < <<n, m>>[2])
  BY <1>3, <1>5, Zenon
<1> QED
  BY <1>6

LEMMA HeaderTyped ==
  ASSUME elf \in ElfFile, NEW i \in 1 .. Len(elf.headers)
  PROVE  elf.headers[i] \in ProgramHeader
<1>1. elf.headers \in Seq(ProgramHeader)
  BY DEF ElfFile
<1> QED
  BY <1>1

LEMMA LoadsTyped == ASSUME elf \in ElfFile PROVE Loads \subseteq ProgramHeader
BY HeaderTyped DEF Loads, Headers

LEMMA OffsetInt == ASSUME elf \in ElfFile PROVE virtual_address_offset \in Int
<1>1. \A h \in Loads : h.virtual_addr \in Nat
  BY LoadsTyped DEF ProgramHeader
<1>2. CASE elf.type = "SharedObject" /\ Loads # {}
  <2> DEFINE S == {h.virtual_addr : h \in Loads}
  <2>1. S \subseteq Nat /\ S # {}
    BY <1>1, <1>2
  <2>2. PICK m \in S : \A n \in S : m <= n
    BY <2>1, LeastElement
  <2>3. \A h \in Loads : m <= h.virtual_addr
    BY <2>2
  <2>4. min_addr \in S
    BY <2>2, <2>3 DEF min_addr
  <2>5. min_addr \in Nat
    BY <2>1, <2>4
  <2> QED
    BY <2>5, <1>2, SizeFacts DEF virtual_address_offset
<1> QED
  BY <1>2 DEF virtual_address_offset


LEMMA VirtInt ==
  ASSUME elf \in ElfFile, NEW h \in ProgramHeader
  PROVE  virt(h) \in Int
BY OffsetInt DEF virt, ProgramHeader

LEMMA PageOfInt == \A a \in Int : page_of(a) \in Int
BY SizeFacts DEF page_of

\* A file that passes sanity_check holds its segments.
LEMMA SegmentInFile ==
  ASSUME elf \in ElfFile, NEW h \in ProgramHeader, sanity_check(h),
         NEW f \in pages_of(h.offset, h.offset + h.file_size - 1)
  PROVE  f \in 0 .. FileFrames - 1
<1> DEFINE last == h.offset + h.file_size - 1
<1>1. h.offset \in Nat /\ h.file_size \in Nat /\ elf.file_len \in Nat
  BY DEF ElfFile, ProgramHeader
<1>2. last \in Int /\ last + 1 < elf.file_len
  BY <1>1 DEF sanity_check
<1>3. page_of(h.offset) >= 0 /\ page_of(h.offset) \in Int /\ page_of(last) \in Int
  BY <1>1, <1>2, SizeFacts DEF page_of
<1>4. page_of(last) + 1 <= FileFrames
  <2>1. last + PAGE_SIZE <= elf.file_len + PAGE_SIZE - 1
    BY <1>1, <1>2, SizeFacts
  <2>2. (last + PAGE_SIZE) \div PAGE_SIZE = page_of(last) + 1
    BY <1>2, SizeFacts DEF page_of
  <2>3. \A a, b \in Int : a <= b => a \div PAGE_SIZE <= b \div PAGE_SIZE
    BY SizeFacts
  <2> QED
    BY <2>1, <2>2, <2>3, <1>1, <1>2, SizeFacts DEF FileFrames
<1>5. f \in Int /\ page_of(h.offset) <= f /\ f <= page_of(last)
  BY <1>3 DEF pages_of
<1> QED
  BY <1>3, <1>4, <1>5, FileFramesNat


-----------------------------------------------------------------------------
(***************************************************************************)
(* Inner.  Each operation of the loader on it keeps InnerOK.               *)
(***************************************************************************)

LEMMA FailOK ==
  ASSUME NEW in, InnerOK(in), NEW how \in Results
  PROVE  InnerOK(fail(in, how)) /\ fail(in, how).result = how
<1> DEFINE out == fail(in, how)
<1>1. IsInner(in)
  BY DEF InnerOK
<1>2. /\ out = [page_table |-> in.page_table, memory |-> in.memory, used |-> in.used, result |-> how]
      /\ out.page_table = in.page_table /\ out.memory = in.memory
      /\ out.used = in.used /\ out.result = how
  BY <1>1 DEF fail, IsInner
<1> HIDE DEF out
<1>3. IsInner(out)
  BY <1>1, <1>2 DEF IsInner
<1>4. OnlyTaken(out) /\ Owned(out) /\ CopiedElsewhere(out) /\ Untouched(out)
  BY <1>2 DEF InnerOK, OnlyTaken, Owned, CopiedElsewhere, Untouched
<1>5. InnerOK(out) /\ out.result = how
  BY <1>2, <1>3, <1>4 DEF InnerOK
<1> QED
  BY <1>5 DEF out

LEMMA NextFrameFree ==
  ASSUME elf \in ElfFile, NEW in, InnerOK(in), has_frames(in, 1)
  PROVE  /\ next_frame(in) \in Frames
         /\ next_frame(in) >= FileFrames
         /\ next_frame(in) = FileFrames + in.used
         /\ in.used + 1 \in 0 .. elf.free_frames
<1>1. in.used \in 0 .. elf.free_frames
  BY DEF InnerOK, IsInner
<1> QED
  BY <1>1, FileFramesNat DEF has_frames, next_frame, Frames

LEMMA CopyPageOK ==
  ASSUME elf \in ElfFile, NEW in, InnerOK(in), has_frames(in, 1),
         NEW p \in DOMAIN in.page_table
  PROVE  /\ InnerOK(copy_page(in, p))
         /\ p \in DOMAIN copy_page(in, p).page_table
         /\ copy_page(in, p).page_table[p].copied
         /\ copy_page(in, p).result = in.result
<1> DEFINE nf == next_frame(in)
           e  == [in.page_table[p] EXCEPT !.frame = nf, !.copied = TRUE]
           t  == [in.page_table EXCEPT ![p] = e]
           m  == [in.memory EXCEPT ![nf] = in.memory[in.page_table[p].frame]]
           out == copy_page(in, p)
<1>1. IsInner(in)
  BY DEF InnerOK
<1>2. in.page_table[p] \in PageTableEntry
  BY <1>1 DEF IsInner
<1>3. e \in PageTableEntry /\ e.frame = nf /\ e.copied
  BY <1>2, NextFrameFree DEF PageTableEntry
<1>4. t \in [DOMAIN in.page_table -> PageTableEntry]
  BY <1>1, <1>3 DEF IsInner
<1>5. DOMAIN m = Frames
  BY <1>1 DEF IsInner
<1>6. /\ out = [page_table |-> t, memory |-> m, used |-> in.used + 1, result |-> in.result]
      /\ out.page_table = t /\ out.memory = m /\ out.used = in.used + 1 /\ out.result = in.result
  <2>1. out = [in EXCEPT !.memory = m, !.page_table = t, !.used = in.used + 1]
    BY DEF copy_page
  <2> HIDE DEF out, m, t
  <2> QED
    BY <1>1, <2>1 DEF IsInner
<1>7. \A q \in DOMAIN t : t[q] = IF q = p THEN e ELSE in.page_table[q]
  OBVIOUS
<1>8. DOMAIN t = DOMAIN in.page_table
  OBVIOUS
<1>9. \A q \in DOMAIN t : t[q].frame \in Int /\ in.page_table[q].frame \in Int
  <2>1. \A q \in DOMAIN t : t[q] \in PageTableEntry /\ in.page_table[q] \in PageTableEntry
    BY <1>1, <1>4, <1>8 DEF IsInner
  <2>2. \A x \in PageTableEntry : x.frame \in Int
    BY FileFramesNat DEF PageTableEntry, Frames
  <2> QED
    BY <2>1, <2>2
<1>10. \A f \in 0 .. FileFrames - 1 : m[f] = in.memory[f]
  BY <1>1, NextFrameFree, FileFramesNat DEF IsInner
<1> HIDE DEF nf, e, t, m, out
<1>11. IsInner(out)
  BY <1>1, <1>4, <1>5, <1>6, <1>8, NextFrameFree DEF IsInner
<1>12. OnlyTaken(out)
  BY <1>1, <1>3, <1>6, <1>7, <1>8, <1>9, NextFrameFree, FileFramesNat DEF OnlyTaken, InnerOK, IsInner, nf
<1>13. Owned(out)
  <2>1. \A q \in DOMAIN t : q # p => t[q].frame # nf
    BY <1>1, <1>7, <1>8, <1>9, NextFrameFree, FileFramesNat DEF OnlyTaken, InnerOK, IsInner, nf
  <2>2. \A q, r \in DOMAIN t : q # p /\ r # p /\ q # r /\ t[q].frame >= FileFrames => t[q].frame # t[r].frame
    BY <1>7, <1>8 DEF Owned, InnerOK
  <2>3. t[p].frame = nf
    BY <1>3, <1>7, <1>8
  <2> QED
    BY <1>6, <2>1, <2>2, <2>3 DEF Owned
<1>14. CopiedElsewhere(out)
  BY <1>3, <1>6, <1>7, <1>8, NextFrameFree DEF CopiedElsewhere, InnerOK, nf
<1>15. Untouched(out)
  BY <1>6, <1>10 DEF Untouched, InnerOK
<1>16. InnerOK(out) /\ p \in DOMAIN out.page_table /\ out.page_table[p].copied /\ out.result = in.result
  BY <1>3, <1>6, <1>7, <1>8, <1>11, <1>12, <1>13, <1>14, <1>15 DEF InnerOK
<1> QED
  BY <1>16 DEF out

LEMMA MakeMutOK ==
  ASSUME elf \in ElfFile, NEW in, InnerOK(in), in.result = "ok", NEW p
  PROVE  /\ InnerOK(make_mut(in, p))
         /\ make_mut(in, p).result = "ok" =>
              p \in DOMAIN make_mut(in, p).page_table /\ make_mut(in, p).page_table[p].copied
<1>1. "panic" \in Results
  BY DEF Results
<1>2. CASE p \notin DOMAIN in.page_table
  BY <1>1, <1>2, FailOK DEF make_mut
<1>3. CASE p \in DOMAIN in.page_table /\ in.page_table[p].copied
  BY <1>3 DEF make_mut
<1>4. CASE p \in DOMAIN in.page_table /\ ~in.page_table[p].copied /\ ~has_frames(in, 1)
  BY <1>1, <1>4, FailOK DEF make_mut
<1>5. CASE p \in DOMAIN in.page_table /\ ~in.page_table[p].copied /\ has_frames(in, 1)
  BY <1>5, CopyPageOK DEF make_mut
<1> QED
  BY <1>2, <1>3, <1>4, <1>5

\* A copied page is written to without touching the file.
LEMMA WriteOK ==
  ASSUME elf \in ElfFile, NEW in, InnerOK(in), in.result = "ok", NEW p, NEW bytes
  PROVE  InnerOK(write(in, p, bytes))
<1> DEFINE mut == make_mut(in, p)
           f   == mut.page_table[p].frame
           new == [o \in Offsets |-> IF o \in DOMAIN bytes THEN bytes[o] ELSE mut.memory[f][o]]
           m   == [mut.memory EXCEPT ![f] = new]
           out == write(in, p, bytes)
<1>1. InnerOK(mut)
  BY MakeMutOK
<1>2. CASE mut.result # "ok"
  BY <1>1, <1>2 DEF write
<1>3. CASE mut.result = "ok"
  <2>1. p \in DOMAIN mut.page_table /\ mut.page_table[p].copied
    BY <1>3, MakeMutOK
  <2>2. IsInner(mut)
    BY <1>1 DEF InnerOK
  <2>3. f \in Frames /\ f >= FileFrames
    BY <1>1, <2>1, <2>2 DEF InnerOK, CopiedElsewhere, PageTableEntry, IsInner
  <2>4. out = [mut EXCEPT !.memory = m]
    BY <1>3 DEF write
  <2> HIDE DEF mut, out
  <2>5. /\ out = [page_table |-> mut.page_table, memory |-> m, used |-> mut.used, result |-> mut.result]
        /\ out.page_table = mut.page_table /\ out.memory = m
        /\ out.used = mut.used /\ out.result = mut.result
    BY <2>2, <2>4 DEF IsInner
  <2>6. DOMAIN m = Frames
    BY <2>2 DEF IsInner
  <2>7. \A g \in 0 .. FileFrames - 1 : m[g] = mut.memory[g]
    BY <2>2, <2>3, FileFramesNat DEF IsInner, Frames
  <2> HIDE DEF m, f
  <2>8. IsInner(out)
    BY <2>2, <2>5, <2>6 DEF IsInner
  <2>9. OnlyTaken(out) /\ Owned(out) /\ CopiedElsewhere(out) /\ Untouched(out)
    BY <1>1, <2>5, <2>7 DEF InnerOK, OnlyTaken, Owned, CopiedElsewhere, Untouched
  <2>10. InnerOK(out)
    BY <2>8, <2>9 DEF InnerOK
  <2> QED
    BY <2>10 DEF out
<1> QED
  BY <1>2, <1>3

LEMMA CopyToOK ==
  ASSUME elf \in ElfFile, NEW in, InnerOK(in), in.result = "ok", NEW addr, NEW value
  PROVE  InnerOK(copy_to(in, addr, value))
<1> DEFINE start   == page_of(addr)
           end     == page_of(addr + WORD_SIZE - 1)
           started == write(in, start, word_bytes(start, addr, value))
<1>1. InnerOK(started)
  BY WriteOK
<1>2. CASE started.result # "ok" \/ start = end
  BY <1>1, <1>2 DEF copy_to
<1>3. CASE started.result = "ok" /\ start # end
  <2>1. InnerOK(write(started, end, word_bytes(end, addr, value)))
    <3> HIDE DEF started
    <3> QED BY <1>1, <1>3, WriteOK
  <2> QED
    BY <1>3, <2>1 DEF copy_to
<1> QED
  BY <1>2, <1>3

LEMMA ClearTailOK ==
  ASSUME elf \in ElfFile, NEW in, InnerOK(in), in.result = "ok", NEW h
  PROVE  InnerOK(clear_tail(in, h))
BY WriteOK DEF clear_tail

\* Frames may be taken and zeroed ahead of being mapped.
LEMMA TakeOK ==
  ASSUME elf \in ElfFile, NEW in, InnerOK(in), NEW n \in Nat, has_frames(in, n)
  PROVE  /\ InnerOK([in EXCEPT !.used = @ + n])
         /\ [in EXCEPT !.used = @ + n].page_table = in.page_table
         /\ [in EXCEPT !.used = @ + n].result = in.result
         /\ [in EXCEPT !.used = @ + n].used = in.used + n
<1> DEFINE out == [in EXCEPT !.used = @ + n]
<1>1. IsInner(in)
  BY DEF InnerOK
<1>2. /\ out = [page_table |-> in.page_table, memory |-> in.memory, used |-> in.used + n,
                result |-> in.result]
      /\ out.page_table = in.page_table /\ out.memory = in.memory
      /\ out.used = in.used + n /\ out.result = in.result
  BY <1>1 DEF IsInner
<1> HIDE DEF out
<1>3. in.used \in Nat /\ in.used + n \in 0 .. elf.free_frames
  BY <1>1, FileFramesNat DEF IsInner, has_frames
<1>4. IsInner(out)
  BY <1>1, <1>2, <1>3 DEF IsInner
<1>5. OnlyTaken(out)
  <2>1. \A x \in PageTableEntry : x.frame \in Int
    BY FileFramesNat DEF PageTableEntry, Frames
  <2>2. \A p \in DOMAIN in.page_table : in.page_table[p].frame \in Int
    BY <1>1, <2>1 DEF IsInner
  <2> QED
    BY <1>2, <1>3, <2>2, FileFramesNat DEF OnlyTaken, InnerOK
<1>6. Owned(out) /\ CopiedElsewhere(out) /\ Untouched(out)
  BY <1>2 DEF InnerOK, Owned, CopiedElsewhere, Untouched
<1>7. InnerOK(out)
  BY <1>4, <1>5, <1>6 DEF InnerOK
<1> QED
  BY <1>2, <1>7 DEF out

LEMMA FillOK ==
  ASSUME elf \in ElfFile, NEW in, InnerOK(in), NEW fill,
         DOMAIN fill = Frames, \A f \in 0 .. FileFrames - 1 : fill[f] = in.memory[f]
  PROVE  /\ InnerOK([in EXCEPT !.memory = fill])
         /\ [in EXCEPT !.memory = fill].page_table = in.page_table
         /\ [in EXCEPT !.memory = fill].used = in.used
         /\ [in EXCEPT !.memory = fill].result = in.result
<1> DEFINE out == [in EXCEPT !.memory = fill]
<1>1. IsInner(in)
  BY DEF InnerOK
<1>2. /\ out = [page_table |-> in.page_table, memory |-> fill, used |-> in.used,
                result |-> in.result]
      /\ out.page_table = in.page_table /\ out.memory = fill
      /\ out.used = in.used /\ out.result = in.result
  BY <1>1 DEF IsInner
<1> HIDE DEF out
<1>3. IsInner(out)
  BY <1>1, <1>2 DEF IsInner
<1>4. OnlyTaken(out) /\ Owned(out) /\ CopiedElsewhere(out) /\ Untouched(out)
  BY <1>2 DEF InnerOK, OnlyTaken, Owned, CopiedElsewhere, Untouched
<1>5. InnerOK(out)
  BY <1>3, <1>4 DEF InnerOK
<1> QED
  BY <1>2, <1>5 DEF out

\* Pages may be mapped to the file's frames, or to taken frames no page has.
LEMMA MapToOK ==
  ASSUME elf \in ElfFile, NEW in, InnerOK(in),
         NEW pages \in SUBSET Int, mapped(in, pages) = {}, NEW shift \in Int, NEW h \in ProgramHeader,
         \A p \in pages : p + shift \in Frames /\ p + shift < FileFrames + in.used,
         \A p \in pages : p + shift >= FileFrames =>
           \A q \in DOMAIN in.page_table : in.page_table[q].frame # p + shift
  PROVE  /\ InnerOK(map_to(in, pages, shift, h))
         /\ map_to(in, pages, shift, h).result = in.result
<1> DEFINE e(p) == [frame |-> p + shift, writable |-> h.w, no_execute |-> ~h.x, copied |-> FALSE]
           D    == DOMAIN in.page_table \cup pages
           t    == [p \in D |-> IF p \in pages THEN e(p) ELSE in.page_table[p]]
           out  == map_to(in, pages, shift, h)
<1>1. IsInner(in)
  BY DEF InnerOK
<1>2. out = [in EXCEPT !.page_table = t]
  BY DEF map_to
<1> HIDE DEF out, t
<1>3. /\ out = [page_table |-> t, memory |-> in.memory, used |-> in.used, result |-> in.result]
      /\ out.page_table = t /\ out.memory = in.memory
      /\ out.used = in.used /\ out.result = in.result
  BY <1>1, <1>2 DEF IsInner
<1>4. \A p \in pages : e(p) \in PageTableEntry /\ e(p).frame = p + shift /\ ~e(p).copied
  <2>1. h.w \in BOOLEAN /\ (~h.x) \in BOOLEAN
    BY DEF ProgramHeader
  <2> QED
    BY <2>1 DEF PageTableEntry
<1>5. DOMAIN t = D /\ \A p \in D : t[p] = IF p \in pages THEN e(p) ELSE in.page_table[p]
  BY DEF t
<1> HIDE DEF e
<1>6. D \subseteq Int /\ t \in [D -> PageTableEntry]
  <2>1. \A p \in D : t[p] \in PageTableEntry
    BY <1>1, <1>4, <1>5 DEF IsInner
  <2>2. t \in [D -> PageTableEntry]
    BY <2>1 DEF t
  <2> QED
    BY <1>1, <2>2 DEF IsInner
<1>7. IsInner(out)
  BY <1>1, <1>3, <1>5, <1>6 DEF IsInner
<1>8. \A p \in pages : t[p].frame = p + shift /\ ~t[p].copied
  BY <1>4, <1>5
<1>9. \A p \in D : p \notin pages => p \in DOMAIN in.page_table /\ t[p] = in.page_table[p]
  BY <1>5
<1>10. pages \subseteq D /\ D \subseteq Int
  BY <1>6
<1> HIDE DEF D
<1>11. OnlyTaken(out)
  BY <1>3, <1>5, <1>8, <1>9 DEF OnlyTaken, InnerOK
<1>12. Owned(out)
  <2> SUFFICES ASSUME NEW p \in D, NEW q \in D, p # q, t[p].frame >= FileFrames
               PROVE  t[p].frame # t[q].frame
    BY <1>3, <1>5 DEF Owned
  <2>1. CASE p \in pages /\ q \in pages
    BY <1>8, <1>10, <2>1
  <2>2. CASE p \in pages /\ q \notin pages
    BY <1>8, <1>9, <2>2
  <2>3. CASE p \notin pages /\ q \in pages
    BY <1>8, <1>9, <2>3
  <2>4. CASE p \notin pages /\ q \notin pages
    BY <1>9, <2>4 DEF Owned, InnerOK
  <2> QED
    BY <2>1, <2>2, <2>3, <2>4
<1>13. CopiedElsewhere(out)
  BY <1>3, <1>5, <1>8, <1>9 DEF CopiedElsewhere, InnerOK
<1>14. Untouched(out)
  BY <1>3 DEF Untouched, InnerOK
<1>15. InnerOK(out) /\ out.result = in.result
  BY <1>3, <1>7, <1>11, <1>12, <1>13, <1>14 DEF InnerOK
<1> QED
  BY <1>15 DEF out

\* Flags may change, but no page becomes a copied one.
LEMMA ReflagOK ==
  ASSUME elf \in ElfFile, NEW in, InnerOK(in),
         NEW t \in [DOMAIN in.page_table -> PageTableEntry],
         \A p \in DOMAIN in.page_table :
           t[p].frame = in.page_table[p].frame /\ (t[p].copied => in.page_table[p].copied)
  PROVE  /\ InnerOK([in EXCEPT !.page_table = t])
         /\ [in EXCEPT !.page_table = t].result = in.result
<1> DEFINE out == [in EXCEPT !.page_table = t]
<1>1. IsInner(in)
  BY DEF InnerOK
<1>2. /\ out = [page_table |-> t, memory |-> in.memory, used |-> in.used, result |-> in.result]
      /\ out.page_table = t /\ out.memory = in.memory
      /\ out.used = in.used /\ out.result = in.result
  BY <1>1 DEF IsInner
<1> HIDE DEF out
<1>3. DOMAIN t = DOMAIN in.page_table
  OBVIOUS
<1>4. IsInner(out)
  BY <1>1, <1>2, <1>3 DEF IsInner
<1>5. OnlyTaken(out) /\ Owned(out) /\ CopiedElsewhere(out) /\ Untouched(out)
  BY <1>2, <1>3 DEF InnerOK, OnlyTaken, Owned, CopiedElsewhere, Untouched
<1>6. InnerOK(out) /\ out.result = in.result
  BY <1>2, <1>4, <1>5 DEF InnerOK
<1> QED
  BY <1>6 DEF out

LEMMA TableFramesNat == \A in : table_frames(in) \in Nat
BY DEF table_frames

LEMMA BssPages ==
  ASSUME elf \in ElfFile, NEW h \in ProgramHeader
  PROVE  LET a == page_of(align_up(zero_start(h)))
             b == page_of(virt(h) + h.mem_size - 1)
         IN  a \in Int /\ b \in Int /\ bss_pages(h) = a .. b
<1> DEFINE a     == page_of(align_up(zero_start(h)))
           b     == page_of(virt(h) + h.mem_size - 1)
           pages == bss_pages(h)
<1>1. a \in Int /\ b \in Int /\ pages = a .. b
  <2>1. virt(h) \in Int /\ h.mem_size \in Nat /\ h.file_size \in Nat
    BY VirtInt DEF ProgramHeader
  <2>2. zero_start(h) \in Int
    BY <2>1 DEF zero_start
  <2>3. align_up(zero_start(h)) \in Int
    <3>1. \A x \in Int : x \div PAGE_SIZE \in Int
      BY SizeFacts
    <3>2. zero_start(h) + PAGE_SIZE - 1 \in Int
      BY <2>2, SizeFacts
    <3> DEFINE d == (zero_start(h) + PAGE_SIZE - 1) \div PAGE_SIZE
    <3>3. d \in Int
      BY <3>1, <3>2
    <3> HIDE DEF d
    <3>4. d * PAGE_SIZE \in Int
      BY <3>3, SizeFacts
    <3> QED
      BY <3>4 DEF align_up, d
  <2>4. a \in Int /\ b \in Int
    BY <2>1, <2>3, PageOfInt
  <2> QED
    BY <2>4 DEF bss_pages, pages_of
<1> QED
  BY <1>1

\* The pages of zero-initialised data get frames that were never given out.
LEMMA MapZeroedOK ==
  ASSUME elf \in ElfFile, NEW in, InnerOK(in), in.result = "ok", NEW h \in ProgramHeader
  PROVE  InnerOK(map_zeroed(in, h))
<1> DEFINE a       == page_of(align_up(zero_start(h)))
           b       == page_of(virt(h) + h.mem_size - 1)
           pages   == bss_pages(h)
           taken   == mapped(in, pages)
           reached == {p \in pages : \A q \in taken : p <= q}
           tables  == table_frames(in)
           n       == tables + Cardinality(pages)
           first   == next_frame(in) + tables
           fresh   == first .. first + Cardinality(pages) - 1
           fill    == [f \in DOMAIN in.memory |-> IF f \in fresh THEN [o \in Offsets |-> ZeroByte]
                                                  ELSE in.memory[f]]
           zeroed  == [in EXCEPT !.memory = fill, !.used = in.used + tables + Cardinality(pages)]
           out     == map_to(zeroed, pages, first - a, h)
<1>1. "panic" \in Results /\ "err" \in Results
  BY DEF Results
<1>2. InnerOK(fail(in, "panic")) /\ InnerOK(fail(in, "err"))
  BY <1>1, FailOK
<1>3. ASSUME pages # {}, taken = {}, has_frames(in, Cardinality(reached) + tables)
      PROVE  InnerOK(out)
  <2>1. a \in Int /\ b \in Int /\ pages = a .. b
    BY BssPages
  <2> HIDE DEF a, b
  <2>2. a <= b
    BY <1>3, <2>1
  <2>3. Cardinality(pages) = b - a + 1
    BY <2>1, <2>2, FS_Interval
  <2>4. reached = pages
    BY <1>3
  <2>5. tables \in Nat /\ n \in Nat /\ n = tables + (b - a + 1)
    BY <2>1, <2>2, <2>3, TableFramesNat
  <2>6. has_frames(in, n)
    <3>1. Cardinality(reached) + tables = n
      <4> HIDE DEF pages, tables, reached
      <4> QED BY <2>1, <2>3, <2>4, <2>5
    <3> HIDE DEF n, reached, tables
    <3> QED
      BY <1>3, <3>1
  <2>7. IsInner(in) /\ in.used \in Nat
    BY FileFramesNat DEF InnerOK, IsInner
  <2>8. first \in Nat /\ first = FileFrames + in.used + tables
    BY <2>5, <2>7, FileFramesNat DEF next_frame
  <2> DEFINE took == [in EXCEPT !.used = @ + n]
  <2>9. /\ InnerOK(took) /\ took.page_table = in.page_table
        /\ took.result = in.result /\ took.used = in.used + n
    BY <2>5, <2>6, TakeOK
  <2>10. DOMAIN fill = Frames /\ \A f \in 0 .. FileFrames - 1 : fill[f] = took.memory[f]
    <3>1. took.memory = in.memory /\ DOMAIN in.memory = Frames
      BY <2>7 DEF IsInner
    <3>2. \A f \in 0 .. FileFrames - 1 : f \in Frames /\ f \notin fresh
      BY <2>7, <2>8, <2>5, FileFramesNat DEF Frames
    <3> HIDE DEF fresh, took
    <3> QED
      BY <3>1, <3>2
  <2>11. zeroed = [took EXCEPT !.memory = fill]
    <3>1. in.used + tables + Cardinality(pages) = in.used + n
      BY <2>1, <2>3, <2>5, <2>7
    <3> HIDE DEF fill, n, pages, tables
    <3> QED
      BY <2>7, <3>1 DEF IsInner
  <2> HIDE DEF fill, took
  <2>12. /\ InnerOK(zeroed) /\ zeroed.page_table = in.page_table
         /\ zeroed.used = in.used + n /\ zeroed.result = in.result
    <3>1. /\ InnerOK([took EXCEPT !.memory = fill])
          /\ [took EXCEPT !.memory = fill].page_table = took.page_table
          /\ [took EXCEPT !.memory = fill].used = took.used
          /\ [took EXCEPT !.memory = fill].result = took.result
      BY <2>9, <2>10, FillOK
    <3> HIDE DEF zeroed, n
    <3> QED
      BY <2>9, <2>11, <3>1
  <2> HIDE DEF zeroed
  <2>13. mapped(zeroed, pages) = {}
    BY <1>3, <2>12 DEF mapped
  <2>14. first - a \in Int
    BY <2>1, <2>8
  <2>15. \A p \in pages : /\ p + (first - a) \in Frames
                          /\ p + (first - a) < FileFrames + zeroed.used
                          /\ p + (first - a) >= FileFrames + in.used
    <3>1. in.used + n <= elf.free_frames
      BY <2>6 DEF has_frames
    <3> HIDE DEF n, first, pages, tables
    <3> TAKE p \in pages
    <3>2. p \in Int /\ a <= p /\ p <= b
      BY <2>1
    <3>3. first <= p + (first - a) /\ p + (first - a) < first + (b - a + 1) /\ p + (first - a) \in Int
      BY <2>1, <2>8, <3>2
    <3>4. first + (b - a + 1) = FileFrames + zeroed.used /\ n \in Nat
      BY <2>1, <2>2, <2>5, <2>7, <2>8, <2>12, FileFramesNat
    <3>5. FileFrames + zeroed.used <= FileFrames + elf.free_frames
      BY <2>7, <2>12, <3>1, <3>4, FileFramesNat
    <3>6. first >= FileFrames + in.used /\ in.used \in Nat
      BY <2>5, <2>7, <2>8, FileFramesNat
    <3>7. FileFrames \in Nat /\ elf.free_frames \in Nat /\ first \in Nat /\ zeroed.used \in Nat
      BY <2>7, <2>8, <2>12, <3>4, FileFramesNat
    <3> DEFINE x == p + (first - a)
               y == first + (b - a + 1)
    <3> HIDE DEF x, y
    <3>8. x \in Int /\ first <= x /\ x < y /\ y = FileFrames + zeroed.used
      BY <3>3, <3>4 DEF x, y
    <3>9. x \in Frames /\ x < FileFrames + zeroed.used /\ x >= FileFrames + in.used
      BY <3>5, <3>6, <3>7, <3>8 DEF Frames
    <3> QED
      BY <3>9 DEF x
  <2>16. \A q \in DOMAIN zeroed.page_table : zeroed.page_table[q].frame < FileFrames + in.used
    BY <2>12 DEF InnerOK, OnlyTaken
  <2>17. \A p \in pages : \A q \in DOMAIN zeroed.page_table : zeroed.page_table[q].frame # p + (first - a)
    <3>1. \A x \in PageTableEntry : x.frame \in Int
      BY FileFramesNat DEF PageTableEntry, Frames
    <3>2. \A q \in DOMAIN zeroed.page_table : zeroed.page_table[q].frame \in Int
      BY <2>12, <3>1 DEF InnerOK, IsInner
    <3>3. \A p \in pages : p + (first - a) \in Int
      BY <2>1, <2>14
    <3> HIDE DEF first, pages
    <3> QED
      BY <2>7, <2>15, <2>16, <3>2, <3>3, FileFramesNat
  <2>18. pages \in SUBSET Int
    BY <2>1
  <2> HIDE DEF pages, first
  <2> QED
    BY <2>12, <2>13, <2>14, <2>15, <2>17, <2>18, MapToOK
<1> HIDE DEF out, taken, reached, tables, pages
<1>4. map_zeroed(in, h) \in {in, fail(in, "panic"), fail(in, "err"), out}
      /\ (map_zeroed(in, h) # in /\ map_zeroed(in, h) # fail(in, "panic") /\ map_zeroed(in, h) # fail(in, "err")
           => /\ pages # {} /\ taken = {} /\ has_frames(in, Cardinality(reached) + tables)
              /\ map_zeroed(in, h) = out)
  BY Zenon DEF map_zeroed, out, taken, reached, tables, pages
<1> QED
  BY <1>2, <1>3, <1>4, Zenon

LEMMA HandleBssOK ==
  ASSUME elf \in ElfFile, NEW in, InnerOK(in), in.result = "ok", NEW h \in ProgramHeader
  PROVE  InnerOK(handle_bss_section(in, h))
<1> DEFINE cleared == clear_tail(in, h)
<1>1. InnerOK(cleared)
  BY ClearTailOK
<1>2. cleared.result = "ok" => InnerOK(map_zeroed(cleared, h))
  BY <1>1, MapZeroedOK
<1> QED
  BY <1>1, <1>2 DEF handle_bss_section

\* How handle_load_segment maps the file's part of a segment.
FileTables(in, h) == IF file_pages(h) = {} THEN 0 ELSE table_frames(in)

FileTook(in, h) == [in EXCEPT !.used = @ + FileTables(in, h)]

FileMapped(in, h) == map_to(FileTook(in, h), file_pages(h), -file_shift(h), h)

LEMMA HandleLoadCases ==
  ASSUME NEW in, NEW h
  PROVE  handle_load_segment(in, h) =
           IF mapped(in, file_pages(h)) # {} \/ ~has_frames(in, FileTables(in, h)) THEN fail(in, "err")
           ELSE IF h.mem_size > h.file_size THEN handle_bss_section(FileMapped(in, h), h)
           ELSE FileMapped(in, h)
BY Zenon DEF handle_load_segment, FileMapped, FileTook, FileTables

LEMMA FileShiftInt ==
  ASSUME elf \in ElfFile, NEW h \in ProgramHeader
  PROVE  file_shift(h) \in Int /\ -file_shift(h) \in Int
<1>1. h.offset \in Int
  BY DEF ProgramHeader
<1>2. page_of(virt(h)) \in Int /\ page_of(h.offset) \in Int
  BY <1>1, VirtInt, PageOfInt
<1> QED
  BY <1>2 DEF file_shift

LEMMA FilePagesInFile ==
  ASSUME elf \in ElfFile, NEW h \in ProgramHeader, sanity_check(h)
  PROVE  /\ file_pages(h) \in SUBSET Int
         /\ \A p \in file_pages(h) : p + (-file_shift(h)) \in 0 .. FileFrames - 1
<1>1. pages_of(h.offset, h.offset + h.file_size - 1) \subseteq 0 .. FileFrames - 1
  BY SegmentInFile
<1> QED
  BY <1>1, FileShiftInt, FileFramesNat DEF file_pages

LEMMA FileTookOK ==
  ASSUME elf \in ElfFile, NEW in, InnerOK(in), NEW h, has_frames(in, FileTables(in, h))
  PROVE  /\ InnerOK(FileTook(in, h)) /\ FileTook(in, h).page_table = in.page_table
         /\ FileTook(in, h).result = in.result
         /\ FileTook(in, h).used = in.used + FileTables(in, h)
<1>1. FileTables(in, h) \in Nat
  BY TableFramesNat DEF FileTables
<1> QED
  BY <1>1, TakeOK DEF FileTook

LEMMA MapFileOK ==
  ASSUME elf \in ElfFile, NEW in, InnerOK(in), in.result = "ok",
         NEW h \in ProgramHeader, sanity_check(h),
         mapped(in, file_pages(h)) = {}, has_frames(in, FileTables(in, h))
  PROVE  InnerOK(FileMapped(in, h)) /\ FileMapped(in, h).result = "ok"
<1> DEFINE shift == file_shift(h)
           pages == file_pages(h)
           took  == FileTook(in, h)
<1>1. /\ InnerOK(took) /\ took.page_table = in.page_table
      /\ took.result = in.result /\ took.used = in.used + FileTables(in, h)
  BY FileTookOK
<1>2. shift \in Int /\ -shift \in Int
  BY FileShiftInt
<1>3. pages \in SUBSET Int /\ \A p \in pages : p + (-shift) \in 0 .. FileFrames - 1
  BY FilePagesInFile
<1> HIDE DEF shift, pages, took
<1>4. mapped(took, pages) = {}
  BY <1>1 DEF mapped, pages
<1>5. took.used \in Nat
  BY <1>1, FileFramesNat DEF InnerOK, IsInner
<1>6. \A p \in pages : p + (-shift) \in Frames /\ p + (-shift) < FileFrames + took.used
                       /\ ~(p + (-shift) >= FileFrames)
  BY <1>3, <1>5, FileFramesNat DEF Frames
<1>7. InnerOK(map_to(took, pages, -shift, h)) /\ map_to(took, pages, -shift, h).result = "ok"
  BY <1>1, <1>2, <1>3, <1>4, <1>6, MapToOK
<1> QED
  BY <1>7 DEF FileMapped, shift, pages, took

LEMMA HandleLoadOK ==
  ASSUME elf \in ElfFile, NEW in, InnerOK(in), in.result = "ok",
         NEW h \in ProgramHeader, sanity_check(h)
  PROVE  InnerOK(handle_load_segment(in, h))
<1> DEFINE file == FileMapped(in, h)
<1>1. InnerOK(fail(in, "err"))
  BY FailOK DEF Results
<1>2. ASSUME mapped(in, file_pages(h)) = {}, has_frames(in, FileTables(in, h))
      PROVE  InnerOK(file) /\ InnerOK(handle_bss_section(file, h))
  <2>1. InnerOK(file) /\ file.result = "ok"
    BY <1>2, MapFileOK
  <2> HIDE DEF file
  <2> QED
    BY <2>1, HandleBssOK
<1> QED
  BY <1>1, <1>2, HandleLoadCases

LEMMA HandleRelroOK ==
  ASSUME elf \in ElfFile, NEW in, InnerOK(in), NEW h
  PROVE  InnerOK(handle_relro_segment(in, h))
<1> DEFINE t == [p \in DOMAIN in.page_table |->
                   [in.page_table[p] EXCEPT !.writable = in.page_table[p].writable /\ p \notin relro_pages(h)]]
<1>1. CASE ~ relro_pages(h) \subseteq DOMAIN in.page_table
  BY <1>1, FailOK DEF handle_relro_segment, Results
<1>2. CASE relro_pages(h) \subseteq DOMAIN in.page_table
  <2>1. \A p \in DOMAIN in.page_table : in.page_table[p] \in PageTableEntry
    BY DEF InnerOK, IsInner
  <2>2. \A x \in PageTableEntry : \A w \in BOOLEAN :
          /\ [x EXCEPT !.writable = w] \in PageTableEntry
          /\ [x EXCEPT !.writable = w].frame = x.frame
          /\ [x EXCEPT !.writable = w].copied = x.copied
    BY DEF PageTableEntry
  <2>3. \A p \in DOMAIN in.page_table : (in.page_table[p].writable /\ p \notin relro_pages(h)) \in BOOLEAN
    BY Zenon
  <2>4. /\ t \in [DOMAIN in.page_table -> PageTableEntry]
        /\ \A p \in DOMAIN in.page_table : /\ t[p].frame = in.page_table[p].frame
                                           /\ t[p].copied = in.page_table[p].copied
    <3> SUFFICES ASSUME NEW p \in DOMAIN in.page_table
                 PROVE  /\ t[p] \in PageTableEntry
                        /\ t[p].frame = in.page_table[p].frame
                        /\ t[p].copied = in.page_table[p].copied
      OBVIOUS
    <3> DEFINE w == in.page_table[p].writable /\ p \notin relro_pages(h)
    <3>1. w \in BOOLEAN
      BY <2>3, Zenon
    <3>2. t[p] = [in.page_table[p] EXCEPT !.writable = w]
      BY Zenon
    <3> HIDE DEF w, t
    <3>3. in.page_table[p] \in PageTableEntry
      BY <2>1, Zenon
    <3>4. /\ [in.page_table[p] EXCEPT !.writable = w] \in PageTableEntry
          /\ [in.page_table[p] EXCEPT !.writable = w].frame = in.page_table[p].frame
          /\ [in.page_table[p] EXCEPT !.writable = w].copied = in.page_table[p].copied
      BY <2>2, <3>1, <3>3, Zenon
    <3> QED
      BY <3>2, <3>4, Zenon
  <2>5. handle_relro_segment(in, h) = [in EXCEPT !.page_table = t]
    BY <1>2, Zenon DEF handle_relro_segment
  <2> HIDE DEF t
  <2> QED
    BY <2>4, <2>5, ReflagOK
<1> QED
  BY <1>1, <1>2

LEMMA RemoveFlagsOK ==
  ASSUME elf \in ElfFile, NEW in, InnerOK(in)
  PROVE  InnerOK(remove_copied_flags(in))
<1> DEFINE pages == UNION {mem_pages(h) : h \in Loads}
           t     == [p \in DOMAIN in.page_table |->
                       [in.page_table[p] EXCEPT !.copied = in.page_table[p].copied /\ p \notin pages]]
<1>1. CASE ~ pages \subseteq DOMAIN in.page_table
  <2>1. remove_copied_flags(in) = fail(in, "panic")
    BY <1>1, Zenon DEF remove_copied_flags
  <2> QED
    BY <2>1, FailOK DEF Results
<1>2. CASE pages \subseteq DOMAIN in.page_table
  <2>1. \A p \in DOMAIN in.page_table : in.page_table[p] \in PageTableEntry
    BY DEF InnerOK, IsInner
  <2>2. \A x \in PageTableEntry : \A c \in BOOLEAN :
          /\ [x EXCEPT !.copied = c] \in PageTableEntry
          /\ [x EXCEPT !.copied = c].frame = x.frame
          /\ [x EXCEPT !.copied = c].copied => c
    BY DEF PageTableEntry
  <2>3. remove_copied_flags(in) = [in EXCEPT !.page_table = t]
    BY <1>2, Zenon DEF remove_copied_flags
  <2> HIDE DEF pages
  <2>4. \A p \in DOMAIN in.page_table : (in.page_table[p].copied /\ p \notin pages) \in BOOLEAN
    BY Zenon
  <2>5. /\ t \in [DOMAIN in.page_table -> PageTableEntry]
        /\ \A p \in DOMAIN in.page_table : /\ t[p].frame = in.page_table[p].frame
                                           /\ t[p].copied => in.page_table[p].copied
    <3> SUFFICES ASSUME NEW p \in DOMAIN in.page_table
                 PROVE  /\ t[p] \in PageTableEntry
                        /\ t[p].frame = in.page_table[p].frame
                        /\ t[p].copied => in.page_table[p].copied
      OBVIOUS
    <3> DEFINE c == in.page_table[p].copied /\ p \notin pages
    <3>1. c \in BOOLEAN /\ (c => in.page_table[p].copied)
      BY <2>4, Zenon
    <3>2. t[p] = [in.page_table[p] EXCEPT !.copied = c]
      BY Zenon
    <3> HIDE DEF c, t
    <3>3. LET y == [in.page_table[p] EXCEPT !.copied = c]
          IN  y \in PageTableEntry /\ y.frame = in.page_table[p].frame /\ (y.copied => c)
      BY <2>1, <2>2, <3>1, Zenon
    <3>4. t[p] \in PageTableEntry /\ t[p].frame = in.page_table[p].frame /\ (t[p].copied => c)
      BY <3>2, <3>3, Zenon
    <3> QED
      BY <3>1, <3>4, Zenon
  <2> HIDE DEF t
  <2> QED
    BY <2>3, <2>5, ReflagOK
<1> QED
  BY <1>1, <1>2

LEMMA ApplyOK ==
  ASSUME elf \in ElfFile, NEW in, InnerOK(in), in.result = "ok", NEW r
  PROVE  InnerOK(apply_relocation(in, r))
<1>1. InnerOK(fail(in, "panic")) /\ InnerOK(fail(in, "err"))
  BY FailOK DEF Results
<1>2. InnerOK(copy_to(in, virtual_address_offset + r.offset, virtual_address_offset + r.addend))
  BY CopyToOK
<1> QED
  BY <1>1, <1>2, Zenon DEF apply_relocation

-----------------------------------------------------------------------------
(***************************************************************************)
(* Pages and addresses.                                                    *)
(***************************************************************************)

LEMMA PageBounds ==
  ASSUME NEW a \in Int
  PROVE  /\ page_of(a) \in Int /\ page_of(a) * PAGE_SIZE \in Int
         /\ a % PAGE_SIZE \in 0 .. PAGE_SIZE - 1
         /\ a % PAGE_SIZE = a - page_of(a) * PAGE_SIZE
<1>1. a % PAGE_SIZE = a - (a \div PAGE_SIZE) * PAGE_SIZE
  BY SizeFacts
<1>2. a % PAGE_SIZE \in 0 .. PAGE_SIZE - 1
  BY SizeFacts
<1>3. a \div PAGE_SIZE \in Int /\ (a \div PAGE_SIZE) * PAGE_SIZE \in Int
  BY SizeFacts
<1> QED
  BY <1>1, <1>2, <1>3, Zenon DEF page_of

LEMMA PageMonotone ==
  ASSUME NEW a \in Int, NEW b \in Int, a <= b
  PROVE  page_of(a) <= page_of(b)
BY SizeFacts DEF page_of

LEMMA PageUnique ==
  ASSUME NEW q \in Int, NEW r \in 0 .. PAGE_SIZE - 1
  PROVE  page_of(q * PAGE_SIZE + r) = q /\ (q * PAGE_SIZE + r) % PAGE_SIZE = r
<1>1. (q * PAGE_SIZE + r) \div PAGE_SIZE = q
  BY SizeFacts
<1>2. (q * PAGE_SIZE + r) % PAGE_SIZE = r
  BY SizeFacts
<1> QED
  BY <1>1, <1>2 DEF page_of

LEMMA PageShifted ==
  ASSUME NEW a \in Int, NEW d \in Int
  PROVE  /\ page_of(a + d * PAGE_SIZE) = page_of(a) + d
         /\ (a + d * PAGE_SIZE) % PAGE_SIZE = a % PAGE_SIZE
<1> DEFINE r == a % PAGE_SIZE
           q == page_of(a)
<1>1. q \in Int /\ r \in 0 .. PAGE_SIZE - 1 /\ r = a - q * PAGE_SIZE
  BY PageBounds, Zenon
<1> HIDE DEF q, r
<1>2. (q + d) * PAGE_SIZE + r = a + d * PAGE_SIZE
  <2>1. (q + d) * PAGE_SIZE = q * PAGE_SIZE + d * PAGE_SIZE
    BY <1>1, SizeFacts
  <2>2. q * PAGE_SIZE \in Int /\ d * PAGE_SIZE \in Int
    BY <1>1, SizeFacts
  <2> QED
    BY <1>1, <2>1, <2>2
<1>3. page_of((q + d) * PAGE_SIZE + r) = q + d /\ ((q + d) * PAGE_SIZE + r) % PAGE_SIZE = r
  BY <1>1, PageUnique
<1> QED
  BY <1>2, <1>3 DEF q, r

\* The last page before z, and the page where the alignment of z begins.
LEMMA PageBefore ==
  ASSUME NEW z \in Int
  PROVE  /\ page_of(align_up(z)) = page_of(z - 1) + 1
         /\ z % PAGE_SIZE # 0 => page_of(z) = page_of(z - 1)
         /\ z % PAGE_SIZE = 0 => page_of(z) = page_of(z - 1) + 1
<1> DEFINE q == page_of(z)
           r == z % PAGE_SIZE
<1>1. q \in Int /\ r \in 0 .. PAGE_SIZE - 1 /\ r = z - q * PAGE_SIZE
  BY PageBounds, Zenon
<1>2. PAGE_SIZE \in Int /\ PAGE_SIZE > 0 /\ q * PAGE_SIZE \in Int
  BY <1>1, SizeFacts
<1> DEFINE d == page_of(z - 1)
<1>3. d \in Int
  BY PageBounds
<1>4. page_of(align_up(z)) = d + 1
  <2>1. z + PAGE_SIZE - 1 = (z - 1) + 1 * PAGE_SIZE
    BY SizeFacts
  <2>2. page_of((z - 1) + 1 * PAGE_SIZE) = d + 1
    BY PageShifted
  <2>3. align_up(z) = page_of(z + PAGE_SIZE - 1) * PAGE_SIZE
    BY DEF align_up, page_of
  <2> DEFINE u == d + 1
  <2>4. align_up(z) = u * PAGE_SIZE + 0
    <3>1. u \in Int /\ u * PAGE_SIZE \in Int
      BY <1>3, SizeFacts
    <3>2. align_up(z) = u * PAGE_SIZE
      BY <2>1, <2>2, <2>3
    <3> QED
      BY <3>1, <3>2
  <2>5. u \in Int /\ 0 \in 0 .. PAGE_SIZE - 1
    BY <1>2, <1>3
  <2> HIDE DEF u
  <2>6. page_of(u * PAGE_SIZE + 0) = u
    BY <2>5, PageUnique
  <2> QED
    BY <2>4, <2>6 DEF u
<1>5. r # 0 => q = d
  <2> SUFFICES ASSUME r # 0 PROVE q = d
    OBVIOUS
  <2>1. z - 1 = q * PAGE_SIZE + (r - 1) /\ r - 1 \in 0 .. PAGE_SIZE - 1
    <3> HIDE DEF q, r
    <3> QED BY <1>1, <1>2
  <2> QED
    BY <1>1, <2>1, PageUnique
<1>6. r = 0 => q = d + 1
  <2> SUFFICES ASSUME r = 0 PROVE q = d + 1
    OBVIOUS
  <2>1. (q - 1) * PAGE_SIZE = q * PAGE_SIZE - PAGE_SIZE
    BY <1>1, SizeFacts
  <2>2. z - 1 = (q - 1) * PAGE_SIZE + (PAGE_SIZE - 1) /\ PAGE_SIZE - 1 \in 0 .. PAGE_SIZE - 1
    <3> HIDE DEF q, r
    <3> QED BY <1>1, <1>2, <2>1
  <2>3. d = q - 1
    BY <1>1, <2>2, PageUnique
  <2> QED
    BY <1>1, <2>3
<1> QED
  BY <1>4, <1>5, <1>6

\* Addresses of one page are ordered as their offsets in it.
LEMMA OffsetOrder ==
  ASSUME NEW a \in Int, NEW b \in Int, page_of(a) = page_of(b)
  PROVE  a < b <=> a % PAGE_SIZE < b % PAGE_SIZE
<1> DEFINE m == page_of(b) * PAGE_SIZE
           r == a % PAGE_SIZE
           s == b % PAGE_SIZE
<1>1. m \in Int /\ r \in Int /\ s \in Int
  BY PageBounds, SizeFacts
<1>2. r = a - m /\ s = b - m
  BY PageBounds, Zenon
<1> HIDE DEF m, r, s
<1>3. a < b <=> r < s
  BY <1>1, <1>2
<1> QED
  BY <1>3 DEF r, s

-----------------------------------------------------------------------------
(***************************************************************************)
(* What a page reads as, and its protection.                               *)
(***************************************************************************)
Content(in, p) == in.memory[in.page_table[p].frame]

\* Every page of in is still mapped, with the same protection ...
SameFlags(in, out) ==
  \A p \in DOMAIN in.page_table :
    /\ p \in DOMAIN out.page_table
    /\ out.page_table[p].writable = in.page_table[p].writable
    /\ out.page_table[p].no_execute = in.page_table[p].no_execute

\* ... and reads as before.
SameContent(in, out) == \A p \in DOMAIN in.page_table : Content(out, p) = Content(in, p)

LEMMA FrameBelow ==
  ASSUME elf \in ElfFile, NEW in, InnerOK(in), NEW p \in DOMAIN in.page_table
  PROVE  /\ in.page_table[p] \in PageTableEntry
         /\ in.page_table[p].frame \in Frames
         /\ in.page_table[p].frame \in Int
         /\ in.page_table[p].frame < FileFrames + in.used
         /\ in.used \in Nat
<1>1. in.page_table[p] \in PageTableEntry
  BY DEF InnerOK, IsInner
<1>2. \A x \in PageTableEntry : x.frame \in Frames
  BY DEF PageTableEntry
<1>3. Frames \subseteq Int
  BY FileFramesNat DEF Frames
<1>4. in.used \in Nat
  BY FileFramesNat DEF InnerOK, IsInner
<1> QED
  BY <1>1, <1>2, <1>3, <1>4 DEF InnerOK, OnlyTaken

\* The copy of a page is the page, and no page had its frame.
LEMMA CopyPageView ==
  ASSUME elf \in ElfFile, NEW in, InnerOK(in), has_frames(in, 1),
         NEW p \in DOMAIN in.page_table
  PROVE  SameFlags(in, copy_page(in, p)) /\ SameContent(in, copy_page(in, p))
<1> DEFINE nf == next_frame(in)
           e  == [in.page_table[p] EXCEPT !.frame = nf, !.copied = TRUE]
           t  == [in.page_table EXCEPT ![p] = e]
           m  == [in.memory EXCEPT ![nf] = in.memory[in.page_table[p].frame]]
           out == copy_page(in, p)
<1>1. IsInner(in) /\ DOMAIN in.memory = Frames
  BY DEF InnerOK, IsInner
<1>2. out.page_table = t /\ out.memory = m
  <2>1. out = [in EXCEPT !.memory = m, !.page_table = t, !.used = in.used + 1]
    BY DEF copy_page
  <2> HIDE DEF out, m, t
  <2> QED
    BY <1>1, <2>1 DEF IsInner
<1>3. e.frame = nf /\ e.writable = in.page_table[p].writable /\ e.no_execute = in.page_table[p].no_execute
  BY FrameBelow DEF PageTableEntry
<1>4. /\ DOMAIN t = DOMAIN in.page_table
      /\ \A q \in DOMAIN in.page_table : t[q] = IF q = p THEN e ELSE in.page_table[q]
  OBVIOUS
<1>5. nf \in Frames /\ nf = FileFrames + in.used
  BY NextFrameFree
<1>6. m[nf] = in.memory[in.page_table[p].frame] /\ \A f \in Frames : f # nf => m[f] = in.memory[f]
  BY <1>1, <1>5
<1>7. \A q \in DOMAIN in.page_table : in.page_table[q].frame \in Frames /\ in.page_table[q].frame # nf
  BY <1>5, FrameBelow, FileFramesNat
<1> HIDE DEF nf, e, t, m, out
<1>8. SameFlags(in, out)
  BY <1>2, <1>3, <1>4 DEF SameFlags
<1>9. SameContent(in, out)
  BY <1>2, <1>3, <1>4, <1>6, <1>7 DEF SameContent, Content
<1> QED
  BY <1>8, <1>9 DEF out

LEMMA FailResult ==
  ASSUME NEW in, InnerOK(in), NEW how \in Results
  PROVE  fail(in, how).result = how
BY FailOK

LEMMA MakeMutView ==
  ASSUME elf \in ElfFile, NEW in, InnerOK(in), in.result = "ok", NEW p,
         make_mut(in, p).result = "ok"
  PROVE  /\ p \in DOMAIN in.page_table
         /\ SameFlags(in, make_mut(in, p)) /\ SameContent(in, make_mut(in, p))
<1>1. "panic" \in Results /\ "panic" # "ok"
  BY DEF Results
<1>2. CASE p \notin DOMAIN in.page_table
  BY <1>1, <1>2, FailResult DEF make_mut
<1>3. CASE p \in DOMAIN in.page_table /\ in.page_table[p].copied
  BY <1>3 DEF make_mut, SameFlags, SameContent
<1>4. CASE p \in DOMAIN in.page_table /\ ~in.page_table[p].copied /\ ~has_frames(in, 1)
  BY <1>1, <1>4, FailResult DEF make_mut
<1>5. CASE p \in DOMAIN in.page_table /\ ~in.page_table[p].copied /\ has_frames(in, 1)
  BY <1>5, CopyPageView DEF make_mut
<1> QED
  BY <1>2, <1>3, <1>4, <1>5

Overwritten(page, bytes) == [o \in Offsets |-> IF o \in DOMAIN bytes THEN bytes[o] ELSE page[o]]

\* A write is seen in the page it is for, and in no other.
LEMMA WriteView ==
  ASSUME elf \in ElfFile, NEW in, InnerOK(in), in.result = "ok", NEW p, NEW bytes,
         write(in, p, bytes).result = "ok"
  PROVE  /\ p \in DOMAIN in.page_table
         /\ SameFlags(in, write(in, p, bytes))
         /\ Content(write(in, p, bytes), p) = Overwritten(Content(in, p), bytes)
         /\ \A q \in DOMAIN in.page_table : q # p => Content(write(in, p, bytes), q) = Content(in, q)
<1> DEFINE mut == make_mut(in, p)
           f   == mut.page_table[p].frame
           new == [o \in Offsets |-> IF o \in DOMAIN bytes THEN bytes[o] ELSE mut.memory[f][o]]
           m   == [mut.memory EXCEPT ![f] = new]
           out == write(in, p, bytes)
<1>1. mut.result = "ok"
  BY DEF write
<1>2. InnerOK(mut) /\ p \in DOMAIN mut.page_table /\ mut.page_table[p].copied
  BY <1>1, MakeMutOK
<1>3. p \in DOMAIN in.page_table /\ SameFlags(in, mut) /\ SameContent(in, mut)
  BY <1>1, MakeMutView
<1>4. out = [mut EXCEPT !.memory = m]
  BY <1>1 DEF write
<1> HIDE DEF mut, out
<1>5. out.page_table = mut.page_table /\ out.memory = m
  BY <1>2, <1>4 DEF InnerOK, IsInner
<1>6. f >= FileFrames /\ DOMAIN mut.memory = Frames
  BY <1>2 DEF InnerOK, CopiedElsewhere, IsInner
<1>7. \A q \in DOMAIN mut.page_table : mut.page_table[q].frame \in Frames
  BY <1>2, FrameBelow
<1>8. \A q \in DOMAIN mut.page_table : q # p => mut.page_table[q].frame # f
  BY <1>2, <1>6 DEF InnerOK, Owned
<1>9. m[f] = new /\ \A g \in Frames : g # f => m[g] = mut.memory[g]
  BY <1>2, <1>6, <1>7
<1>10. new = Overwritten(Content(mut, p), bytes)
  BY DEF Overwritten, Content
<1> HIDE DEF new, m, f
<1>11. SameFlags(in, out)
  BY <1>3, <1>5 DEF SameFlags
<1>12. Content(out, p) = Overwritten(Content(in, p), bytes)
  <2>1. Content(out, p) = new
    BY <1>5, <1>9 DEF Content, f
  <2>2. Content(mut, p) = Content(in, p)
    BY <1>3 DEF SameContent
  <2> QED
    BY <1>10, <2>1, <2>2
<1>13. \A q \in DOMAIN in.page_table : q # p => Content(out, q) = Content(in, q)
  <2> SUFFICES ASSUME NEW q \in DOMAIN in.page_table, q # p PROVE Content(out, q) = Content(in, q)
    OBVIOUS
  <2>1. q \in DOMAIN mut.page_table /\ Content(mut, q) = Content(in, q)
    BY <1>3 DEF SameFlags, SameContent
  <2>2. Content(out, q) = Content(mut, q)
    BY <1>5, <1>7, <1>8, <1>9, <2>1 DEF Content
  <2> QED
    BY <2>1, <2>2
<1> QED
  BY <1>3, <1>11, <1>12, <1>13 DEF out

LEMMA ByteIsContent ==
  ASSUME NEW in, NEW a
  PROVE  byte_at(in, a) = Content(in, page_of(a))[a % PAGE_SIZE]
BY DEF byte_at, Content

LEMMA OffsetsOf == ASSUME NEW a \in Int PROVE a % PAGE_SIZE \in Offsets
BY PageBounds DEF Offsets

\* A write of a part of a word, as the addresses of the page see it.
LEMMA WriteWordView ==
  ASSUME elf \in ElfFile, NEW in, InnerOK(in), in.result = "ok",
         NEW p, NEW addr \in Int, NEW value,
         write(in, p, word_bytes(p, addr, value)).result = "ok",
         NEW a \in Int, page_of(a) \in DOMAIN in.page_table
  PROVE  byte_at(write(in, p, word_bytes(p, addr, value)), a) =
           IF page_of(a) = p /\ a \in addr .. addr + WORD_SIZE - 1
           THEN WordByte(value, a - addr) ELSE byte_at(in, a)
<1> DEFINE out   == write(in, p, word_bytes(p, addr, value))
           bytes == word_bytes(p, addr, value)
           o     == a % PAGE_SIZE
           word  == addr .. addr + WORD_SIZE - 1
<1>1. CASE page_of(a) # p
  BY <1>1, WriteView DEF byte_at, Content
<1>2. CASE page_of(a) = p
  <2>1. o \in Offsets
    BY OffsetsOf
  <2>2. p * PAGE_SIZE + o = a
    <3> DEFINE m == p * PAGE_SIZE
    <3>1. m \in Int /\ o \in Int /\ o = a - m
      BY <1>2, PageBounds
    <3> HIDE DEF m, o
    <3>2. m + o = a
      BY <3>1
    <3> QED
      BY <3>2 DEF m
  <2>3. /\ o \in DOMAIN bytes <=> a \in word
        /\ a \in word => bytes[o] = WordByte(value, a - addr)
    <3>1. DOMAIN bytes = {u \in Offsets : p * PAGE_SIZE + u \in word}
      BY DEF word_bytes
    <3>2. o \in DOMAIN bytes => bytes[o] = WordByte(value, p * PAGE_SIZE + o - addr)
      BY DEF word_bytes
    <3> DEFINE b == p * PAGE_SIZE + o
    <3>3. o \in DOMAIN bytes <=> b \in word
      BY <2>1, <3>1, Zenon
    <3>4. o \in DOMAIN bytes => bytes[o] = WordByte(value, b - addr)
      <4> DEFINE m == p * PAGE_SIZE
      <4>1. m \in Int /\ o \in Int
        BY <1>2, PageBounds
      <4>2. o \in DOMAIN bytes => bytes[o] = WordByte(value, m + (o - addr))
        BY <3>2, Zenon
      <4> HIDE DEF m, o, bytes
      <4>3. m + (o - addr) = (m + o) - addr
        BY <4>1
      <4> QED
        BY <4>2, <4>3, Zenon DEF m
    <3>5. b = a
      BY <2>2, Zenon
    <3> HIDE DEF bytes, o, word, b
    <3> QED
      BY <3>3, <3>4, <3>5, Zenon
  <2>4. Content(out, p) = Overwritten(Content(in, p), bytes)
    BY WriteView
  <2> HIDE DEF bytes, out, word
  <2>5. Content(out, p)[o] = IF o \in DOMAIN bytes THEN bytes[o] ELSE Content(in, p)[o]
    BY <2>1, <2>4 DEF Overwritten
  <2>6. byte_at(out, a) = Content(out, p)[o] /\ byte_at(in, a) = Content(in, p)[o]
    BY <1>2 DEF byte_at, Content
  <2>7. byte_at(out, a) = IF a \in word THEN WordByte(value, a - addr) ELSE byte_at(in, a)
    BY <2>3, <2>5, <2>6
  <2> QED
    BY <1>2, <2>7 DEF out, word, bytes
<1> QED
  BY <1>1, <1>2

\* A word is shorter than a page: it lies in one page or in two that follow.
LEMMA WordInPages ==
  ASSUME NEW addr \in Int, NEW a \in addr .. addr + WORD_SIZE - 1
  PROVE  page_of(a) \in {page_of(addr), page_of(addr + WORD_SIZE - 1)}
<1> DEFINE e == addr + WORD_SIZE - 1
<1>1. e \in Int /\ addr <= a /\ a <= e /\ e <= addr + PAGE_SIZE - 1 /\ a \in Int
  BY SizesAssumption
<1> HIDE DEF e
<1>2. page_of(addr) <= page_of(a) /\ page_of(a) <= page_of(e)
  BY <1>1, PageMonotone
<1>3. page_of(e) <= page_of(addr) + 1
  <2>1. e <= addr + 1 * PAGE_SIZE /\ addr + 1 * PAGE_SIZE \in Int
    BY <1>1, SizeFacts
  <2>2. page_of(addr + 1 * PAGE_SIZE) = page_of(addr) + 1
    BY PageShifted
  <2> QED
    BY <1>1, <2>1, <2>2, PageMonotone
<1>4. page_of(addr) \in Int /\ page_of(a) \in Int /\ page_of(e) \in Int
  BY <1>1, PageBounds
<1> QED
  BY <1>2, <1>3, <1>4 DEF e

\* copy_to changes the bytes of the word and nothing else.
LEMMA CopyToView ==
  ASSUME elf \in ElfFile, NEW in, InnerOK(in), in.result = "ok",
         NEW addr \in Int, NEW value, copy_to(in, addr, value).result = "ok"
  PROVE  /\ SameFlags(in, copy_to(in, addr, value))
         /\ \A a \in Int : page_of(a) \in DOMAIN in.page_table =>
              byte_at(copy_to(in, addr, value), a) =
                IF a \in addr .. addr + WORD_SIZE - 1
                THEN WordByte(value, a - addr) ELSE byte_at(in, a)
<1> DEFINE start   == page_of(addr)
           end     == page_of(addr + WORD_SIZE - 1)
           started == write(in, start, word_bytes(start, addr, value))
           ended   == write(started, end, word_bytes(end, addr, value))
           out     == copy_to(in, addr, value)
           word    == addr .. addr + WORD_SIZE - 1
<1>1. out = IF started.result # "ok" \/ start = end THEN started ELSE ended
  BY DEF copy_to
<1>2. started.result = "ok"
  BY <1>1
<1>3. InnerOK(started) /\ SameFlags(in, started)
  BY <1>2, WriteOK, WriteView
<1>4. \A a \in Int : page_of(a) \in DOMAIN in.page_table =>
        byte_at(started, a) = IF page_of(a) = start /\ a \in word THEN WordByte(value, a - addr)
                              ELSE byte_at(in, a)
  BY <1>2, WriteWordView
<1>5. \A a \in word : page_of(a) \in {start, end}
  BY WordInPages
<1> HIDE DEF out, started, start, end, word
<1>6. CASE start = end
  <2>1. out = started
    BY <1>1, <1>2, <1>6
  <2> QED
    BY <1>3, <1>4, <1>5, <1>6, <2>1 DEF out, word
<1>7. CASE start # end
  <2>1. out = ended /\ ended.result = "ok"
    BY <1>1, <1>2, <1>7 DEF out
  <2>2. SameFlags(started, ended)
    BY <1>2, <1>3, <2>1, WriteView
  <2>3. \A a \in Int : page_of(a) \in DOMAIN started.page_table =>
          byte_at(ended, a) = IF page_of(a) = end /\ a \in word THEN WordByte(value, a - addr)
                              ELSE byte_at(started, a)
    BY <1>2, <1>3, <2>1, WriteWordView DEF word
  <2> HIDE DEF ended
  <2>4. SameFlags(in, out)
    BY <1>3, <2>1, <2>2 DEF SameFlags
  <2>5. \A a \in Int : page_of(a) \in DOMAIN in.page_table =>
          byte_at(out, a) = IF a \in word THEN WordByte(value, a - addr) ELSE byte_at(in, a)
    <3> SUFFICES ASSUME NEW a \in Int, page_of(a) \in DOMAIN in.page_table
                 PROVE  byte_at(out, a) = IF a \in word THEN WordByte(value, a - addr) ELSE byte_at(in, a)
      OBVIOUS
    <3>1. page_of(a) \in DOMAIN started.page_table
      BY <1>3 DEF SameFlags
    <3> QED
      BY <1>4, <1>5, <2>1, <2>3, <3>1
  <2> QED
    BY <2>4, <2>5 DEF out, word
<1> QED
  BY <1>6, <1>7

LEMMA ApplyView ==
  ASSUME elf \in ElfFile, NEW in, InnerOK(in), in.result = "ok", NEW r \in Rela,
         apply_relocation(in, r).result = "ok"
  PROVE  /\ SameFlags(in, apply_relocation(in, r))
         /\ \A a \in Int : page_of(virtual_address_offset + a) \in DOMAIN in.page_table =>
              byte_at(apply_relocation(in, r), virtual_address_offset + a) =
                IF a \in r.offset .. r.offset + WORD_SIZE - 1
                THEN WordByte(virtual_address_offset + r.addend, a - r.offset)
                ELSE byte_at(in, virtual_address_offset + a)
<1> DEFINE v     == virtual_address_offset
           value == virtual_address_offset + r.addend
           addr  == virtual_address_offset + r.offset
           out   == apply_relocation(in, r)
<1>1. fail(in, "panic").result # "ok" /\ fail(in, "err").result # "ok"
  BY FailResult DEF Results
<1>2. out = copy_to(in, addr, value)
  BY <1>1 DEF apply_relocation
<1>3. v \in Int /\ r.offset \in Int /\ addr \in Int /\ addr = v + r.offset /\ WORD_SIZE \in Int
  BY OffsetInt, SizeFacts DEF Rela
<1>4. copy_to(in, addr, value).result = "ok"
  BY <1>2
<1> HIDE DEF v, addr, value, out
<1>5. /\ SameFlags(in, out)
      /\ \A a \in Int : page_of(a) \in DOMAIN in.page_table =>
           byte_at(out, a) = IF a \in addr .. addr + WORD_SIZE - 1
                             THEN WordByte(value, a - addr) ELSE byte_at(in, a)
  BY <1>2, <1>3, <1>4, CopyToView
<1>6. ASSUME NEW a \in Int, page_of(v + a) \in DOMAIN in.page_table
      PROVE  byte_at(out, v + a) = IF a \in r.offset .. r.offset + WORD_SIZE - 1
                                   THEN WordByte(value, a - r.offset) ELSE byte_at(in, v + a)
  <2>1. v + a \in Int /\ (v + a) - addr = a - r.offset
    BY <1>3
  <2>2. v + a \in addr .. addr + WORD_SIZE - 1 <=> a \in r.offset .. r.offset + WORD_SIZE - 1
    BY <1>3
  <2> QED
    BY <1>5, <1>6, <2>1, <2>2
<1> QED
  BY <1>5, <1>6 DEF v, value, out

LEMMA ClearTailView ==
  ASSUME elf \in ElfFile, NEW in, InnerOK(in), in.result = "ok", NEW h \in ProgramHeader,
         clear_tail(in, h).result = "ok"
  PROVE  /\ SameFlags(in, clear_tail(in, h))
         /\ \A p \in DOMAIN in.page_table :
              (zero_start(h) % PAGE_SIZE = 0 \/ p # page_of(zero_start(h) - 1)) =>
                Content(clear_tail(in, h), p) = Content(in, p)
         /\ zero_start(h) % PAGE_SIZE # 0 =>
              \A o \in Offsets : Content(clear_tail(in, h), page_of(zero_start(h) - 1))[o] =
                IF o >= zero_start(h) % PAGE_SIZE THEN ZeroByte
                ELSE Content(in, page_of(zero_start(h) - 1))[o]
<1> DEFINE z     == zero_start(h) % PAGE_SIZE
           p     == page_of(zero_start(h) - 1)
           bytes == [o \in z .. PAGE_SIZE - 1 |-> ZeroByte]
           out   == clear_tail(in, h)
<1>1. CASE z = 0
  BY <1>1 DEF clear_tail, SameFlags
<1>2. CASE z # 0
  <2>1. out = write(in, p, bytes)
    BY <1>2 DEF clear_tail
  <2>2. /\ SameFlags(in, out) /\ Content(out, p) = Overwritten(Content(in, p), bytes)
        /\ \A q \in DOMAIN in.page_table : q # p => Content(out, q) = Content(in, q)
    <3>1. write(in, p, bytes).result = "ok"
      BY <2>1
    <3> HIDE DEF p, bytes, out
    <3> QED
      BY <2>1, <3>1, WriteView
  <2>3. zero_start(h) \in Int
    BY VirtInt DEF zero_start, ProgramHeader
  <2>4. z \in Int
    BY <2>3, PageBounds
  <2>5. DOMAIN bytes = z .. PAGE_SIZE - 1 /\ \A o \in DOMAIN bytes : bytes[o] = ZeroByte
    OBVIOUS
  <2> HIDE DEF z, p, bytes, out
  <2>6. \A o \in Offsets : o \in DOMAIN bytes <=> o >= z
    BY <2>4, <2>5, SizeFacts DEF Offsets
  <2>7. \A o \in Offsets : Content(out, p)[o] = IF o >= z THEN ZeroByte ELSE Content(in, p)[o]
    BY <2>2, <2>5, <2>6 DEF Overwritten
  <2> QED
    BY <1>2, <2>2, <2>7 DEF z, p, out
<1> QED
  BY <1>1, <1>2

LEMMA MapToView ==
  ASSUME NEW in,
         in = [page_table |-> in.page_table, memory |-> in.memory,
               used |-> in.used, result |-> in.result],
         NEW pages, mapped(in, pages) = {}, NEW shift, NEW h \in ProgramHeader
  PROVE  LET out == map_to(in, pages, shift, h)
         IN  /\ SameFlags(in, out) /\ SameContent(in, out)
             /\ \A p \in pages : /\ p \in DOMAIN out.page_table
                                 /\ out.page_table[p].writable = h.w
                                 /\ out.page_table[p].no_execute = ~h.x
                                 /\ Content(out, p) = in.memory[p + shift]
<1> DEFINE e(p) == [frame |-> p + shift, writable |-> h.w, no_execute |-> ~h.x, copied |-> FALSE]
           D    == DOMAIN in.page_table \cup pages
           t    == [p \in D |-> IF p \in pages THEN e(p) ELSE in.page_table[p]]
           out  == map_to(in, pages, shift, h)
<1>1. out = [in EXCEPT !.page_table = t]
  BY DEF map_to
<1> HIDE DEF out, t
<1>2. out.page_table = t /\ out.memory = in.memory
  BY <1>1
<1>3. DOMAIN t = D /\ \A p \in D : t[p] = IF p \in pages THEN e(p) ELSE in.page_table[p]
  BY DEF t
<1>4. \A p : e(p).frame = p + shift /\ e(p).writable = h.w /\ e(p).no_execute = ~h.x
  OBVIOUS
<1> HIDE DEF e
<1>5. \A p \in DOMAIN in.page_table : p \notin pages
  BY DEF mapped
<1>6. \A p \in DOMAIN in.page_table : p \in DOMAIN out.page_table /\ out.page_table[p] = in.page_table[p]
  BY <1>2, <1>3, <1>5
<1>7. \A p \in pages : p \in DOMAIN out.page_table /\ out.page_table[p] = e(p)
  BY <1>2, <1>3
<1>8. SameFlags(in, out) /\ SameContent(in, out)
  BY <1>2, <1>6 DEF SameFlags, SameContent, Content
<1>9. \A p \in pages : /\ p \in DOMAIN out.page_table
                       /\ out.page_table[p].writable = h.w
                       /\ out.page_table[p].no_execute = ~h.x
                       /\ Content(out, p) = in.memory[p + shift]
  <2> SUFFICES ASSUME NEW p \in pages
               PROVE  /\ p \in DOMAIN out.page_table
                      /\ out.page_table[p].writable = h.w
                      /\ out.page_table[p].no_execute = ~h.x
                      /\ Content(out, p) = in.memory[p + shift]
    BY Zenon
  <2>1. p \in DOMAIN out.page_table /\ out.page_table[p] = e(p)
    BY <1>7
  <2>2. e(p).frame = p + shift /\ e(p).writable = h.w /\ e(p).no_execute = ~h.x
    BY <1>4, Zenon
  <2> QED
    BY <1>2, <2>1, <2>2, Zenon DEF Content
<1> QED
  BY <1>8, <1>9, Zenon DEF out

\* The pages of zero-initialised data read as zero.
LEMMA MapZeroedView ==
  ASSUME elf \in ElfFile, NEW in, InnerOK(in), in.result = "ok", NEW h \in ProgramHeader,
         map_zeroed(in, h).result = "ok"
  PROVE  LET out == map_zeroed(in, h)
         IN  /\ SameFlags(in, out) /\ SameContent(in, out)
             /\ \A p \in bss_pages(h) : /\ p \in DOMAIN out.page_table
                                        /\ out.page_table[p].writable = h.w
                                        /\ out.page_table[p].no_execute = ~h.x
                                        /\ \A o \in Offsets : Content(out, p)[o] = ZeroByte
<1> DEFINE a       == page_of(align_up(zero_start(h)))
           b       == page_of(virt(h) + h.mem_size - 1)
           pages   == bss_pages(h)
           taken   == mapped(in, pages)
           reached == {p \in pages : \A q \in taken : p <= q}
           tables  == table_frames(in)
           first   == next_frame(in) + tables
           fresh   == first .. first + Cardinality(pages) - 1
           fill    == [f \in DOMAIN in.memory |-> IF f \in fresh THEN [o \in Offsets |-> ZeroByte]
                                                  ELSE in.memory[f]]
           zeroed  == [in EXCEPT !.memory = fill, !.used = in.used + tables + Cardinality(pages)]
           out     == map_zeroed(in, h)
<1>1. fail(in, "panic").result # "ok" /\ fail(in, "err").result # "ok"
  BY FailResult DEF Results
<1>2. CASE pages = {}
  <2>1. out = in
    BY <1>2, Zenon DEF map_zeroed
  <2> QED
    BY <1>2, <2>1 DEF SameFlags, SameContent
<1>3. CASE pages # {}
  <2>1. /\ taken = {} /\ has_frames(in, Cardinality(reached) + tables)
        /\ out = map_to(zeroed, pages, first - a, h)
    <3> HIDE DEF taken, reached, tables, pages, fresh, fill, zeroed, first, a
    <3>1. out = IF pages = {} THEN in
                ELSE IF ~has_frames(in, 1) THEN fail(in, "panic")
                ELSE IF ~has_frames(in, 1 + tables) THEN fail(in, "err")
                ELSE IF ~has_frames(in, Cardinality(reached) + tables) THEN fail(in, "panic")
                ELSE IF taken # {} THEN fail(in, "err")
                ELSE map_to(zeroed, pages, first - a, h)
      BY Zenon DEF map_zeroed, taken, reached, tables, pages, fresh, fill, zeroed, first, a
    <3> HIDE DEF out
    <3>2. out.result = "ok"
      BY Zenon DEF out
    <3> QED
      BY <1>1, <1>3, <3>1, <3>2, Zenon
  <2>2. a \in Int /\ b \in Int /\ pages = a .. b
    BY BssPages
  <2> HIDE DEF a, b
  <2>3. a <= b /\ Cardinality(pages) = b - a + 1 /\ reached = pages
    BY <1>3, <2>1, <2>2, FS_Interval
  <2>4. /\ DOMAIN in.memory = Frames /\ in.used \in Nat /\ tables \in Nat
        /\ in = [page_table |-> in.page_table, memory |-> in.memory, used |-> in.used, result |-> in.result]
    BY FileFramesNat, TableFramesNat DEF InnerOK, IsInner
  <2>5. first = FileFrames + in.used + tables /\ first \in Nat
    BY <2>4, FileFramesNat DEF next_frame
  <2>6. first + (b - a) < FileFrames + elf.free_frames
    <3>1. Cardinality(reached) + tables = b - a + 1 + tables
      BY <2>3
    <3>2. in.used + (b - a + 1 + tables) <= elf.free_frames
      BY <2>1, <3>1 DEF has_frames
    <3> DEFINE F == FileFrames
               E == elf.free_frames
               U == in.used
    <3>3. F \in Nat /\ E \in Nat /\ U \in Nat /\ tables \in Nat
      BY <2>4, FileFramesNat
    <3>4. first = F + U + tables /\ U + (b - a + 1 + tables) <= E
      BY <2>5, <3>2
    <3> HIDE DEF F, E, U, tables, first
    <3>5. first + (b - a) < F + E
      BY <2>2, <3>3, <3>4
    <3> QED
      BY <3>5 DEF F, E
  <2> HIDE DEF tables, first, pages, reached, taken
  <2>7. fresh = first .. first + (b - a)
    BY <2>2, <2>3, <2>5
  <2> DEFINE n == in.used + tables + Cardinality(pages)
  <2> HIDE DEF fresh, fill, n
  <2>8. /\ zeroed.page_table = in.page_table /\ zeroed.memory = fill
        /\ zeroed = [page_table |-> zeroed.page_table, memory |-> zeroed.memory,
                     used |-> zeroed.used, result |-> zeroed.result]
    <3>1. zeroed = [in EXCEPT !.memory = fill, !.used = n]
      BY DEF n
    <3> HIDE DEF zeroed
    <3>2. zeroed = [page_table |-> in.page_table, memory |-> fill, used |-> n, result |-> in.result]
      BY <2>4, <3>1
    <3> QED
      BY <3>2
  <2>9. /\ \A f \in Frames : f \in fresh => \A o \in Offsets : fill[f][o] = ZeroByte
        /\ \A f \in Frames : f \notin fresh => fill[f] = in.memory[f]
    BY <2>4 DEF fill
  <2> HIDE DEF zeroed
  <2>10. SameContent(in, zeroed)
    <3>1. \A p \in DOMAIN in.page_table : in.page_table[p].frame \in Frames /\ in.page_table[p].frame \notin fresh
      BY <2>4, <2>5, <2>7, FrameBelow, FileFramesNat
    <3> QED
      BY <2>8, <2>9, <3>1 DEF SameContent, Content
  <2>11. mapped(zeroed, pages) = {}
    BY <2>1, <2>8 DEF mapped, taken
  <2>12. /\ SameFlags(zeroed, out) /\ SameContent(zeroed, out)
         /\ \A p \in pages : /\ p \in DOMAIN out.page_table
                             /\ out.page_table[p].writable = h.w
                             /\ out.page_table[p].no_execute = ~h.x
                             /\ Content(out, p) = zeroed.memory[p + (first - a)]
    <3> DEFINE to == map_to(zeroed, pages, first - a, h)
    <3>1. /\ SameFlags(zeroed, to) /\ SameContent(zeroed, to)
          /\ \A p \in pages : /\ p \in DOMAIN to.page_table
                              /\ to.page_table[p].writable = h.w
                              /\ to.page_table[p].no_execute = ~h.x
                              /\ Content(to, p) = zeroed.memory[p + (first - a)]
      BY <2>8, <2>11, MapToView
    <3> HIDE DEF out, to
    <3>2. out = to
      BY <2>1 DEF to
    <3> QED
      BY <3>1, <3>2, Zenon
  <2> HIDE DEF out
  <2>13. SameFlags(in, out) /\ SameContent(in, out)
    BY <2>8, <2>10, <2>12 DEF SameFlags, SameContent
  <2>14. \A p \in pages : p + (first - a) \in Frames /\ p + (first - a) \in fresh
    <3> TAKE p \in pages
    <3> DEFINE F == FileFrames + elf.free_frames
               f == p + (first - a)
    <3>1. p \in a .. b /\ a \in Int /\ b \in Int /\ first \in Nat
      BY <2>2, <2>5
    <3>2. F \in Nat /\ first + (b - a) < F
      BY <2>6, FileFramesNat
    <3>3. F - 1 = FileFrames + elf.free_frames - 1
      BY FileFramesNat
    <3> HIDE DEF F
    <3>4. f \in first .. first + (b - a) /\ f \in 0 .. F - 1
      BY <3>1, <3>2
    <3>5. Frames = 0 .. F - 1
      BY <3>3, Zenon DEF Frames
    <3> HIDE DEF f
    <3>6. f \in Frames /\ f \in fresh
      BY <2>7, <3>4, <3>5, Zenon
    <3> QED
      BY <3>6, Zenon DEF f
  <2>15. \A p \in pages : \A o \in Offsets : Content(out, p)[o] = ZeroByte
    <3> TAKE p \in pages
    <3>1. Content(out, p) = fill[p + (first - a)]
      BY <2>8, <2>12, Zenon
    <3>2. \A o \in Offsets : fill[p + (first - a)][o] = ZeroByte
      BY <2>9, <2>14, Zenon
    <3> QED
      BY <3>1, <3>2, Zenon
  <2>16. \A p \in pages : /\ p \in DOMAIN out.page_table
                          /\ out.page_table[p].writable = h.w
                          /\ out.page_table[p].no_execute = ~h.x
                          /\ \A o \in Offsets : Content(out, p)[o] = ZeroByte
    BY <2>12, <2>15, Zenon
  <2> QED
    BY <2>13, <2>16, Zenon DEF out, pages
<1> QED
  BY <1>2, <1>3

\* A segment keeps its place in a page, so its frames are mapped in step.
LEMMA SegmentPlace ==
  ASSUME elf \in ElfFile, NEW h \in ProgramHeader, h.type = "Load", sanity_check(h), h \in Loads, PageCongruent,
         NEW k \in Int
  PROVE  /\ page_of(virt(h) + k) = page_of(h.offset + k) + file_shift(h)
         /\ (virt(h) + k) % PAGE_SIZE = (h.offset + k) % PAGE_SIZE
<1> DEFINE v == virt(h)
           o == h.offset
           d == page_of(v) - page_of(o)
<1>1. v \in Int /\ o \in Int
  BY VirtInt DEF ProgramHeader
<1>2. v % PAGE_SIZE = o % PAGE_SIZE
  BY DEF PageCongruent
<1> HIDE DEF v, o
<1>3. d \in Int /\ v = o + d * PAGE_SIZE
  <2> DEFINE x == page_of(v) * PAGE_SIZE
             y == page_of(o) * PAGE_SIZE
  <2>1. /\ page_of(v) \in Int /\ x \in Int /\ v % PAGE_SIZE \in Int /\ v % PAGE_SIZE = v - x
        /\ page_of(o) \in Int /\ y \in Int /\ o % PAGE_SIZE = o - y
    BY <1>1, PageBounds
  <2>2. d * PAGE_SIZE = x - y
    BY <2>1, SizeFacts
  <2>3. v = o + (x - y)
    <3> HIDE DEF x, y
    <3> QED BY <1>1, <1>2, <2>1
  <2> QED
    BY <2>1, <2>2, <2>3
<1>4. v + k = (o + k) + d * PAGE_SIZE
  <2> DEFINE x == d * PAGE_SIZE
  <2>1. x \in Int
    BY <1>3, SizeFacts
  <2>2. v = o + x
    BY <1>3
  <2> HIDE DEF x
  <2>3. v + k = (o + k) + x
    BY <1>1, <2>1, <2>2
  <2> QED
    BY <2>3 DEF x
<1>5. d = file_shift(h)
  BY DEF file_shift, v, o
<1> HIDE DEF d
<1>6. /\ page_of((o + k) + d * PAGE_SIZE) = page_of(o + k) + d
       /\ ((o + k) + d * PAGE_SIZE) % PAGE_SIZE = (o + k) % PAGE_SIZE
  BY <1>1, <1>3, PageShifted
<1> QED
  BY <1>4, <1>5, <1>6 DEF v, o

LEMMA FilePagesAre ==
  ASSUME elf \in ElfFile, NEW h \in ProgramHeader, h.type = "Load", sanity_check(h), h \in Loads, PageCongruent
  PROVE  file_pages(h) = page_of(virt(h)) .. page_of(virt(h) + h.file_size - 1)
<1> DEFINE d == file_shift(h)
           x == page_of(h.offset)
           y == page_of(h.offset + h.file_size - 1)
<1>1. virt(h) \in Int /\ h.offset \in Int /\ h.file_size - 1 \in Int
  BY VirtInt DEF ProgramHeader
<1>2. d \in Int /\ x \in Int /\ y \in Int
  BY <1>1, FileShiftInt, PageBounds
<1>3. page_of(virt(h)) = x + d
  <2>1. page_of(virt(h)) \in Int
    BY <1>1, PageBounds
  <2> QED
    BY <1>2, <2>1 DEF file_shift
<1>4. page_of(virt(h) + h.file_size - 1) = y + d
  <2>1. /\ virt(h) + h.file_size - 1 = virt(h) + (h.file_size - 1)
        /\ h.offset + h.file_size - 1 = h.offset + (h.file_size - 1)
    BY <1>1
  <2> QED
    BY <1>1, <2>1, SegmentPlace
<1>5. file_pages(h) = {f + d : f \in x .. y}
  BY DEF file_pages, pages_of
<1> HIDE DEF d, x, y
<1>6. {f + d : f \in x .. y} = x + d .. y + d
  <2>1. \A q \in x + d .. y + d : q - d \in x .. y /\ q = (q - d) + d
    BY <1>2
  <2>2. \A f \in x .. y : f + d \in x + d .. y + d
    BY <1>2
  <2> QED
    BY <2>1, <2>2
<1> QED
  BY <1>3, <1>4, <1>5, <1>6

\* The file's part of a segment, once it is mapped.
LEMMA MapFileView ==
  ASSUME elf \in ElfFile, NEW in, InnerOK(in), in.result = "ok",
         NEW h \in ProgramHeader, h.type = "Load", sanity_check(h), h \in Loads, PageCongruent,
         mapped(in, file_pages(h)) = {}, has_frames(in, FileTables(in, h))
  PROVE  LET out == FileMapped(in, h)
         IN  /\ SameFlags(in, out) /\ SameContent(in, out)
             /\ \A p \in file_pages(h) : /\ p \in DOMAIN out.page_table
                                         /\ out.page_table[p].writable = h.w
                                         /\ out.page_table[p].no_execute = ~h.x
             /\ \A k \in 0 .. h.file_size - 1 :
                  /\ page_of(virt(h) + k) \in file_pages(h)
                  /\ byte_at(out, virt(h) + k) = FileByte(h.offset + k)
<1> DEFINE took == FileTook(in, h)
           d    == file_shift(h)
           out  == FileMapped(in, h)
<1>1. /\ InnerOK(took) /\ took.page_table = in.page_table /\ took.memory = in.memory
      /\ took = [page_table |-> took.page_table, memory |-> took.memory,
                 used |-> took.used, result |-> took.result]
  <2>1. InnerOK(took) /\ took.page_table = in.page_table
    BY FileTookOK
  <2>2. took.memory = in.memory
    BY DEF FileTook, InnerOK, IsInner
  <2>3. took = [page_table |-> took.page_table, memory |-> took.memory,
                used |-> took.used, result |-> took.result]
    BY <2>1 DEF InnerOK, IsInner
  <2> QED
    BY <2>1, <2>2, <2>3
<1>2. out = map_to(took, file_pages(h), -d, h)
  BY DEF FileMapped
<1> HIDE DEF took, d, out
<1>3. mapped(took, file_pages(h)) = {}
  BY <1>1 DEF mapped
<1>4. /\ SameFlags(took, out) /\ SameContent(took, out)
      /\ \A p \in file_pages(h) : /\ p \in DOMAIN out.page_table
                                  /\ out.page_table[p].writable = h.w
                                  /\ out.page_table[p].no_execute = ~h.x
                                  /\ Content(out, p) = took.memory[p + (-d)]
  <2> DEFINE to == map_to(took, file_pages(h), -d, h)
  <2>1. /\ SameFlags(took, to) /\ SameContent(took, to)
        /\ \A p \in file_pages(h) : /\ p \in DOMAIN to.page_table
                                    /\ to.page_table[p].writable = h.w
                                    /\ to.page_table[p].no_execute = ~h.x
                                    /\ Content(to, p) = took.memory[p + (-d)]
    BY <1>1, <1>3, MapToView
  <2> HIDE DEF to
  <2>2. out = to
    BY <1>2 DEF to
  <2> QED
    BY <2>1, <2>2, Zenon
<1>5. SameFlags(in, out) /\ SameContent(in, out)
  BY <1>1, <1>4 DEF SameFlags, SameContent, Content
<1>6. ASSUME NEW k \in 0 .. h.file_size - 1
      PROVE  /\ page_of(virt(h) + k) \in file_pages(h)
             /\ byte_at(out, virt(h) + k) = FileByte(h.offset + k)
  <2> DEFINE a == virt(h) + k
             u == h.offset + k
             f == page_of(u)
             o == u % PAGE_SIZE
  <2>1. /\ virt(h) \in Int /\ h.offset \in Nat /\ h.file_size \in Nat /\ k \in Nat /\ k <= h.file_size - 1
        /\ elf.file_len \in Nat
    BY VirtInt DEF ProgramHeader, ElfFile
  <2>2. a \in Int /\ u \in Nat /\ u < elf.file_len
    BY <2>1 DEF sanity_check
  <2>3. page_of(a) = f + d /\ a % PAGE_SIZE = o
    BY <2>1, SegmentPlace DEF d
  <2>4. page_of(a) \in file_pages(h)
    <3>1. virt(h) <= a /\ a <= virt(h) + h.file_size - 1 /\ virt(h) + h.file_size - 1 \in Int
      BY <2>1
    <3>2. page_of(virt(h)) <= page_of(a) /\ page_of(a) <= page_of(virt(h) + h.file_size - 1)
      BY <2>1, <2>2, <3>1, PageMonotone
    <3>3. page_of(a) \in Int /\ page_of(virt(h)) \in Int /\ page_of(virt(h) + h.file_size - 1) \in Int
      BY <2>1, <2>2, <3>1, PageBounds
    <3>4. page_of(a) \in page_of(virt(h)) .. page_of(virt(h) + h.file_size - 1)
      BY <3>2, <3>3
    <3> QED
      BY <3>4, FilePagesAre
  <2>5. f \in Int /\ d \in Int /\ page_of(a) + (-d) = f
    <3>1. f \in Int /\ d \in Int
      BY <2>2, PageBounds, FileShiftInt DEF d
    <3> HIDE DEF f, a
    <3> QED
      BY <2>3, <3>1
  <2>6. f \in 0 .. FileFrames - 1
    BY <2>4, <2>5, FilePagesInFile DEF d
  <2>7. Content(out, page_of(a)) = FileImage(f)
    <3>1. Content(out, page_of(a)) = in.memory[f]
      BY <1>1, <1>4, <2>4, <2>5
    <3> QED
      BY <2>6, <3>1 DEF InnerOK, Untouched
  <2>8. o \in Offsets /\ f * PAGE_SIZE + o = u
    <3> DEFINE m == f * PAGE_SIZE
    <3>1. m \in Int /\ o \in Int /\ o = u - m /\ o \in Offsets
      BY <2>2, PageBounds, OffsetsOf
    <3> HIDE DEF m, o, u
    <3>2. m + o = u
      BY <2>2, <3>1
    <3> QED
      BY <3>1, <3>2 DEF m
  <2> HIDE DEF o, f, u
  <2>9. FileImage(f)[o] = FileByte(u)
    <3>1. FileImage(f)[o] = IF f * PAGE_SIZE + o < elf.file_len THEN FileByte(f * PAGE_SIZE + o) ELSE Junk
      BY <2>8 DEF FileImage
    <3> QED
      BY <2>2, <2>8, <3>1
  <2>10. byte_at(out, a) = FileByte(u)
    BY <2>3, <2>7, <2>9 DEF byte_at, Content
  <2> QED
    BY <2>4, <2>10 DEF u
<1> QED
  BY <1>4, <1>5, <1>6, Zenon DEF out

\* The byte of segment h that the file demands, before any relocation.
FileOrZero(h, k) == IF k < h.file_size THEN FileByte(h.offset + k) ELSE ZeroByte

\* The pages of a segment are those of the file's part and those after it.
LEMMA SegmentPages ==
  ASSUME elf \in ElfFile, NEW h \in ProgramHeader, h.type = "Load", sanity_check(h), h \in Loads, PageCongruent,
         NEW p \in mem_pages(h)
  PROVE  p \in file_pages(h) \/ (h.mem_size > h.file_size /\ p \in bss_pages(h))
<1> DEFINE v == virt(h)
           x == page_of(v)
           y == page_of(v + h.file_size - 1)
           z == page_of(v + h.mem_size - 1)
<1>1. v \in Int /\ h.file_size \in Nat /\ h.mem_size \in Nat /\ v + h.file_size - 1 \in Int /\ v + h.mem_size - 1 \in Int
  BY VirtInt DEF ProgramHeader
<1>2. x \in Int /\ y \in Int /\ z \in Int
  BY <1>1, PageBounds
<1>3. p \in x .. z
  BY DEF mem_pages, pages_of
<1>4. file_pages(h) = x .. y
  BY FilePagesAre
<1>5. h.mem_size <= h.file_size => z <= y
  <2>1. h.mem_size <= h.file_size => v + h.mem_size - 1 <= v + h.file_size - 1
    BY <1>1
  <2> QED
    BY <1>1, <2>1, PageMonotone
<1>6. bss_pages(h) = y + 1 .. z
  <2>1. zero_start(h) = v + h.file_size /\ zero_start(h) \in Int /\ zero_start(h) - 1 = v + h.file_size - 1
    BY <1>1 DEF zero_start
  <2>2. page_of(align_up(zero_start(h))) = page_of(zero_start(h) - 1) + 1
    BY <2>1, PageBefore
  <2> QED
    BY <2>1, <2>2 DEF bss_pages, pages_of
<1> HIDE DEF x, y, z, v
<1>7. p \in Int /\ x <= p /\ p <= z
  BY <1>2, <1>3
<1>8. CASE p <= y
  <2>1. p \in x .. y
    BY <1>2, <1>7, <1>8
  <2> QED
    BY <1>4, <2>1
<1>9. CASE p > y
  <2>1. p \in y + 1 .. z
    BY <1>2, <1>7, <1>9
  <2>2. h.mem_size > h.file_size
    BY <1>1, <1>2, <1>5, <1>7, <1>9
  <2> QED
    BY <1>6, <2>1, <2>2
<1> QED
  BY <1>2, <1>7, <1>8, <1>9

(***************************************************************************)
(* handle_load_segment: the segment's pages are mapped with its permissions*)
(* and read as the file demands, and no page mapped before is changed.     *)
(***************************************************************************)
LEMMA HandleLoadView ==
  ASSUME elf \in ElfFile, NEW in, InnerOK(in), in.result = "ok",
         NEW h \in ProgramHeader, h.type = "Load", sanity_check(h), h \in Loads, PageCongruent,
         handle_load_segment(in, h).result = "ok"
  PROVE  LET out == handle_load_segment(in, h)
         IN  /\ SameFlags(in, out) /\ SameContent(in, out)
             /\ \A p \in mem_pages(h) : /\ p \in DOMAIN out.page_table
                                        /\ out.page_table[p].writable = h.w
                                        /\ out.page_table[p].no_execute = ~h.x
             /\ \A k \in 0 .. h.mem_size - 1 : byte_at(out, virt(h) + k) = FileOrZero(h, k)
<1> DEFINE file    == FileMapped(in, h)
           cleared == clear_tail(file, h)
           out     == handle_load_segment(in, h)
           v       == virt(h)
           z       == zero_start(h)
<1>1. /\ mapped(in, file_pages(h)) = {} /\ has_frames(in, FileTables(in, h))
      /\ out = IF h.mem_size > h.file_size THEN handle_bss_section(file, h) ELSE file
  <2>1. fail(in, "err").result # "ok"
    BY FailResult DEF Results
  <2> QED
    BY <2>1, HandleLoadCases
<1>2. InnerOK(file) /\ file.result = "ok"
  BY <1>1, MapFileOK
<1>3. /\ SameFlags(in, file) /\ SameContent(in, file)
      /\ \A p \in file_pages(h) : /\ p \in DOMAIN file.page_table
                                  /\ file.page_table[p].writable = h.w
                                  /\ file.page_table[p].no_execute = ~h.x
      /\ \A k \in 0 .. h.file_size - 1 :
           /\ page_of(v + k) \in file_pages(h)
           /\ byte_at(file, v + k) = FileByte(h.offset + k)
  BY <1>1, MapFileView
<1>4. v \in Int /\ h.file_size \in Nat /\ h.mem_size \in Nat /\ z \in Int /\ z = v + h.file_size
  BY VirtInt DEF zero_start, ProgramHeader
<1> HIDE DEF file, out, v
<1>5. CASE h.mem_size <= h.file_size
  <2>1. out = file
    BY <1>1, <1>4, <1>5
  <2>2. \A p \in mem_pages(h) : p \in file_pages(h)
    BY <1>4, <1>5, SegmentPages
  <2>3. \A k \in 0 .. h.mem_size - 1 : k \in 0 .. h.file_size - 1 /\ FileOrZero(h, k) = FileByte(h.offset + k)
    BY <1>4, <1>5 DEF FileOrZero
  <2>4. \A k \in 0 .. h.mem_size - 1 : byte_at(out, v + k) = FileOrZero(h, k)
    BY <1>3, <2>1, <2>3, Zenon
  <2>5. \A p \in mem_pages(h) : /\ p \in DOMAIN out.page_table
                                /\ out.page_table[p].writable = h.w
                                /\ out.page_table[p].no_execute = ~h.x
    BY <1>3, <2>1, <2>2, Zenon
  <2> QED
    BY <1>3, <2>1, <2>4, <2>5, Zenon DEF out, v
<1>6. CASE h.mem_size > h.file_size
  <2>1. out = IF cleared.result = "ok" THEN map_zeroed(cleared, h) ELSE cleared
    BY <1>1, <1>6 DEF handle_bss_section
  <2>2. out.result = "ok"
    BY DEF out
  <2>3. InnerOK(cleared) /\ cleared.result = "ok" /\ out = map_zeroed(cleared, h)
    BY <1>2, <2>1, <2>2, ClearTailOK
  <2> DEFINE c == z % PAGE_SIZE
             t == page_of(z - 1)
  <2>4. /\ SameFlags(file, cleared)
        /\ \A p \in DOMAIN file.page_table : (c = 0 \/ p # t) => Content(cleared, p) = Content(file, p)
        /\ c # 0 => \A o \in Offsets : Content(cleared, t)[o] = IF o >= c THEN ZeroByte ELSE Content(file, t)[o]
    BY <1>2, <2>3, ClearTailView
  <2> HIDE DEF cleared
  <2>5. /\ SameFlags(cleared, out) /\ SameContent(cleared, out)
        /\ \A p \in bss_pages(h) : /\ p \in DOMAIN out.page_table
                                   /\ out.page_table[p].writable = h.w
                                   /\ out.page_table[p].no_execute = ~h.x
                                   /\ \A o \in Offsets : Content(out, p)[o] = ZeroByte
    <3> DEFINE to == map_zeroed(cleared, h)
    <3>1. /\ SameFlags(cleared, to) /\ SameContent(cleared, to)
          /\ \A p \in bss_pages(h) : /\ p \in DOMAIN to.page_table
                                     /\ to.page_table[p].writable = h.w
                                     /\ to.page_table[p].no_execute = ~h.x
                                     /\ \A o \in Offsets : Content(to, p)[o] = ZeroByte
      BY <2>2, <2>3, MapZeroedView
    <3> HIDE DEF to
    <3>2. out = to
      BY <2>3 DEF to
    <3> QED
      BY <3>1, <3>2, Zenon
  <2>6. /\ t \in Int /\ c \in 0 .. PAGE_SIZE - 1 /\ page_of(z) \in Int
        /\ c # 0 => page_of(z) = t
        /\ c = 0 => page_of(z) = t + 1
        /\ page_of(align_up(z)) = t + 1
    BY <1>4, PageBounds, PageBefore
  <2>7. c # 0 => t \in file_pages(h)
    <3>1. v <= z /\ z - 1 = v + h.file_size - 1
      BY <1>4
    <3>2. page_of(v) <= page_of(z) /\ page_of(v) \in Int
      BY <1>4, <3>1, PageMonotone, PageBounds
    <3>3. file_pages(h) = page_of(v) .. t
      BY <3>1, FilePagesAre DEF v
    <3> HIDE DEF t, c
    <3> QED
      BY <2>6, <3>2, <3>3
  <2>8. SameFlags(in, out)
    BY <1>3, <2>4, <2>5 DEF SameFlags
  <2>9. SameContent(in, out)
    <3> SUFFICES ASSUME NEW p \in DOMAIN in.page_table PROVE Content(out, p) = Content(in, p)
      BY DEF SameContent
    <3>1. p \notin file_pages(h)
      BY <1>1 DEF mapped
    <3>2. p \in DOMAIN file.page_table /\ p \in DOMAIN cleared.page_table
      BY <1>3, <2>4 DEF SameFlags
    <3>3. Content(file, p) = Content(in, p) /\ Content(out, p) = Content(cleared, p)
      BY <1>3, <2>5, <3>2 DEF SameContent
    <3>4. Content(cleared, p) = Content(file, p)
      BY <2>4, <2>7, <3>1, <3>2
    <3> QED
      BY <3>3, <3>4
  <2>10. \A p \in file_pages(h) : /\ p \in DOMAIN out.page_table
                                  /\ out.page_table[p].writable = h.w
                                  /\ out.page_table[p].no_execute = ~h.x
    BY <1>3, <2>4, <2>5, Zenon DEF SameFlags
  <2>11. \A p \in mem_pages(h) : p \in file_pages(h) \/ p \in bss_pages(h)
    BY SegmentPages
  <2>12. \A p \in mem_pages(h) : /\ p \in DOMAIN out.page_table
                                 /\ out.page_table[p].writable = h.w
                                 /\ out.page_table[p].no_execute = ~h.x
    BY <2>5, <2>10, <2>11, Zenon
  <2>13. ASSUME NEW k \in 0 .. h.mem_size - 1
         PROVE  byte_at(out, v + k) = FileOrZero(h, k)
    <3> DEFINE a == v + k
               p == page_of(a)
               o == a % PAGE_SIZE
    <3>1. a \in Int /\ k \in Int /\ 0 <= k /\ k < h.mem_size
      BY <1>4
    <3>2. p \in Int /\ o \in Offsets /\ o \in Int
      BY <3>1, PageBounds, OffsetsOf
    <3>3. byte_at(out, a) = Content(out, p)[o]
      BY DEF byte_at, Content
    <3>4. CASE k < h.file_size
      <4>1. p \in file_pages(h) /\ byte_at(file, a) = FileByte(h.offset + k) /\ FileOrZero(h, k) = FileByte(h.offset + k)
        BY <1>3, <1>4, <3>1, <3>4 DEF FileOrZero
      <4>2. Content(file, p)[o] = FileByte(h.offset + k)
        BY <4>1 DEF byte_at, Content
      <4>3. p \in DOMAIN file.page_table /\ p \in DOMAIN cleared.page_table
        BY <1>3, <2>4, <4>1 DEF SameFlags
      <4>4. Content(out, p) = Content(cleared, p)
        BY <2>5, <4>3 DEF SameContent
      <4>5. Content(cleared, p)[o] = Content(file, p)[o]
        <5>1. CASE c = 0 \/ p # t
          BY <2>4, <4>3, <5>1
        <5>2. CASE c # 0 /\ p = t
          <6>1. a < z
            BY <1>4, <3>1, <3>4
          <6>2. page_of(a) = page_of(z)
            BY <2>6, <5>2
          <6>3. o < c
            BY <1>4, <3>1, <6>1, <6>2, OffsetOrder
          <6> HIDE DEF o, c, p, t
          <6>4. ~(o >= c)
            BY <2>6, <3>2, <6>3, SizeFacts
          <6> QED
            BY <2>4, <3>2, <5>2, <6>4
        <5> QED
          BY <5>1, <5>2
      <4> QED
        BY <3>3, <4>1, <4>2, <4>4, <4>5
    <3>5. CASE k >= h.file_size
      <4>1. FileOrZero(h, k) = ZeroByte
        BY <1>4, <3>1, <3>5 DEF FileOrZero
      <4>2. z <= a /\ page_of(z) <= p
        <5>1. z <= a
          BY <1>4, <3>1, <3>5
        <5> QED
          BY <1>4, <3>1, <5>1, PageMonotone
      <4>3. CASE p <= t
        <5>1. c # 0 /\ p = t /\ page_of(z) = p
          <6> HIDE DEF c, p, t
          <6> QED BY <2>6, <3>2, <4>2, <4>3
        <5>2. o >= c
          <6>1. ~(a < z)
            BY <1>4, <3>1, <4>2
          <6>2. ~(o < c)
            BY <1>4, <3>1, <5>1, <6>1, OffsetOrder
          <6> HIDE DEF o, c
          <6> QED
            BY <2>6, <3>2, <6>2, SizeFacts
        <5> HIDE DEF o, c, t
        <5>3. Content(cleared, p)[o] = ZeroByte
          BY <2>4, <3>2, <5>1, <5>2
        <5>4. p \in DOMAIN cleared.page_table
          BY <1>3, <2>4, <2>7, <5>1 DEF SameFlags
        <5>5. Content(out, p) = Content(cleared, p)
          BY <2>5, <5>4 DEF SameContent
        <5> QED
          BY <3>3, <4>1, <5>3, <5>5
      <4>4. CASE p > t
        <5>1. a <= v + h.mem_size - 1 /\ v + h.mem_size - 1 \in Int
          BY <1>4, <3>1
        <5>2. p <= page_of(v + h.mem_size - 1) /\ page_of(v + h.mem_size - 1) \in Int
          BY <3>1, <5>1, PageMonotone, PageBounds
        <5>3. bss_pages(h) = t + 1 .. page_of(v + h.mem_size - 1)
          BY <2>6 DEF bss_pages, pages_of, v
        <5>4. p \in bss_pages(h)
          <6> HIDE DEF p, t
          <6> QED BY <2>6, <3>2, <4>4, <5>2, <5>3
        <5> QED
          BY <2>5, <3>2, <3>3, <4>1, <5>4
      <4> QED
        BY <2>6, <3>2, <4>3, <4>4
    <3> QED
      BY <1>4, <3>1, <3>4, <3>5
  <2> QED
    BY <2>8, <2>9, <2>12, <2>13, Zenon DEF out, v
<1> QED
  BY <1>4, <1>5, <1>6

-----------------------------------------------------------------------------
(***************************************************************************)
(* What holds of a segment that was loaded, when n relocations of the      *)
(* table's entries are applied and the pages of R are write-protected.     *)
(***************************************************************************)
Over(a, n) == {i \in 1 .. n : a \in elf.relocs[i].offset .. elf.relocs[i].offset + WORD_SIZE - 1}

LastOf(S) == CHOOSE i \in S : \A j \in S : j <= i

LastWord(a, n) ==
  LET r == elf.relocs[LastOf(Over(a, n))]
  IN  WordByte(virtual_address_offset + r.addend, a - r.offset)

PagesAs(in, h, R) ==
  \A p \in mem_pages(h) : /\ p \in DOMAIN in.page_table
                          /\ in.page_table[p].no_execute = ~h.x
                          /\ in.page_table[p].writable = (h.w /\ p \notin R)

BytesAs(in, h, n, entries) ==
  \A k \in 0 .. h.mem_size - 1 :
    /\ Over(h.virtual_addr + k, n) # {} =>
         byte_at(in, virt(h) + k) = LastWord(h.virtual_addr + k, n)
    /\ Over(h.virtual_addr + k, entries) = {} =>
         byte_at(in, virt(h) + k) = FileOrZero(h, k)

\* A byte of a segment lies in one of its pages.
LEMMA BytePage ==
  ASSUME elf \in ElfFile, NEW h \in ProgramHeader, NEW k \in 0 .. h.mem_size - 1
  PROVE  /\ page_of(virt(h) + k) \in mem_pages(h)
         /\ virt(h) + k \in Int /\ h.virtual_addr + k \in Int
         /\ virt(h) + k = virtual_address_offset + (h.virtual_addr + k)
<1>1. /\ virt(h) \in Int /\ h.mem_size \in Nat /\ h.virtual_addr \in Nat /\ virtual_address_offset \in Int
      /\ virt(h) = virtual_address_offset + h.virtual_addr
  BY VirtInt, OffsetInt DEF ProgramHeader, virt
<1> DEFINE v == virt(h)
           a == v + k
           b == v + h.mem_size - 1
<1>2. v \in Int /\ a \in Int /\ b \in Int /\ v <= a /\ a <= b
  BY <1>1
<1> HIDE DEF v, a, b
<1>3. page_of(v) <= page_of(a) /\ page_of(a) <= page_of(b)
  BY <1>2, PageMonotone
<1>4. page_of(v) \in Int /\ page_of(a) \in Int /\ page_of(b) \in Int
  BY <1>2, PageBounds
<1>5. page_of(a) \in page_of(v) .. page_of(b)
  BY <1>3, <1>4
<1>6. page_of(a) \in mem_pages(h)
  BY <1>5 DEF mem_pages, pages_of, v, b
<1>7. h.virtual_addr + k \in Int /\ virt(h) + k = virtual_address_offset + (h.virtual_addr + k)
  BY <1>1
<1> QED
  BY <1>2, <1>6, <1>7 DEF a, v

LEMMA PagesKept ==
  ASSUME NEW in, NEW out, NEW h, NEW R, SameFlags(in, out), PagesAs(in, h, R)
  PROVE  PagesAs(out, h, R)
BY Zenon DEF SameFlags, PagesAs

LEMMA BytesKept ==
  ASSUME elf \in ElfFile, NEW in, NEW out, NEW h \in ProgramHeader, NEW R, NEW n, NEW entries,
         SameContent(in, out), PagesAs(in, h, R), BytesAs(in, h, n, entries)
  PROVE  BytesAs(out, h, n, entries)
<1>1. ASSUME NEW k \in 0 .. h.mem_size - 1
      PROVE  byte_at(out, virt(h) + k) = byte_at(in, virt(h) + k)
  <2>1. page_of(virt(h) + k) \in DOMAIN in.page_table
    BY BytePage DEF PagesAs
  <2>2. Content(out, page_of(virt(h) + k)) = Content(in, page_of(virt(h) + k))
    BY <2>1 DEF SameContent
  <2> QED
    BY <2>2, ByteIsContent
<1> QED
  BY <1>1, Zenon DEF BytesAs

\* A segment that was just loaded, before any relocation.
LEMMA BytesLoaded ==
  ASSUME NEW out, NEW h, \A k \in 0 .. h.mem_size - 1 : byte_at(out, virt(h) + k) = FileOrZero(h, k)
  PROVE  BytesAs(out, h, 0, 0)
<1>1. \A a : Over(a, 0) = {}
  BY DEF Over
<1> QED
  BY <1>1 DEF BytesAs

\* The table is found: none of its relocations was applied, or all were.
LEMMA BytesRestart ==
  ASSUME NEW in, NEW h, NEW n, NEW entries, n \in {0, entries}, BytesAs(in, h, n, n)
  PROVE  BytesAs(in, h, 0, entries)
<1>1. \A a : Over(a, 0) = {}
  BY DEF Over
<1>2. \A a : Over(a, entries) = {} => Over(a, n) = {}
  BY <1>1
<1> QED
  BY <1>1, <1>2 DEF BytesAs

\* The last relocation over an address.
LEMMA OverNext ==
  ASSUME NEW a \in Int, NEW n \in Nat
  PROVE  /\ a \in elf.relocs[n + 1].offset .. elf.relocs[n + 1].offset + WORD_SIZE - 1 =>
              /\ Over(a, n + 1) # {}
              /\ LastOf(Over(a, n + 1)) = n + 1
         /\ a \notin elf.relocs[n + 1].offset .. elf.relocs[n + 1].offset + WORD_SIZE - 1 =>
              Over(a, n + 1) = Over(a, n)
<1> DEFINE word(i) == elf.relocs[i].offset .. elf.relocs[i].offset + WORD_SIZE - 1
<1>1. \A m : Over(a, m) = {i \in 1 .. m : a \in word(i)}
  BY DEF Over
<1> HIDE DEF word
<1>2. ASSUME a \in word(n + 1) PROVE n + 1 \in Over(a, n + 1) /\ LastOf(Over(a, n + 1)) = n + 1
  <2> DEFINE S == Over(a, n + 1)
  <2>1. n + 1 \in S /\ \A j \in S : j \in Int /\ j <= n + 1
    BY <1>1, <1>2
  <2> HIDE DEF S
  <2>2. \A i \in S : (\A j \in S : j <= i) => i = n + 1
    BY <2>1
  <2>3. LastOf(S) \in S /\ \A j \in S : j <= LastOf(S)
    BY <2>1 DEF LastOf
  <2>4. LastOf(S) = n + 1
    BY <2>2, <2>3
  <2> QED
    BY <2>1, <2>4 DEF S
<1>3. ASSUME a \notin word(n + 1) PROVE Over(a, n + 1) = Over(a, n)
  <2>1. \A i \in 1 .. n + 1 : a \in word(i) => i \in 1 .. n
    BY <1>3
  <2>2. \A i \in 1 .. n : i \in 1 .. n + 1
    OBVIOUS
  <2> QED
    BY <1>1, <2>1, <2>2
<1> QED
  BY <1>2, <1>3 DEF word

\* One more relocation.
LEMMA BytesRelocated ==
  ASSUME elf \in ElfFile, NEW in, InnerOK(in), in.result = "ok", NEW h \in ProgramHeader, NEW R,
         PagesAs(in, h, R), NEW n \in Nat, NEW entries \in Nat, n < entries, n < Len(elf.relocs),
         apply_relocation(in, elf.relocs[n + 1]).result = "ok",
         BytesAs(in, h, n, entries)
  PROVE  BytesAs(apply_relocation(in, elf.relocs[n + 1]), h, n + 1, entries)
<1> DEFINE r    == elf.relocs[n + 1]
           out  == apply_relocation(in, r)
           word == r.offset .. r.offset + WORD_SIZE - 1
           v    == virtual_address_offset
<1>1. r \in Rela
  <2>1. elf.relocs \in Seq(Rela)
    BY DEF ElfFile
  <2>2. n + 1 \in 1 .. Len(elf.relocs)
    BY <2>1
  <2> QED
    BY <2>1, <2>2
<1>2. \A a \in Int : page_of(v + a) \in DOMAIN in.page_table =>
        byte_at(out, v + a) = IF a \in word THEN WordByte(v + r.addend, a - r.offset) ELSE byte_at(in, v + a)
  BY <1>1, ApplyView
<1>3. ASSUME NEW k \in 0 .. h.mem_size - 1
      PROVE  LET a == h.virtual_addr + k
             IN  /\ Over(a, n + 1) # {} => byte_at(out, virt(h) + k) = LastWord(a, n + 1)
                 /\ Over(a, entries) = {} => byte_at(out, virt(h) + k) = FileOrZero(h, k)
  <2> DEFINE a == h.virtual_addr + k
  <2>1. a \in Int /\ virt(h) + k = v + a /\ page_of(v + a) \in DOMAIN in.page_table
    BY BytePage DEF PagesAs
  <2>2. byte_at(out, v + a) = IF a \in word THEN WordByte(v + r.addend, a - r.offset) ELSE byte_at(in, v + a)
    BY <1>2, <2>1
  <2>3. /\ Over(a, n) # {} => byte_at(in, v + a) = LastWord(a, n)
        /\ Over(a, entries) = {} => byte_at(in, v + a) = FileOrZero(h, k)
    BY <2>1 DEF BytesAs
  <2> HIDE DEF a, out, v
  <2>4. CASE a \in word
    <3>1. Over(a, n + 1) # {} /\ LastOf(Over(a, n + 1)) = n + 1
      BY <2>1, <2>4, OverNext
    <3>2. LastWord(a, n + 1) = WordByte(v + r.addend, a - r.offset)
      BY <3>1 DEF LastWord, v
    <3>3. n + 1 \in Over(a, entries)
      BY <2>4 DEF Over
    <3> QED
      BY <2>1, <2>2, <2>4, <3>2, <3>3 DEF a
  <2>5. CASE a \notin word
    <3>1. Over(a, n + 1) = Over(a, n)
      BY <2>1, <2>5, OverNext
    <3>2. LastWord(a, n + 1) = LastWord(a, n)
      BY <3>1 DEF LastWord
    <3>3. byte_at(out, v + a) = byte_at(in, v + a)
      BY <2>2, <2>5
    <3> QED
      BY <2>1, <2>3, <3>1, <3>2, <3>3 DEF a
  <2> QED
    BY <2>4, <2>5
<1> QED
  BY <1>3 DEF BytesAs

LEMMA PagesRelocated ==
  ASSUME elf \in ElfFile, NEW in, InnerOK(in), in.result = "ok", NEW h, NEW R, PagesAs(in, h, R),
         NEW r \in Rela, apply_relocation(in, r).result = "ok"
  PROVE  PagesAs(apply_relocation(in, r), h, R)
BY ApplyView, PagesKept

\* Write-protection leaves the content of every page.
LEMMA RelroView ==
  ASSUME elf \in ElfFile, NEW in, InnerOK(in), NEW g, handle_relro_segment(in, g).result = "ok"
  PROVE  LET out == handle_relro_segment(in, g)
         IN  /\ SameContent(in, out)
             /\ \A h, R : PagesAs(in, h, R) => PagesAs(out, h, R \cup mem_pages(g))
<1> DEFINE pt  == in.page_table
           w(p) == pt[p].writable /\ p \notin relro_pages(g)
           t   == [p \in DOMAIN pt |-> [pt[p] EXCEPT !.writable = w(p)]]
           out == handle_relro_segment(in, g)
<1>1. fail(in, "panic").result # "ok"
  BY FailResult DEF Results
<1>2. out = [in EXCEPT !.page_table = t]
  BY <1>1, Zenon DEF handle_relro_segment
<1> HIDE DEF t, out
<1>3. out.page_table = t /\ out.memory = in.memory
  BY <1>2 DEF InnerOK, IsInner
<1>4. \A x \in PageTableEntry : \A b : /\ [x EXCEPT !.writable = b].frame = x.frame
                                       /\ [x EXCEPT !.writable = b].no_execute = x.no_execute
                                       /\ [x EXCEPT !.writable = b].writable = b
  BY DEF PageTableEntry
<1>5. \A p \in DOMAIN pt : pt[p] \in PageTableEntry
  BY DEF InnerOK, IsInner
<1>6. DOMAIN t = DOMAIN pt /\ \A p \in DOMAIN pt : t[p] = [pt[p] EXCEPT !.writable = w(p)]
  BY Zenon DEF t
<1>7. \A p \in DOMAIN pt : t[p].frame = pt[p].frame /\ t[p].no_execute = pt[p].no_execute /\ t[p].writable = w(p)
  <2> TAKE p \in DOMAIN pt
  <2> DEFINE b == w(p)
  <2>1. t[p] = [pt[p] EXCEPT !.writable = b]
    BY <1>6, Zenon
  <2> HIDE DEF b
  <2>2. t[p].frame = pt[p].frame /\ t[p].no_execute = pt[p].no_execute /\ t[p].writable = b
    BY <1>4, <1>5, <2>1
  <2> QED
    BY <2>2, Zenon DEF b
<1>8. SameContent(in, out)
  BY <1>3, <1>7 DEF SameContent, Content
<1>9. ASSUME NEW h, NEW R, PagesAs(in, h, R)
      PROVE  PagesAs(out, h, R \cup mem_pages(g))
  <2> SUFFICES ASSUME NEW p \in mem_pages(h)
               PROVE  /\ p \in DOMAIN out.page_table
                      /\ out.page_table[p].no_execute = ~h.x
                      /\ out.page_table[p].writable = (h.w /\ p \notin R \cup mem_pages(g))
    BY Zenon DEF PagesAs
  <2>1. /\ p \in DOMAIN pt /\ pt[p].no_execute = ~h.x
        /\ pt[p].writable = (h.w /\ p \notin R)
    BY <1>9, Zenon DEF PagesAs
  <2>2. t[p].no_execute = ~h.x /\ t[p].writable = w(p)
    BY <1>7, <2>1, Zenon
  <2>3. w(p) = (h.w /\ p \notin R \cup mem_pages(g))
    <3>1. relro_pages(g) = mem_pages(g)
      BY Zenon DEF relro_pages
    <3>2. w(p) = ((h.w /\ p \notin R) /\ p \notin mem_pages(g))
      BY <2>1, <3>1, Zenon
    <3>3. ((h.w /\ p \notin R) /\ p \notin mem_pages(g)) = (h.w /\ p \notin R \cup mem_pages(g))
      BY Zenon
    <3> QED
      BY <3>2, <3>3, Zenon
  <2> QED
    BY <1>3, <1>6, <2>1, <2>2, <2>3, Zenon
<1> QED
  BY <1>8, <1>9, Zenon DEF out

\* remove_copied_flags removes that flag from every page of a segment, and no other.
LEMMA RemoveFlagsView ==
  ASSUME elf \in ElfFile, NEW in, InnerOK(in), remove_copied_flags(in).result = "ok"
  PROVE  LET out == remove_copied_flags(in)
         IN  /\ SameFlags(in, out) /\ SameContent(in, out)
             /\ \A h \in Loads : \A p \in mem_pages(h) : ~out.page_table[p].copied
<1> DEFINE pt    == in.page_table
           pages == UNION {mem_pages(h) : h \in Loads}
           c(p)  == pt[p].copied /\ p \notin pages
           t     == [p \in DOMAIN pt |-> [pt[p] EXCEPT !.copied = c(p)]]
           out   == remove_copied_flags(in)
<1>1. fail(in, "panic").result # "ok"
  BY FailResult DEF Results
<1>2. out = [in EXCEPT !.page_table = t] /\ pages \subseteq DOMAIN pt
  BY <1>1, Zenon DEF remove_copied_flags
<1>3. \A h \in Loads : \A p \in mem_pages(h) : p \in pages
  OBVIOUS
<1> HIDE DEF t, out, pages
<1>4. out.page_table = t /\ out.memory = in.memory
  BY <1>2 DEF InnerOK, IsInner
<1>5. \A x \in PageTableEntry : \A b : /\ [x EXCEPT !.copied = b].frame = x.frame
                                       /\ [x EXCEPT !.copied = b].no_execute = x.no_execute
                                       /\ [x EXCEPT !.copied = b].writable = x.writable
                                       /\ [x EXCEPT !.copied = b].copied = b
  BY DEF PageTableEntry
<1>6. \A p \in DOMAIN pt : pt[p] \in PageTableEntry
  BY DEF InnerOK, IsInner
<1>7. DOMAIN t = DOMAIN pt /\ \A p \in DOMAIN pt : t[p] = [pt[p] EXCEPT !.copied = c(p)]
  BY Zenon DEF t
<1>8. \A p \in DOMAIN pt : /\ t[p].frame = pt[p].frame /\ t[p].no_execute = pt[p].no_execute
                           /\ t[p].writable = pt[p].writable /\ t[p].copied = c(p)
  <2> TAKE p \in DOMAIN pt
  <2> DEFINE b == c(p)
  <2>1. t[p] = [pt[p] EXCEPT !.copied = b]
    BY <1>7, Zenon
  <2> HIDE DEF b
  <2>2. /\ t[p].frame = pt[p].frame /\ t[p].no_execute = pt[p].no_execute
        /\ t[p].writable = pt[p].writable /\ t[p].copied = b
    BY <1>5, <1>6, <2>1
  <2> QED
    BY <2>2, Zenon DEF b
<1>9. SameContent(in, out)
  BY <1>4, <1>8 DEF SameContent, Content
<1>10. SameFlags(in, out)
  BY <1>4, <1>7, <1>8, Zenon DEF SameFlags
<1>11. \A h \in Loads : \A p \in mem_pages(h) : ~out.page_table[p].copied
  <2> SUFFICES ASSUME NEW p \in pages PROVE ~out.page_table[p].copied
    BY <1>3, Zenon
  <2>1. p \in DOMAIN pt
    BY <1>2
  <2>2. t[p].copied = c(p)
    BY <1>8, <2>1, Zenon
  <2>3. ~c(p)
    BY Zenon
  <2> QED
    BY <1>4, <2>2, <2>3, Zenon
<1> QED
  BY <1>9, <1>10, <1>11, Zenon DEF out

-----------------------------------------------------------------------------
(***************************************************************************)
(* Counting.  Frames are accounted for if they are three page tables once  *)
(* a page is mapped, a frame for each zeroed page in Z and a copy of each  *)
(* page in C, which are the pages marked COPIED.                           *)
(***************************************************************************)
Marked(in) == {p \in DOMAIN in.page_table : in.page_table[p].copied}

Tables(P) == IF P = {} THEN 0 ELSE 3

Accounts(in, P, Z, C) ==
  /\ DOMAIN in.page_table = P /\ IsFiniteSet(P)
  /\ Z \subseteq P
  /\ Marked(in) = C
  /\ in.used = Tables(P) + Cardinality(Z) + Cardinality(C)

\* There are frames for a load that zeroes the pages in Z and copies those in C.
Affordable(Z, C) ==
  IsFiniteSet(Z) /\ IsFiniteSet(C) /\ 3 + Cardinality(Z) + Cardinality(C) <= elf.free_frames

LEMMA AccountsFinite ==
  ASSUME NEW in, NEW P, NEW Z, NEW C, Accounts(in, P, Z, C)
  PROVE  /\ IsFiniteSet(P) /\ IsFiniteSet(Z) /\ IsFiniteSet(C) /\ C \subseteq P
         /\ Cardinality(Z) \in Nat /\ Cardinality(C) \in Nat /\ Tables(P) \in {0, 3}
<1>1. C \subseteq P /\ Z \subseteq P /\ IsFiniteSet(P)
  BY DEF Accounts, Marked
<1>2. IsFiniteSet(Z) /\ IsFiniteSet(C)
  BY <1>1, FS_Subset
<1> QED
  BY <1>1, <1>2, FS_CardinalityType DEF Tables

LEMMA TablesAre ==
  ASSUME NEW in, NEW P, NEW Z, NEW C, Accounts(in, P, Z, C), NEW Q, Q # {}
  PROVE  Tables(P) + table_frames(in) = 3 /\ Tables(P \cup Q) = 3
<1>1. DOMAIN in.page_table = P
  BY DEF Accounts
<1>2. P \cup Q # {}
  OBVIOUS
<1> QED
  BY <1>1, <1>2 DEF Tables, table_frames

LEMMA CopyPageAccounts ==
  ASSUME elf \in ElfFile, NEW in, InnerOK(in), has_frames(in, 1), NEW p \in DOMAIN in.page_table,
         ~in.page_table[p].copied, NEW P, NEW Z, NEW C, Accounts(in, P, Z, C)
  PROVE  Accounts(copy_page(in, p), P, Z, C \cup {p})
<1> DEFINE nf  == next_frame(in)
           e   == [in.page_table[p] EXCEPT !.frame = nf, !.copied = TRUE]
           t   == [in.page_table EXCEPT ![p] = e]
           m   == [in.memory EXCEPT ![nf] = in.memory[in.page_table[p].frame]]
           out == copy_page(in, p)
<1>1. out.page_table = t /\ out.used = in.used + 1
  <2>1. out = [in EXCEPT !.memory = m, !.page_table = t, !.used = in.used + 1]
    BY DEF copy_page
  <2> HIDE DEF out, m, t
  <2> QED
    BY <2>1 DEF InnerOK, IsInner
<1>2. e.copied = TRUE
  BY FrameBelow DEF PageTableEntry
<1>3. /\ DOMAIN t = DOMAIN in.page_table
      /\ \A q \in DOMAIN in.page_table : t[q] = IF q = p THEN e ELSE in.page_table[q]
  OBVIOUS
<1>4. p \notin C /\ Marked(in) = C /\ DOMAIN in.page_table = P
  BY DEF Accounts, Marked
<1> HIDE DEF e, t, m, out
<1>5. Marked(out) = C \cup {p}
  <2>1. \A q \in P : out.page_table[q].copied <=> (in.page_table[q].copied \/ q = p)
    BY <1>1, <1>2, <1>3, <1>4
  <2> QED
    BY <1>1, <1>3, <1>4, <2>1 DEF Marked
<1>6. Cardinality(C \cup {p}) = Cardinality(C) + 1
  BY <1>4, AccountsFinite, FS_AddElement
<1>7. in.used = Tables(P) + Cardinality(Z) + Cardinality(C)
  BY DEF Accounts
<1>8. Cardinality(C) \in Nat /\ Cardinality(Z) \in Nat /\ Tables(P) \in {0, 3}
  BY AccountsFinite
<1>9. in.used + 1 = Tables(P) + Cardinality(Z) + Cardinality(C \cup {p})
  BY <1>6, <1>7, <1>8
<1>10. Accounts(out, P, Z, C \cup {p})
  BY <1>1, <1>3, <1>4, <1>5, <1>9 DEF Accounts
<1> QED
  BY <1>10 DEF out

\* make_mut takes a frame only for a page that is not marked yet.
LEMMA MakeMutAccounts ==
  ASSUME elf \in ElfFile, NEW in, InnerOK(in), in.result = "ok", NEW p, make_mut(in, p).result = "ok",
         NEW P, NEW Z, NEW C, Accounts(in, P, Z, C)
  PROVE  Accounts(make_mut(in, p), P, Z, C \cup {p})
<1>1. p \in DOMAIN in.page_table
  BY MakeMutView
<1>2. CASE in.page_table[p].copied
  <2>1. p \in C
    BY <1>1, <1>2 DEF Accounts, Marked
  <2>2. C \cup {p} = C
    BY <2>1
  <2> QED
    BY <1>1, <1>2, <2>2 DEF make_mut
<1>3. CASE ~in.page_table[p].copied
  <2>1. fail(in, "panic").result # "ok"
    BY FailResult DEF Results
  <2>2. has_frames(in, 1) /\ make_mut(in, p) = copy_page(in, p)
    BY <1>1, <1>3, <2>1 DEF make_mut
  <2> QED
    BY <1>1, <1>3, <2>2, CopyPageAccounts
<1> QED
  BY <1>2, <1>3

LEMMA MakeMutSucceeds ==
  ASSUME elf \in ElfFile, NEW in, InnerOK(in), in.result = "ok",
         NEW P, NEW Z, NEW C, Accounts(in, P, Z, C), NEW p \in P,
         NEW Y, NEW D, Affordable(Y, D), Z \subseteq Y, C \cup {p} \subseteq D
  PROVE  make_mut(in, p).result = "ok"
<1>1. p \in DOMAIN in.page_table /\ Marked(in) = C /\ in.used = Tables(P) + Cardinality(Z) + Cardinality(C)
  BY DEF Accounts
<1>2. CASE in.page_table[p].copied
  BY <1>1, <1>2 DEF make_mut
<1>3. CASE ~in.page_table[p].copied
  <2>1. p \notin C
    BY <1>1, <1>3 DEF Marked
  <2>2. /\ Cardinality(C \cup {p}) = Cardinality(C) + 1 /\ IsFiniteSet(C \cup {p})
        /\ Cardinality(C) \in Nat /\ Cardinality(Z) \in Nat /\ Tables(P) \in {0, 3}
    BY <2>1, AccountsFinite, FS_AddElement
  <2>3. Cardinality(C \cup {p}) <= Cardinality(D) /\ Cardinality(Z) <= Cardinality(Y)
    BY FS_Subset DEF Affordable
  <2>4. Cardinality(Y) \in Nat /\ Cardinality(D) \in Nat /\ elf.free_frames \in Nat
        /\ 3 + Cardinality(Y) + Cardinality(D) <= elf.free_frames
    BY FS_CardinalityType, FileFramesNat DEF Affordable
  <2>5. has_frames(in, 1)
    BY <1>1, <2>2, <2>3, <2>4 DEF has_frames
  <2>6. make_mut(in, p) = copy_page(in, p)
    BY <1>1, <1>3, <2>5 DEF make_mut
  <2> QED
    BY <1>1, <2>5, <2>6, CopyPageOK
<1> QED
  BY <1>2, <1>3

LEMMA WriteIs ==
  ASSUME elf \in ElfFile, NEW in, InnerOK(in), in.result = "ok", NEW p, NEW bytes
  PROVE  /\ write(in, p, bytes).page_table = make_mut(in, p).page_table
         /\ write(in, p, bytes).used = make_mut(in, p).used
         /\ write(in, p, bytes).result = make_mut(in, p).result
<1> DEFINE mut == make_mut(in, p)
           f   == mut.page_table[p].frame
           new == [o \in Offsets |-> IF o \in DOMAIN bytes THEN bytes[o] ELSE mut.memory[f][o]]
           m   == [mut.memory EXCEPT ![f] = new]
           out == write(in, p, bytes)
<1>1. InnerOK(mut)
  BY MakeMutOK
<1>2. out = mut \/ out = [mut EXCEPT !.memory = m]
  BY DEF write
<1> HIDE DEF mut, m, out
<1>3. out.page_table = mut.page_table /\ out.used = mut.used /\ out.result = mut.result
  BY <1>1, <1>2 DEF InnerOK, IsInner
<1> QED
  BY <1>3 DEF mut, out

LEMMA SameAccounts ==
  ASSUME NEW in, NEW out, out.page_table = in.page_table, out.used = in.used, NEW P, NEW Z, NEW C
  PROVE  Accounts(in, P, Z, C) => Accounts(out, P, Z, C)
BY DEF Accounts, Marked

LEMMA WriteAccounts ==
  ASSUME elf \in ElfFile, NEW in, InnerOK(in), in.result = "ok", NEW p, NEW bytes,
         write(in, p, bytes).result = "ok", NEW P, NEW Z, NEW C, Accounts(in, P, Z, C)
  PROVE  Accounts(write(in, p, bytes), P, Z, C \cup {p})
BY WriteIs, MakeMutAccounts, SameAccounts

LEMMA WriteSucceeds ==
  ASSUME elf \in ElfFile, NEW in, InnerOK(in), in.result = "ok",
         NEW P, NEW Z, NEW C, Accounts(in, P, Z, C), NEW p \in P, NEW bytes,
         NEW Y, NEW D, Affordable(Y, D), Z \subseteq Y, C \cup {p} \subseteq D
  PROVE  write(in, p, bytes).result = "ok"
BY WriteIs, MakeMutSucceeds

LEMMA WordPagesAre ==
  ASSUME NEW addr \in Int
  PROVE  pages_of(addr, addr + WORD_SIZE - 1) = {page_of(addr), page_of(addr + WORD_SIZE - 1)}
<1> DEFINE e == addr + WORD_SIZE - 1
<1>1. e \in Int /\ addr <= e /\ e <= addr + 1 * PAGE_SIZE /\ addr + 1 * PAGE_SIZE \in Int
  BY SizesAssumption
<1> HIDE DEF e
<1>2. page_of(addr) \in Int /\ page_of(e) \in Int /\ page_of(addr) <= page_of(e)
  BY <1>1, PageBounds, PageMonotone
<1>3. page_of(e) <= page_of(addr) + 1
  <2>1. page_of(addr + 1 * PAGE_SIZE) = page_of(addr) + 1
    BY PageShifted
  <2> QED
    BY <1>1, <2>1, PageMonotone
<1>4. page_of(addr) .. page_of(e) = {page_of(addr), page_of(e)}
  BY <1>2, <1>3
<1> QED
  BY <1>4 DEF pages_of, e

LEMMA CopyToAccounts ==
  ASSUME elf \in ElfFile, NEW in, InnerOK(in), in.result = "ok", NEW addr \in Int, NEW value,
         copy_to(in, addr, value).result = "ok", NEW P, NEW Z, NEW C, Accounts(in, P, Z, C)
  PROVE  Accounts(copy_to(in, addr, value), P, Z, C \cup pages_of(addr, addr + WORD_SIZE - 1))
<1> DEFINE start   == page_of(addr)
           end     == page_of(addr + WORD_SIZE - 1)
           started == write(in, start, word_bytes(start, addr, value))
           ended   == write(started, end, word_bytes(end, addr, value))
           out     == copy_to(in, addr, value)
<1>1. out = IF started.result # "ok" \/ start = end THEN started ELSE ended
  BY DEF copy_to
<1>2. started.result = "ok"
  BY <1>1
<1>3. InnerOK(started) /\ Accounts(started, P, Z, C \cup {start})
  BY <1>2, WriteOK, WriteAccounts
<1> HIDE DEF started
<1>4. CASE start = end
  BY <1>1, <1>3, <1>4, WordPagesAre
<1>5. CASE start # end
  <2>1. out = ended
    BY <1>1, <1>2, <1>5
  <2>2. Accounts(ended, P, Z, (C \cup {start}) \cup {end})
    BY <1>2, <1>3, <2>1, WriteAccounts
  <2>3. (C \cup {start}) \cup {end} = C \cup {start, end}
    OBVIOUS
  <2> QED
    BY <2>1, <2>2, <2>3, WordPagesAre
<1> QED
  BY <1>4, <1>5

LEMMA CopyToSucceeds ==
  ASSUME elf \in ElfFile, NEW in, InnerOK(in), in.result = "ok", NEW addr \in Int, NEW value,
         NEW P, NEW Z, NEW C, Accounts(in, P, Z, C), pages_of(addr, addr + WORD_SIZE - 1) \subseteq P,
         NEW Y, NEW D, Affordable(Y, D), Z \subseteq Y,
         C \cup pages_of(addr, addr + WORD_SIZE - 1) \subseteq D
  PROVE  copy_to(in, addr, value).result = "ok"
<1> DEFINE start   == page_of(addr)
           end     == page_of(addr + WORD_SIZE - 1)
           started == write(in, start, word_bytes(start, addr, value))
           ended   == write(started, end, word_bytes(end, addr, value))
           out     == copy_to(in, addr, value)
<1>1. out = IF started.result # "ok" \/ start = end THEN started ELSE ended
  BY DEF copy_to
<1>2. start \in P /\ end \in P /\ C \cup {start} \subseteq D /\ (C \cup {start}) \cup {end} \subseteq D
  BY WordPagesAre
<1>3. started.result = "ok"
  <2> HIDE DEF start
  <2> QED BY <1>2, WriteSucceeds
<1>4. InnerOK(started) /\ Accounts(started, P, Z, C \cup {start})
  BY <1>3, WriteOK, WriteAccounts
<1> HIDE DEF started, start, end
<1>5. ended.result = "ok"
  BY <1>2, <1>3, <1>4, WriteSucceeds
<1> QED
  BY <1>1, <1>3, <1>5

\* The page handle_bss_section clears the end of, and the pages it adds.
TailOf(h) ==
  IF h.mem_size > h.file_size /\ zero_start(h) % PAGE_SIZE # 0 THEN {page_of(zero_start(h) - 1)} ELSE {}

BssOf(h) == IF h.mem_size > h.file_size THEN bss_pages(h) ELSE {}

LEMMA ClearTailAccounts ==
  ASSUME elf \in ElfFile, NEW in, InnerOK(in), in.result = "ok", NEW h, h.mem_size > h.file_size,
         clear_tail(in, h).result = "ok", NEW P, NEW Z, NEW C, Accounts(in, P, Z, C)
  PROVE  Accounts(clear_tail(in, h), P, Z, C \cup TailOf(h))
<1>1. CASE zero_start(h) % PAGE_SIZE = 0
  <2>1. C \cup TailOf(h) = C
    BY <1>1 DEF TailOf
  <2> QED
    BY <1>1, <2>1 DEF clear_tail
<1>2. CASE zero_start(h) % PAGE_SIZE # 0
  <2> DEFINE bytes == [o \in zero_start(h) % PAGE_SIZE .. PAGE_SIZE - 1 |-> ZeroByte]
             p     == page_of(zero_start(h) - 1)
  <2>1. clear_tail(in, h) = write(in, p, bytes) /\ TailOf(h) = {p}
    BY <1>2 DEF clear_tail, TailOf
  <2> HIDE DEF bytes, p
  <2> QED
    BY <2>1, WriteAccounts
<1> QED
  BY <1>1, <1>2

LEMMA ClearTailSucceeds ==
  ASSUME elf \in ElfFile, NEW in, InnerOK(in), in.result = "ok", NEW h, h.mem_size > h.file_size,
         NEW P, NEW Z, NEW C, Accounts(in, P, Z, C), TailOf(h) \subseteq P,
         NEW Y, NEW D, Affordable(Y, D), Z \subseteq Y, C \cup TailOf(h) \subseteq D
  PROVE  clear_tail(in, h).result = "ok"
<1>1. CASE zero_start(h) % PAGE_SIZE = 0
  BY <1>1 DEF clear_tail
<1>2. CASE zero_start(h) % PAGE_SIZE # 0
  <2> DEFINE bytes == [o \in zero_start(h) % PAGE_SIZE .. PAGE_SIZE - 1 |-> ZeroByte]
             p     == page_of(zero_start(h) - 1)
  <2>1. clear_tail(in, h) = write(in, p, bytes) /\ TailOf(h) = {p}
    BY <1>2 DEF clear_tail, TailOf
  <2> HIDE DEF bytes, p
  <2>2. p \in P /\ C \cup {p} \subseteq D
    BY <2>1
  <2> QED
    BY <2>1, <2>2, WriteSucceeds
<1> QED
  BY <1>1, <1>2

\* map_to marks no page and takes no frames (its page tables are counted by its callers).
LEMMA MapToMarks ==
  ASSUME NEW in,
         in = [page_table |-> in.page_table, memory |-> in.memory,
               used |-> in.used, result |-> in.result],
         NEW pages, mapped(in, pages) = {}, NEW shift, NEW h
  PROVE  LET out == map_to(in, pages, shift, h)
         IN  /\ DOMAIN out.page_table = DOMAIN in.page_table \cup pages
             /\ Marked(out) = Marked(in)
             /\ out.used = in.used /\ out.result = in.result
<1> DEFINE e(p) == [frame |-> p + shift, writable |-> h.w, no_execute |-> ~h.x, copied |-> FALSE]
           D    == DOMAIN in.page_table \cup pages
           t    == [p \in D |-> IF p \in pages THEN e(p) ELSE in.page_table[p]]
           out  == map_to(in, pages, shift, h)
<1>1. out = [in EXCEPT !.page_table = t]
  BY DEF map_to
<1> HIDE DEF out, t
<1>2. out.page_table = t /\ out.used = in.used /\ out.result = in.result
  BY <1>1
<1>3. DOMAIN t = D /\ \A p \in D : t[p] = IF p \in pages THEN e(p) ELSE in.page_table[p]
  BY DEF t
<1>4. \A p : e(p).copied = FALSE
  OBVIOUS
<1> HIDE DEF e
<1>5. \A p \in DOMAIN in.page_table : p \notin pages
  BY DEF mapped
<1>6. Marked(out) = Marked(in)
  BY <1>2, <1>3, <1>4, <1>5 DEF Marked
<1> QED
  BY <1>2, <1>3, <1>6 DEF out

LEMMA FilePagesFinite ==
  ASSUME elf \in ElfFile, NEW h \in ProgramHeader
  PROVE  IsFiniteSet(file_pages(h))
<1> DEFINE d == file_shift(h)
           x == page_of(h.offset)
           y == page_of(h.offset + h.file_size - 1)
<1>1. d \in Int /\ x \in Int /\ y \in Int
  BY FileShiftInt, PageBounds DEF ProgramHeader
<1>2. file_pages(h) = {f + d : f \in x .. y}
  BY DEF file_pages, pages_of
<1> HIDE DEF d, x, y
<1>3. {f + d : f \in x .. y} \subseteq x + d .. y + d
  BY <1>1
<1>4. IsFiniteSet(x + d .. y + d)
  BY <1>1, FS_Interval
<1> QED
  BY <1>2, <1>3, <1>4, FS_Subset

LEMMA MapFileAccounts ==
  ASSUME elf \in ElfFile, NEW in, InnerOK(in), NEW h \in ProgramHeader,
         mapped(in, file_pages(h)) = {}, has_frames(in, FileTables(in, h)),
         NEW P, NEW Z, NEW C, Accounts(in, P, Z, C)
  PROVE  Accounts(FileMapped(in, h), P \cup file_pages(h), Z, C)
<1> DEFINE took  == FileTook(in, h)
           pages == file_pages(h)
           out   == FileMapped(in, h)
<1>1. /\ took.page_table = in.page_table /\ took.used = in.used + FileTables(in, h)
      /\ took = [page_table |-> took.page_table, memory |-> took.memory,
                 used |-> took.used, result |-> took.result]
  BY FileTookOK DEF InnerOK, IsInner
<1> HIDE DEF took
<1>2. mapped(took, pages) = {}
  BY <1>1 DEF mapped
<1>3. DOMAIN out.page_table = P \cup pages /\ Marked(out) = C /\ out.used = took.used
  <2>1. DOMAIN took.page_table = P /\ Marked(took) = C
    BY <1>1 DEF Accounts, Marked
  <2>2. out = map_to(took, pages, -file_shift(h), h)
    BY DEF FileMapped, took
  <2> HIDE DEF out, pages
  <2> QED
    BY <1>1, <1>2, <2>1, <2>2, MapToMarks
<1>4. Tables(P) + FileTables(in, h) = Tables(P \cup pages)
  <2>1. CASE pages = {}
    <3>1. P \cup pages = P
      BY <2>1
    <3> QED
      BY <2>1, <3>1, AccountsFinite DEF FileTables
  <2>2. CASE pages # {}
    BY <2>2, TablesAre DEF FileTables
  <2> QED
    BY <2>1, <2>2
<1>5. in.used = Tables(P) + Cardinality(Z) + Cardinality(C)
  BY DEF Accounts
<1>6. /\ Cardinality(C) \in Nat /\ Cardinality(Z) \in Nat /\ Tables(P) \in {0, 3}
      /\ FileTables(in, h) \in Nat
  BY AccountsFinite, TableFramesNat DEF FileTables
<1>7. took.used = Tables(P \cup pages) + Cardinality(Z) + Cardinality(C)
  BY <1>1, <1>4, <1>5, <1>6
<1>8. IsFiniteSet(P \cup pages) /\ Z \subseteq P \cup pages
  BY FilePagesFinite, AccountsFinite, FS_Union DEF Accounts
<1> QED
  BY <1>3, <1>7, <1>8 DEF Accounts

LEMMA MapZeroedCases ==
  ASSUME elf \in ElfFile, NEW in, InnerOK(in), NEW h \in ProgramHeader
  PROVE  LET pages   == bss_pages(h)
             reached == {p \in pages : \A q \in mapped(in, pages) : p <= q}
             out     == map_zeroed(in, h)
         IN  IF pages = {} THEN out = in
             ELSE IF ~has_frames(in, 1) THEN out = fail(in, "panic")
             ELSE IF ~has_frames(in, 1 + table_frames(in)) THEN out = fail(in, "err")
             ELSE IF ~has_frames(in, Cardinality(reached) + table_frames(in)) THEN out = fail(in, "panic")
             ELSE IF mapped(in, pages) # {} THEN out = fail(in, "err")
             ELSE /\ DOMAIN out.page_table = DOMAIN in.page_table \cup pages
                  /\ Marked(out) = Marked(in)
                  /\ out.used = in.used + table_frames(in) + Cardinality(pages)
                  /\ out.result = in.result
<1> DEFINE a       == page_of(align_up(zero_start(h)))
           pages   == bss_pages(h)
           taken   == mapped(in, pages)
           reached == {p \in pages : \A q \in taken : p <= q}
           tables  == table_frames(in)
           first   == next_frame(in) + tables
           fresh   == first .. first + Cardinality(pages) - 1
           fill    == [f \in DOMAIN in.memory |-> IF f \in fresh THEN [o \in Offsets |-> ZeroByte]
                                                  ELSE in.memory[f]]
           n       == in.used + tables + Cardinality(pages)
           zeroed  == [in EXCEPT !.memory = fill, !.used = in.used + tables + Cardinality(pages)]
           to      == map_to(zeroed, pages, first - a, h)
           out     == map_zeroed(in, h)
<1>1. out = IF pages = {} THEN in
            ELSE IF ~has_frames(in, 1) THEN fail(in, "panic")
            ELSE IF ~has_frames(in, 1 + tables) THEN fail(in, "err")
            ELSE IF ~has_frames(in, Cardinality(reached) + tables) THEN fail(in, "panic")
            ELSE IF taken # {} THEN fail(in, "err")
            ELSE to
  BY Zenon DEF map_zeroed
<1>2. ASSUME taken = {}
      PROVE  /\ DOMAIN to.page_table = DOMAIN in.page_table \cup pages
             /\ Marked(to) = Marked(in) /\ to.used = n /\ to.result = in.result
  <2> HIDE DEF pages, first, fill, n, a
  <2>1. zeroed = [in EXCEPT !.memory = fill, !.used = n]
    BY DEF n, fill, fresh, first
  <2> HIDE DEF zeroed
  <2>2. zeroed = [page_table |-> in.page_table, memory |-> fill, used |-> n, result |-> in.result]
    BY <2>1 DEF InnerOK, IsInner
  <2>3. /\ zeroed.page_table = in.page_table /\ zeroed.used = n /\ zeroed.result = in.result
        /\ zeroed = [page_table |-> zeroed.page_table, memory |-> zeroed.memory,
                     used |-> zeroed.used, result |-> zeroed.result]
    BY <2>2
  <2>4. mapped(zeroed, pages) = {} /\ Marked(zeroed) = Marked(in)
    BY <1>2, <2>3 DEF mapped, Marked
  <2>5. /\ DOMAIN to.page_table = DOMAIN zeroed.page_table \cup pages
        /\ Marked(to) = Marked(zeroed) /\ to.used = zeroed.used /\ to.result = zeroed.result
    BY <2>3, <2>4, MapToMarks
  <2> QED
    BY <2>3, <2>4, <2>5
<1> HIDE DEF to, pages, tables, out
<1>3. IF pages = {} THEN out = in
      ELSE IF ~has_frames(in, 1) THEN out = fail(in, "panic")
      ELSE IF ~has_frames(in, 1 + tables) THEN out = fail(in, "err")
      ELSE IF ~has_frames(in, Cardinality(reached) + tables) THEN out = fail(in, "panic")
      ELSE IF taken # {} THEN out = fail(in, "err")
      ELSE /\ DOMAIN out.page_table = DOMAIN in.page_table \cup pages
           /\ Marked(out) = Marked(in) /\ out.used = n /\ out.result = in.result
  BY <1>1, <1>2, Zenon
<1> QED
  BY <1>3, Zenon DEF pages, taken, reached, tables, n, out

LEMMA BssFinite ==
  ASSUME elf \in ElfFile, NEW h \in ProgramHeader
  PROVE  IsFiniteSet(bss_pages(h)) /\ Cardinality(bss_pages(h)) \in Nat
BY BssPages, FS_Interval, FS_CardinalityType

\* Zeroed pages are counted once: they are pages that were not mapped.
LEMMA MapZeroedAccounts ==
  ASSUME elf \in ElfFile, NEW in, InnerOK(in), in.result = "ok", NEW h \in ProgramHeader,
         map_zeroed(in, h).result = "ok", NEW P, NEW Z, NEW C, Accounts(in, P, Z, C)
  PROVE  Accounts(map_zeroed(in, h), P \cup bss_pages(h), Z \cup bss_pages(h), C)
<1> DEFINE pages == bss_pages(h)
           out   == map_zeroed(in, h)
<1>1. fail(in, "panic").result # "ok" /\ fail(in, "err").result # "ok"
  BY FailResult DEF Results
<1>2. CASE pages = {}
  <2>1. out = in
    BY <1>2, MapZeroedCases
  <2>2. P \cup pages = P /\ Z \cup pages = Z
    BY <1>2
  <2> QED
    BY <2>1, <2>2
<1>3. CASE pages # {}
  <2>1. /\ mapped(in, pages) = {}
        /\ DOMAIN out.page_table = DOMAIN in.page_table \cup pages
        /\ Marked(out) = Marked(in) /\ out.used = in.used + table_frames(in) + Cardinality(pages)
    BY <1>1, <1>3, MapZeroedCases
  <2> HIDE DEF out
  <2>2. DOMAIN in.page_table = P /\ Marked(in) = C /\ Z \subseteq P
        /\ in.used = Tables(P) + Cardinality(Z) + Cardinality(C)
    BY DEF Accounts
  <2>3. IsFiniteSet(pages) /\ IsFiniteSet(P) /\ IsFiniteSet(Z) /\ Cardinality(pages) \in Nat
        /\ Cardinality(Z) \in Nat /\ Cardinality(C) \in Nat
    BY AccountsFinite, BssFinite
  <2>4. Z \cap pages = {}
    BY <2>1, <2>2 DEF mapped
  <2>5. Cardinality(Z \cup pages) = Cardinality(Z) + Cardinality(pages) /\ IsFiniteSet(P \cup pages)
    <3>1. Cardinality(Z \cup pages) = Cardinality(Z) + Cardinality(pages) - Cardinality(Z \cap pages)
      BY <2>3, FS_Union
    <3>2. Cardinality(Z \cap pages) = 0
      BY <2>4, FS_EmptySet
    <3>3. Cardinality(Z \cup pages) = Cardinality(Z) + Cardinality(pages)
      <4> HIDE DEF pages
      <4> QED BY <2>3, <3>1, <3>2
    <3>4. IsFiniteSet(P \cup pages)
      BY <2>3, FS_Union
    <3> QED
      BY <3>3, <3>4
  <2>6. Tables(P) + table_frames(in) = 3 /\ Tables(P \cup pages) = 3 /\ Tables(P) \in Nat /\ table_frames(in) \in Nat
    BY <1>3, TablesAre, TableFramesNat, AccountsFinite
  <2>7. out.used = Tables(P \cup pages) + Cardinality(Z \cup pages) + Cardinality(C)
    BY <2>1, <2>2, <2>3, <2>5, <2>6
  <2>8. Accounts(out, P \cup pages, Z \cup pages, C)
    BY <2>1, <2>2, <2>5, <2>7 DEF Accounts
  <2> QED
    BY <2>8 DEF out
<1> QED
  BY <1>2, <1>3

LEMMA MapZeroedSucceeds ==
  ASSUME elf \in ElfFile, NEW in, InnerOK(in), in.result = "ok", NEW h \in ProgramHeader,
         NEW P, NEW Z, NEW C, Accounts(in, P, Z, C), bss_pages(h) \cap P = {},
         NEW Y, NEW D, Affordable(Y, D), Z \cup bss_pages(h) \subseteq Y, C \subseteq D
  PROVE  map_zeroed(in, h).result = "ok"
<1> DEFINE pages   == bss_pages(h)
           reached == {p \in pages : \A q \in mapped(in, pages) : p <= q}
           tables  == table_frames(in)
<1>1. DOMAIN in.page_table = P /\ Z \subseteq P
      /\ in.used = Tables(P) + Cardinality(Z) + Cardinality(C)
  BY DEF Accounts
<1>2. mapped(in, pages) = {} /\ reached = pages /\ Z \cap pages = {}
  BY <1>1 DEF mapped
<1>3. IsFiniteSet(pages) /\ IsFiniteSet(Z) /\ Cardinality(pages) \in Nat
      /\ Cardinality(Z) \in Nat /\ Cardinality(C) \in Nat /\ Tables(P) \in Nat /\ tables \in Nat
  BY AccountsFinite, BssFinite, TableFramesNat
<1>4. CASE pages = {}
  BY <1>4, MapZeroedCases
<1>5. CASE pages # {}
  <2>1. Cardinality(pages) >= 1
    BY <1>3, <1>5, FS_EmptySet
  <2>2. Cardinality(Z) + Cardinality(pages) <= Cardinality(Y) /\ Cardinality(C) <= Cardinality(D)
    <3>1. Cardinality(Z \cup pages) = Cardinality(Z) + Cardinality(pages) - Cardinality(Z \cap pages)
      BY <1>3, FS_Union
    <3>2. Cardinality(Z \cap pages) = 0
      BY <1>2, FS_EmptySet
    <3>3. Cardinality(Z \cup pages) <= Cardinality(Y) /\ Cardinality(C) <= Cardinality(D)
      BY FS_Subset DEF Affordable
    <3> QED
      BY <1>3, <3>1, <3>2, <3>3
  <2>3. /\ Cardinality(Y) \in Nat /\ Cardinality(D) \in Nat /\ elf.free_frames \in Nat
        /\ 3 + Cardinality(Y) + Cardinality(D) <= elf.free_frames
    BY FS_CardinalityType, FileFramesNat DEF Affordable
  <2>4. Tables(P) + tables = 3
    BY <1>5, TablesAre
  <2> HIDE DEF pages, tables
  <2>5. in.used + (Cardinality(pages) + tables) <= elf.free_frames /\ in.used \in Nat
    BY <1>1, <1>3, <2>2, <2>3, <2>4
  <2>6. has_frames(in, 1) /\ has_frames(in, 1 + tables) /\ has_frames(in, Cardinality(pages) + tables)
    BY <1>3, <2>1, <2>3, <2>5 DEF has_frames
  <2> QED
    BY <1>2, <1>5, <2>6, MapZeroedCases DEF pages, tables
<1> QED
  BY <1>4, <1>5

\* The frames handle_load_segment takes.
LEMMA HandleLoadAccounts ==
  ASSUME elf \in ElfFile, NEW in, InnerOK(in), in.result = "ok",
         NEW h \in ProgramHeader, sanity_check(h), handle_load_segment(in, h).result = "ok",
         NEW P, NEW Z, NEW C, Accounts(in, P, Z, C)
  PROVE  Accounts(handle_load_segment(in, h), P \cup (file_pages(h) \cup BssOf(h)), Z \cup BssOf(h), C \cup TailOf(h))
<1> DEFINE file    == FileMapped(in, h)
           cleared == clear_tail(file, h)
           out     == handle_load_segment(in, h)
           Q       == P \cup file_pages(h)
<1>1. /\ mapped(in, file_pages(h)) = {} /\ has_frames(in, FileTables(in, h))
      /\ out = IF h.mem_size > h.file_size THEN handle_bss_section(file, h) ELSE file
  <2>1. fail(in, "err").result # "ok"
    BY FailResult DEF Results
  <2> QED
    BY <2>1, HandleLoadCases
<1>2. InnerOK(file) /\ file.result = "ok" /\ Accounts(file, Q, Z, C)
  BY <1>1, MapFileOK, MapFileAccounts
<1> HIDE DEF file
<1>3. CASE ~ h.mem_size > h.file_size
  <2>1. out = file
    BY <1>1, <1>3
  <2>2. BssOf(h) = {} /\ TailOf(h) = {}
    BY <1>3 DEF BssOf, TailOf
  <2>3. P \cup (file_pages(h) \cup BssOf(h)) = Q /\ Z \cup BssOf(h) = Z /\ C \cup TailOf(h) = C
    BY <2>2
  <2> QED
    BY <1>2, <2>1, <2>3
<1>4. CASE h.mem_size > h.file_size
  <2>1. out = handle_bss_section(file, h)
    BY <1>1, <1>4
  <2>2. cleared.result = "ok" /\ out = map_zeroed(cleared, h)
    BY <2>1 DEF handle_bss_section
  <2>3. InnerOK(cleared) /\ Accounts(cleared, Q, Z, C \cup TailOf(h))
    BY <1>2, <1>4, <2>2, ClearTailOK, ClearTailAccounts
  <2> HIDE DEF cleared
  <2>4. Accounts(map_zeroed(cleared, h), Q \cup bss_pages(h), Z \cup bss_pages(h), C \cup TailOf(h))
    <3>1. map_zeroed(cleared, h).result = "ok"
      BY <2>2
    <3> HIDE DEF Q
    <3> QED
      BY <2>2, <2>3, <3>1, MapZeroedAccounts
  <2>5. BssOf(h) = bss_pages(h) /\ Q \cup bss_pages(h) = P \cup (file_pages(h) \cup bss_pages(h))
    BY <1>4 DEF BssOf
  <2> QED
    BY <2>2, <2>4, <2>5
<1> QED
  BY <1>3, <1>4

LEMMA HandleLoadSucceeds ==
  ASSUME elf \in ElfFile, NEW in, InnerOK(in), in.result = "ok", NEW h \in ProgramHeader, sanity_check(h),
         NEW P, NEW Z, NEW C, Accounts(in, P, Z, C),
         file_pages(h) \cap P = {}, BssOf(h) \cap (P \cup file_pages(h)) = {},
         TailOf(h) \subseteq file_pages(h),
         NEW Y, NEW D, Affordable(Y, D), Z \cup BssOf(h) \subseteq Y, C \cup TailOf(h) \subseteq D
  PROVE  handle_load_segment(in, h).result = "ok"
<1> DEFINE file    == FileMapped(in, h)
           cleared == clear_tail(file, h)
           out     == handle_load_segment(in, h)
           Q       == P \cup file_pages(h)
<1>1. mapped(in, file_pages(h)) = {}
  BY DEF Accounts, mapped
<1>2. has_frames(in, FileTables(in, h))
  <2>1. in.used = Tables(P) + Cardinality(Z) + Cardinality(C)
    BY DEF Accounts
  <2>2. Cardinality(Z) <= Cardinality(Y) /\ Cardinality(C) <= Cardinality(D)
    BY FS_Subset DEF Affordable
  <2>3. /\ Cardinality(Y) \in Nat /\ Cardinality(D) \in Nat /\ elf.free_frames \in Nat
        /\ 3 + Cardinality(Y) + Cardinality(D) <= elf.free_frames
    BY FS_CardinalityType, FileFramesNat DEF Affordable
  <2>4. Cardinality(Z) \in Nat /\ Cardinality(C) \in Nat
    BY AccountsFinite
  <2>5. Tables(P) + FileTables(in, h) <= 3 /\ Tables(P) \in Nat /\ FileTables(in, h) \in Nat
    BY DEF Accounts, Tables, FileTables, table_frames
  <2> QED
    BY <2>1, <2>2, <2>3, <2>4, <2>5 DEF has_frames
<1>3. out = IF h.mem_size > h.file_size THEN handle_bss_section(file, h) ELSE file
  BY <1>1, <1>2, HandleLoadCases
<1>4. InnerOK(file) /\ file.result = "ok" /\ Accounts(file, Q, Z, C)
  BY <1>1, <1>2, MapFileOK, MapFileAccounts
<1> HIDE DEF file
<1>5. CASE ~ h.mem_size > h.file_size
  BY <1>3, <1>4, <1>5
<1>6. CASE h.mem_size > h.file_size
  <2>1. cleared.result = "ok"
    <3>1. TailOf(h) \subseteq Q
      OBVIOUS
    <3>2. Z \subseteq Y
      OBVIOUS
    <3> HIDE DEF Q
    <3> QED
      BY <1>4, <1>6, <3>1, <3>2, ClearTailSucceeds
  <2>2. InnerOK(cleared) /\ Accounts(cleared, Q, Z, C \cup TailOf(h))
    BY <1>4, <1>6, <2>1, ClearTailOK, ClearTailAccounts
  <2>3. out = map_zeroed(cleared, h)
    BY <1>3, <1>6, <2>1 DEF handle_bss_section
  <2>4. bss_pages(h) \cap Q = {} /\ Z \cup bss_pages(h) \subseteq Y
    BY <1>6 DEF BssOf
  <2> HIDE DEF cleared, Q
  <2>5. map_zeroed(cleared, h).result = "ok"
    BY <2>1, <2>2, <2>4, MapZeroedSucceeds
  <2> QED
    BY <2>3, <2>5
<1> QED
  BY <1>5, <1>6

-----------------------------------------------------------------------------
(***************************************************************************)
(* The dynamic section.                                                    *)
(***************************************************************************)

LEMMA DynamicResult ==
  /\ dynamic_result \in Results
  /\ dynamic_result = "ok" /\ tagged("Rela") # {} =>
       tagged("RelaSize") # {} /\ value_of("RelaEnt") = RELA_SIZE
<1> DEFINE Tags == {"Rela", "RelaSize", "RelaEnt"}
           dup  == \E tag \in Tags : Cardinality(tagged(tag)) > 1
           none == \A tag \in Tags : tagged(tag) = {}
           rest == IF \E tag \in Tags : tagged(tag) = {} THEN "err"
                   ELSE IF value_of("RelaEnt") # RELA_SIZE THEN "panic" ELSE "ok"
<1>1. dynamic_result = CASE dup -> "err" [] none -> "ok" [] OTHER -> rest
  BY Zenon DEF dynamic_result
<1>2. dup /\ none => FALSE
  <2>1. \A tag \in Tags : none => Cardinality(tagged(tag)) = 0
    BY FS_EmptySet
  <2> QED
    BY <2>1
<1>3. dup => dynamic_result = "err"
  BY <1>1, <1>2
<1>4. ~dup /\ none => dynamic_result = "ok"
  BY <1>1
<1>5. ~dup /\ ~none => dynamic_result = rest
  BY <1>1
<1>6. rest \in {"err", "panic", "ok"}
  OBVIOUS
<1>7. rest = "ok" => tagged("RelaSize") # {} /\ value_of("RelaEnt") = RELA_SIZE
  OBVIOUS
<1>8. none => tagged("Rela") = {}
  OBVIOUS
<1> HIDE DEF dup, none, rest
<1> QED
  BY <1>3, <1>4, <1>5, <1>6, <1>7, <1>8 DEF Results

LEMMA ValueNat ==
  ASSUME elf \in ElfFile, NEW tag, tagged(tag) # {}
  PROVE  value_of(tag) \in Nat
<1> DEFINE i == CHOOSE j \in tagged(tag) : TRUE
           Entry == [tag : {"Rela", "RelaSize", "RelaEnt"}, val : Nat]
<1>1. i \in tagged(tag)
  <2>1. \E j \in tagged(tag) : TRUE
    OBVIOUS
  <2> QED
    BY <2>1, Zenon
<1>2. i \in 1 .. Len(elf.dynamic)
  BY <1>1 DEF tagged
<1>3. elf.dynamic \in Seq(Entry)
  BY DEF ElfFile
<1> HIDE DEF i, Entry
<1>4. elf.dynamic[i] \in Entry
  BY <1>2, <1>3
<1>5. elf.dynamic[i].val \in Nat
  BY <1>4 DEF Entry
<1> QED
  BY <1>5 DEF value_of, i

-----------------------------------------------------------------------------
(***************************************************************************)
(* The inductive invariant.                                                *)
(***************************************************************************)

LEMMA InitIInv == Init => IInv
<1> SUFFICES ASSUME Init PROVE IInv
  OBVIOUS
<1>1. elf \in ElfFile
  BY KernelsAssumption DEF Init
<1>2. Len(elf.headers) \in Nat
  <2>1. elf.headers \in Seq(ProgramHeader)
    BY <1>1 DEF ElfFile
  <2> QED
    BY <2>1
<1> DEFINE m == [f \in Frames |-> IF f < FileFrames THEN FileImage(f) ELSE [o \in Offsets |-> Junk]]
           t == [p \in {} |-> 0]
           sane == \A i \in 1 .. Len(elf.headers) : sanity_check(elf.headers[i])
           r == new_result
<1>3. inner = [page_table |-> t, memory |-> m, used |-> 0, result |-> r]
  BY DEF Init
<1>4. r \in Results /\ (r = "ok" => sane)
  BY DEF Results, new_result
<1>5. DOMAIN m = Frames /\ \A f \in 0 .. FileFrames - 1 : m[f] = FileImage(f)
  BY <1>1, FileFramesNat DEF Frames
<1>6. DOMAIN t = {} /\ t \in [DOMAIN t -> PageTableEntry]
  OBVIOUS
<1> HIDE DEF m, t, r
<1>7. /\ inner.page_table = t /\ inner.memory = m /\ inner.used = 0 /\ inner.result = r
  BY <1>3
<1>8. IsInner(inner)
  BY <1>1, <1>3, <1>4, <1>5, <1>6, <1>7, FileFramesNat DEF IsInner
<1>9. InnerOK(inner)
  BY <1>5, <1>6, <1>7, <1>8 DEF InnerOK, OnlyTaken, Owned, CopiedElsewhere, Untouched
<1>10. inner.result = "ok" => sane
  BY <1>4, <1>7
<1> HIDE DEF sane
<1>11. header \in 1 .. Len(elf.headers) + 1 /\ loop = "load" /\ Len(tls_template) = 0
       /\ rela = [table |-> 0, entries |-> 0, idx |-> 0]
  BY <1>2 DEF Init
<1> QED
  BY <1>1, <1>9, <1>10, <1>11 DEF IInv, sane

\* What a step has to show: the rest of IInv does not change with elf.
LEMMA StepIInv ==
  ASSUME IInv, UNCHANGED elf, inner.result = "ok", InnerOK(inner'),
         loop' \in {"load", "dynamic", "relocate", "relro", "done"},
         header' \in 1 .. Len(elf.headers) + 1,
         loop' = "relocate" => header' <= Len(elf.headers),
         rela' \in [table : Nat, entries : Nat, idx : Nat], rela'.idx <= rela'.entries,
         Len(tls_template') \in {0, 1}
  PROVE  IInv'
<1>1. InnerOK(inner)'
  BY DEF InnerOK, IsInner, OnlyTaken, Owned, CopiedElsewhere, Untouched, FileFrames, Frames,
         FileImage, PageTableEntry
<1>2. (\A i \in 1 .. Len(elf.headers) : sanity_check(elf.headers[i]))'
  BY DEF IInv, sanity_check
<1> QED
  BY <1>1, <1>2 DEF IInv

LEMMA HeaderNat == ASSUME IInv PROVE header \in Nat /\ Len(elf.headers) \in Nat
<1>1. elf.headers \in Seq(ProgramHeader)
  BY DEF IInv, ElfFile
<1> QED
  BY <1>1 DEF IInv

LEMMA NextIInv == IInv /\ [Next]_vars => IInv'
<1> SUFFICES ASSUME IInv, [Next]_vars PROVE IInv'
  OBVIOUS
<1> USE DEF IInv
<1>1. elf \in ElfFile /\ InnerOK(inner) /\ header \in Nat /\ Len(elf.headers) \in Nat
  BY HeaderNat
<1>2. AtHeader("load", {"Load"}) => elf.headers[header] \in ProgramHeader
  BY <1>1, HeaderTyped DEF AtHeader
<1>3. CASE LoadSegment
  <2> DEFINE h == elf.headers[header]
  <2>1. inner.result = "ok" /\ header \in 1 .. Len(elf.headers) /\ h \in ProgramHeader
    BY <1>1, <1>2, <1>3 DEF LoadSegment, AtHeader
  <2>2. sanity_check(h)
    BY <2>1
  <2>3. InnerOK(inner')
    <3>1. InnerOK(handle_load_segment(inner, h))
      <4> HIDE DEF h
      <4> QED
        BY <1>1, <2>1, <2>2, HandleLoadOK
    <3> QED
      BY <1>3, <3>1 DEF LoadSegment
  <2>4. header' \in 1 .. Len(elf.headers) + 1 /\ loop = "load"
    BY <1>1, <1>3, <2>1 DEF LoadSegment, AtHeader
  <2> QED
    BY <1>3, <2>1, <2>3, <2>4, StepIInv DEF LoadSegment
<1>4. CASE TlsSegment
  <2>1. inner.result = "ok" /\ header' \in 1 .. Len(elf.headers) + 1 /\ loop = "load"
    BY <1>1, <1>4 DEF TlsSegment, AtHeader
  <2>2. InnerOK(inner') /\ Len(tls_template') \in {0, 1}
    <3>1. CASE tls_template = <<>>
      BY <1>1, <1>4, <3>1 DEF TlsSegment
    <3>2. CASE tls_template # <<>>
      <4>1. inner' = fail(inner, "err") /\ UNCHANGED tls_template
        BY <1>4, <3>2 DEF TlsSegment
      <4> QED
        BY <1>1, <4>1, FailOK DEF Results
    <3> QED
      BY <3>1, <3>2
  <2> QED
    BY <1>4, <2>1, <2>2, StepIInv DEF TlsSegment
<1>5. CASE SkipHeader
  <2>1. /\ inner.result = "ok" /\ header' \in 1 .. Len(elf.headers) + 1
        /\ loop \in {"load", "dynamic", "relro"}
    BY <1>1, <1>5 DEF SkipHeader, AtHeader
  <2> QED
    BY <1>1, <1>5, <2>1, StepIInv DEF SkipHeader
<1>6. CASE NextLoop
  <2>1. /\ inner.result = "ok" /\ header' \in 1 .. Len(elf.headers) + 1
        /\ loop' \in {"dynamic", "relro"}
    BY <1>1, <1>6 DEF NextLoop, AtEnd
  <2> QED
    BY <1>1, <1>6, <2>1, StepIInv DEF NextLoop
<1>7. CASE DynamicSegment
  <2>1. inner.result = "ok" /\ header \in 1 .. Len(elf.headers) /\ loop = "dynamic"
    BY <1>1, <1>7 DEF DynamicSegment, AtHeader
  <2>2. InnerOK(inner')
    BY <1>1, <1>7, DynamicResult, FailOK DEF DynamicSegment, fail
  <2>3. CASE dynamic_result = "ok" /\ tagged("Rela") # {}
    <3>1. value_of("Rela") \in Nat /\ num_entries \in Nat
      <4>1. value_of("Rela") \in Nat /\ value_of("RelaSize") \in Nat
        BY <1>1, <2>3, DynamicResult, ValueNat
      <4>2. \A n \in Nat : n \div RELA_SIZE \in Nat
        BY SizesAssumption
      <4> QED
        BY <2>3, <4>1, <4>2, DynamicResult DEF num_entries
    <3>2. /\ rela' = [table |-> value_of("Rela"), entries |-> num_entries, idx |-> 0]
          /\ loop' = "relocate" /\ header' = header
      BY <1>7, <2>3 DEF DynamicSegment
    <3>3. rela' \in [table : Nat, entries : Nat, idx : Nat] /\ rela'.idx <= rela'.entries
      BY <3>1, <3>2
    <3>4. header' \in 1 .. Len(elf.headers) + 1 /\ header' <= Len(elf.headers)
      BY <1>1, <2>1, <3>2
    <3> QED
      BY <1>7, <2>1, <2>2, <3>2, <3>3, <3>4, StepIInv DEF DynamicSegment
  <2>4. CASE ~ (dynamic_result = "ok" /\ tagged("Rela") # {})
    <3>1. header' = header + 1 /\ UNCHANGED <<rela, loop, elf, tls_template>>
      BY <1>7, <2>4 DEF DynamicSegment
    <3>2. header' \in 1 .. Len(elf.headers) + 1
      BY <1>1, <2>1, <3>1
    <3> QED
      BY <2>1, <2>2, <3>1, <3>2, StepIInv
  <2> QED
    BY <2>3, <2>4
<1>8. CASE Relocate
  <2> DEFINE read == read_relocation(inner, rela.table, rela.idx)
  <2>1. inner.result = "ok" /\ rela.idx < rela.entries /\ UNCHANGED <<elf, loop, header, tls_template>>
    BY <1>8 DEF Relocate
  <2>2. read \in Results
    BY DEF read_relocation, Results
  <2>3. inner' = IF read = "ok" THEN apply_relocation(inner, elf.relocs[rela.idx + 1]) ELSE fail(inner, read)
    BY <1>8 DEF Relocate
  <2> HIDE DEF read
  <2>4. InnerOK(inner')
    BY <1>1, <2>1, <2>2, <2>3, ApplyOK, FailOK
  <2>5. rela' \in [table : Nat, entries : Nat, idx : Nat] /\ rela'.idx <= rela'.entries
    BY <1>8, <2>1 DEF Relocate
  <2> QED
    BY <2>1, <2>4, <2>5, StepIInv
<1>9. CASE Relocated
  <2>1. inner.result = "ok" /\ loop = "relocate" /\ header' = header + 1 /\ loop' = "dynamic"
    BY <1>9 DEF Relocated
  <2>2. header' \in 1 .. Len(elf.headers) + 1
    BY <1>1, <2>1
  <2> QED
    BY <1>1, <1>9, <2>1, <2>2, StepIInv DEF Relocated
<1>10. CASE RelroSegment
  <2>1. inner.result = "ok" /\ header' \in 1 .. Len(elf.headers) + 1 /\ loop = "relro"
    BY <1>1, <1>10 DEF RelroSegment, AtHeader
  <2>2. InnerOK(inner')
    BY <1>1, <1>10, HandleRelroOK DEF RelroSegment
  <2> QED
    BY <1>10, <2>1, <2>2, StepIInv DEF RelroSegment
<1>11. CASE Finish
  <2>1. inner.result = "ok"
    BY <1>11 DEF Finish, AtEnd
  <2>2. InnerOK(inner')
    BY <1>1, <1>11, RemoveFlagsOK DEF Finish
  <2> QED
    BY <1>11, <2>1, <2>2, StepIInv DEF Finish
<1>12. CASE UNCHANGED vars
  <2>1. InnerOK(inner)'
    BY <1>1, <1>12 DEF vars, InnerOK, IsInner, OnlyTaken, Owned, CopiedElsewhere, Untouched,
                       FileFrames, Frames, FileImage, PageTableEntry
  <2>2. inner'.result = "ok" => (\A i \in 1 .. Len(elf.headers) : sanity_check(elf.headers[i]))'
    BY <1>12 DEF vars, sanity_check
  <2> QED
    BY <1>1, <1>12, <2>1, <2>2 DEF vars
<1> QED
  BY <1>3, <1>4, <1>5, <1>6, <1>7, <1>8, <1>9, <1>10, <1>11, <1>12 DEF Next

-----------------------------------------------------------------------------
(***************************************************************************)
(* The image: what IInv leaves open of the content and the protection of   *)
(* the pages.  Relocations may run again for a second Dynamic header, so   *)
(* entries is the table's length or, before the table is found, 0.         *)
(***************************************************************************)
RelroPages(l, n) ==
  UNION {mem_pages(elf.headers[i]) :
           i \in {j \in Headers("GnuRelro") : l = "done" \/ (l = "relro" /\ j < n)}}

Handled(l, n) == {i \in Headers("Load") : l = "load" => i < n}

SegmentsAs(in, l, n, idx, entries) ==
  \A i \in Handled(l, n) : /\ PagesAs(in, elf.headers[i], RelroPages(l, n))
                           /\ BytesAs(in, elf.headers[i], idx, entries)

Unmarked(in) == \A h \in Loads : \A p \in mem_pages(h) : ~in.page_table[p].copied

ImageInv ==
  /\ loop # "relocate" => rela.idx = rela.entries
  /\ loop = "load" => rela.entries = 0
  /\ rela.entries \in {0, num_entries}
  /\ inner.result = "ok" /\ PageCongruent =>
       SegmentsAs(inner, loop, header, rela.idx, rela.entries)
  /\ loop = "done" /\ inner.result = "ok" => Unmarked(inner)

LEMMA SameElf ==
  ASSUME UNCHANGED elf
  PROVE  /\ \A type : Headers(type)' = Headers(type)
         /\ Loads' = Loads /\ virtual_address_offset' = virtual_address_offset
         /\ num_entries' = num_entries /\ PageCongruent' = PageCongruent
         /\ \A h : mem_pages(h)' = mem_pages(h) /\ virt(h)' = virt(h)
<1>1. \A type : Headers(type)' = Headers(type)
  BY DEF Headers
<1>2. Loads' = Loads
  BY <1>1 DEF Loads
<1>3. min_addr' = min_addr
  BY <1>2 DEF min_addr
<1>4. virtual_address_offset' = virtual_address_offset
  BY <1>2, <1>3 DEF virtual_address_offset
<1>5. \A h : virt(h)' = virt(h)
  BY <1>4 DEF virt
<1>6. \A h : mem_pages(h)' = mem_pages(h)
  BY <1>5 DEF mem_pages, pages_of, page_of
<1>7. num_entries' = num_entries
  BY DEF num_entries, value_of, tagged
<1>8. PageCongruent' = PageCongruent
  BY <1>2, <1>5 DEF PageCongruent
<1> QED
  BY <1>1, <1>2, <1>4, <1>5, <1>6, <1>7, <1>8

LEMMA SameSegments ==
  ASSUME UNCHANGED elf, SegmentsAs(inner', loop', header', rela'.idx, rela'.entries)
  PROVE  SegmentsAs(inner, loop, header, rela.idx, rela.entries)'
<1>1. RelroPages(loop', header') = RelroPages(loop, header)'
  BY SameElf DEF RelroPages
<1>2. Handled(loop', header') = Handled(loop, header)'
  BY SameElf DEF Handled
<1>3. ASSUME NEW h, PagesAs(inner', h, RelroPages(loop', header'))
      PROVE  PagesAs(inner, h, RelroPages(loop, header))'
  BY <1>1, <1>3, SameElf, Zenon DEF PagesAs
<1>4. ASSUME NEW h, BytesAs(inner', h, rela'.idx, rela'.entries)
      PROVE  BytesAs(inner, h, rela.idx, rela.entries)'
  BY <1>4, SameElf DEF BytesAs, Over, LastWord, byte_at
<1> QED
  BY <1>2, <1>3, <1>4 DEF SegmentsAs

LEMMA StepImage ==
  ASSUME UNCHANGED elf,
         loop' # "relocate" => rela'.idx = rela'.entries,
         loop' = "load" => rela'.entries = 0,
         rela'.entries \in {0, num_entries},
         inner'.result = "ok" /\ PageCongruent =>
           SegmentsAs(inner', loop', header', rela'.idx, rela'.entries),
         loop' = "done" /\ inner'.result = "ok" => Unmarked(inner')
  PROVE  ImageInv'
<1>1. PageCongruent' = PageCongruent /\ num_entries' = num_entries /\ Loads' = Loads
      /\ \A h : mem_pages(h)' = mem_pages(h)
  BY SameElf
<1>2. (inner.result = "ok" /\ PageCongruent => SegmentsAs(inner, loop, header, rela.idx, rela.entries))'
  BY <1>1, SameSegments
<1>3. (loop = "done" /\ inner.result = "ok" => Unmarked(inner))'
  BY <1>1 DEF Unmarked
<1> QED
  BY <1>1, <1>2, <1>3 DEF ImageInv

\* Other pages may be mapped, and pages copied, without a loaded segment changing.
LEMMA SegmentsKept ==
  ASSUME elf \in ElfFile, NEW in, NEW out, NEW l, NEW n, NEW m, NEW k, NEW idx, NEW entries,
         SameFlags(in, out), SameContent(in, out), SegmentsAs(in, l, n, idx, entries),
         Handled(m, k) \subseteq Handled(l, n), RelroPages(m, k) = RelroPages(l, n)
  PROVE  SegmentsAs(out, m, k, idx, entries)
<1> SUFFICES ASSUME NEW i \in Handled(m, k)
             PROVE  /\ PagesAs(out, elf.headers[i], RelroPages(m, k))
                    /\ BytesAs(out, elf.headers[i], idx, entries)
  BY DEF SegmentsAs
<1>1. /\ PagesAs(in, elf.headers[i], RelroPages(l, n))
      /\ BytesAs(in, elf.headers[i], idx, entries)
  BY DEF SegmentsAs
<1>2. elf.headers[i] \in ProgramHeader
  BY HeaderTyped DEF Handled, Headers
<1> QED
  BY <1>1, <1>2, PagesKept, BytesKept

LEMMA SameView == ASSUME NEW in, NEW out, out.page_table = in.page_table, out.memory = in.memory
                  PROVE  SameFlags(in, out) /\ SameContent(in, out)
BY DEF SameFlags, SameContent, Content

LEMMA InitImage == Init => ImageInv
<1> SUFFICES ASSUME Init PROVE ImageInv
  OBVIOUS
<1>1. Handled("load", 1) = {}
  <2>1. \A i \in Headers("Load") : i \in Nat /\ i >= 1
    BY DEF Headers
  <2> QED
    BY <2>1 DEF Handled
<1>2. loop = "load" /\ header = 1 /\ rela = [table |-> 0, entries |-> 0, idx |-> 0]
  BY DEF Init
<1>3. SegmentsAs(inner, loop, header, rela.idx, rela.entries)
  BY <1>1, <1>2 DEF SegmentsAs
<1> QED
  BY <1>2, <1>3 DEF ImageInv

LEMMA HeadersTyped ==
  ASSUME elf \in ElfFile, NEW type, NEW i \in Headers(type)
  PROVE  i \in Nat /\ i \in 1 .. Len(elf.headers) /\ elf.headers[i] \in ProgramHeader
BY HeaderTyped DEF Headers

\* A header that the running loop does not treat adds nothing.
LEMMA SkipKeeps ==
  ASSUME elf \in ElfFile, NEW n \in Nat, NEW l,
         l = "load" => n \notin Headers("Load"),
         l = "relro" => n \notin Headers("GnuRelro")
  PROVE  Handled(l, n + 1) = Handled(l, n) /\ RelroPages(l, n + 1) = RelroPages(l, n)
<1>1. \A i \in Headers("Load") : l = "load" => (i < n + 1 <=> i < n)
  BY HeadersTyped
<1>2. \A i \in Headers("GnuRelro") : l = "relro" => (i < n + 1 <=> i < n)
  BY HeadersTyped
<1>3. {j \in Headers("GnuRelro") : l = "done" \/ (l = "relro" /\ j < n + 1)} =
      {j \in Headers("GnuRelro") : l = "done" \/ (l = "relro" /\ j < n)}
  BY <1>2
<1> QED
  BY <1>1, <1>3 DEF Handled, RelroPages

LEMMA LoadSegmentImage == ASSUME IInv, ImageInv, LoadSegment PROVE ImageInv'
<1> DEFINE h == elf.headers[header]
<1>1. /\ elf \in ElfFile /\ InnerOK(inner) /\ inner.result = "ok" /\ loop = "load" /\ header \in Nat
      /\ header \in Headers("Load") /\ h \in ProgramHeader /\ h.type = "Load" /\ sanity_check(h)
      /\ inner' = handle_load_segment(inner, h) /\ header' = header + 1
      /\ UNCHANGED <<elf, loop, rela, tls_template>>
  <2>1. elf \in ElfFile /\ header \in 1 .. Len(elf.headers) /\ header \in Nat
    BY HeaderNat DEF IInv, LoadSegment, AtHeader
  <2>2. h \in ProgramHeader
    BY <2>1, HeaderTyped
  <2> QED
    BY <2>1, <2>2 DEF IInv, LoadSegment, AtHeader, Headers
<1>2. rela.entries = 0 /\ rela.idx = 0
  BY <1>1 DEF ImageInv
<1>3. ASSUME inner'.result = "ok", PageCongruent
      PROVE  SegmentsAs(inner', loop', header', rela'.idx, rela'.entries)
  <2> DEFINE out == handle_load_segment(inner, h)
  <2>1. /\ SameFlags(inner, out) /\ SameContent(inner, out)
        /\ \A p \in mem_pages(h) : /\ p \in DOMAIN out.page_table
                                   /\ out.page_table[p].writable = h.w
                                   /\ out.page_table[p].no_execute = ~h.x
        /\ \A k \in 0 .. h.mem_size - 1 : byte_at(out, virt(h) + k) = FileOrZero(h, k)
    <3>1. out.result = "ok"
      BY <1>1, <1>3
    <3>2. h \in Loads
      BY <1>1 DEF Loads, Headers
    <3> HIDE DEF h
    <3> QED
      BY <1>1, <1>3, <3>1, <3>2, HandleLoadView
  <2>2. RelroPages("load", header) = {} /\ RelroPages("load", header + 1) = {}
    BY DEF RelroPages
  <2>3. SegmentsAs(inner, "load", header, 0, 0)
    BY <1>1, <1>2, <1>3 DEF ImageInv
  <2> HIDE DEF out, h
  <2>4. PagesAs(out, h, {})
    <3> SUFFICES ASSUME NEW p \in mem_pages(h)
                 PROVE  /\ p \in DOMAIN out.page_table /\ out.page_table[p].no_execute = ~h.x
                        /\ out.page_table[p].writable = (h.w /\ p \notin {})
      BY Zenon DEF PagesAs
    <3>1. h.w \in BOOLEAN
      BY <1>1 DEF ProgramHeader
    <3>2. h.w = (h.w /\ p \notin {})
      BY <3>1, Zenon
    <3> QED
      BY <2>1, <3>2, Zenon
  <2>5. BytesAs(out, h, 0, 0)
    BY <2>1, BytesLoaded
  <2>6. ASSUME NEW i \in Handled("load", header + 1)
        PROVE  PagesAs(out, elf.headers[i], {}) /\ BytesAs(out, elf.headers[i], 0, 0)
    <3>1. i \in Nat /\ i \in Headers("Load") /\ i < header + 1 /\ elf.headers[i] \in ProgramHeader
      BY <1>1, HeadersTyped DEF Handled
    <3>2. CASE i = header
      BY <2>4, <2>5, <3>2 DEF h
    <3>3. CASE i # header
      <4>1. i \in Handled("load", header)
        BY <1>1, <3>1, <3>3 DEF Handled
      <4>2. PagesAs(inner, elf.headers[i], {}) /\ BytesAs(inner, elf.headers[i], 0, 0)
        BY <2>2, <2>3, <4>1 DEF SegmentsAs
      <4> QED
        BY <1>1, <2>1, <3>1, <4>2, PagesKept, BytesKept
    <3> QED
      BY <3>2, <3>3
  <2>7. SegmentsAs(out, "load", header + 1, 0, 0)
    BY <2>2, <2>6 DEF SegmentsAs
  <2> QED
    BY <1>1, <1>2, <2>7 DEF out, h
<1>4. loop' # "done"
  BY <1>1
<1> HIDE DEF h
<1> QED
  BY <1>1, <1>2, <1>3, <1>4, StepImage

LEMMA RelocateImage == ASSUME IInv, ImageInv, Relocate PROVE ImageInv'
<1> DEFINE n    == rela.idx
           read == read_relocation(inner, rela.table, rela.idx)
<1>1. /\ elf \in ElfFile /\ InnerOK(inner) /\ inner.result = "ok" /\ loop = "relocate"
      /\ n \in Nat /\ rela.entries \in Nat /\ n < rela.entries /\ UNCHANGED <<elf, loop, header, tls_template>>
      /\ inner' = IF read = "ok" THEN apply_relocation(inner, elf.relocs[n + 1]) ELSE fail(inner, read)
      /\ rela'.idx = n + 1 /\ rela'.entries = rela.entries
  BY DEF IInv, Relocate
<1>2. read \in Results /\ (read = "ok" => n < Len(elf.relocs))
  BY DEF read_relocation, Results
<1>3. ASSUME inner'.result = "ok", PageCongruent
      PROVE  SegmentsAs(inner', loop', header', rela'.idx, rela'.entries)
  <2>1. read = "ok"
    <3> HIDE DEF read
    <3> QED BY <1>1, <1>2, <1>3, FailResult
  <2>2. inner' = apply_relocation(inner, elf.relocs[n + 1]) /\ n < Len(elf.relocs)
    BY <1>1, <1>2, <2>1
  <2>3. SegmentsAs(inner, loop, header, n, rela.entries)
    BY <1>1, <1>3 DEF ImageInv
  <2>4. elf.relocs[n + 1] \in Rela
    <3>1. elf.relocs \in Seq(Rela)
      BY <1>1 DEF ElfFile
    <3>2. n + 1 \in 1 .. Len(elf.relocs)
      BY <1>1, <2>2, <3>1
    <3> QED
      BY <3>1, <3>2
  <2> DEFINE out == apply_relocation(inner, elf.relocs[n + 1])
  <2>5. out.result = "ok"
    BY <1>3, <2>2
  <2>6. ASSUME NEW i \in Handled(loop, header)
        PROVE  /\ PagesAs(out, elf.headers[i], RelroPages(loop, header))
               /\ BytesAs(out, elf.headers[i], n + 1, rela.entries)
    <3>1. elf.headers[i] \in ProgramHeader
      BY <1>1, HeadersTyped DEF Handled
    <3>2. /\ PagesAs(inner, elf.headers[i], RelroPages(loop, header))
          /\ BytesAs(inner, elf.headers[i], n, rela.entries)
      BY <2>3 DEF SegmentsAs
    <3> HIDE DEF n
    <3>3. PagesAs(out, elf.headers[i], RelroPages(loop, header))
      BY <1>1, <2>4, <2>5, <3>2, PagesRelocated
    <3>4. BytesAs(out, elf.headers[i], n + 1, rela.entries)
      BY <1>1, <2>2, <2>5, <3>1, <3>2, BytesRelocated
    <3> QED
      BY <3>3, <3>4
  <2> HIDE DEF out, n
  <2>7. SegmentsAs(out, loop, header, n + 1, rela.entries)
    BY <2>6 DEF SegmentsAs
  <2> QED
    BY <1>1, <2>2, <2>7 DEF out
<1>4. loop' # "done" /\ loop' = "relocate" /\ rela'.entries \in {0, num_entries}
  BY <1>1 DEF ImageInv
<1> QED
  BY <1>1, <1>3, <1>4, StepImage

LEMMA RelroSegmentImage == ASSUME IInv, ImageInv, RelroSegment PROVE ImageInv'
<1> DEFINE g == elf.headers[header]
           R == RelroPages("relro", header)
<1>1. /\ elf \in ElfFile /\ InnerOK(inner) /\ inner.result = "ok" /\ loop = "relro" /\ header \in Nat
      /\ header \in Headers("GnuRelro")
      /\ inner' = handle_relro_segment(inner, g) /\ header' = header + 1
      /\ UNCHANGED <<elf, loop, rela, tls_template>>
  <2>1. elf \in ElfFile /\ header \in 1 .. Len(elf.headers) /\ header \in Nat
    BY HeaderNat DEF IInv, RelroSegment, AtHeader
  <2> QED
    BY <2>1 DEF IInv, RelroSegment, AtHeader, Headers
<1>2. RelroPages("relro", header + 1) = R \cup mem_pages(g)
  <2>1. {j \in Headers("GnuRelro") : j < header + 1} = {j \in Headers("GnuRelro") : j < header} \cup {header}
    <3>1. \A j \in Headers("GnuRelro") : j < header + 1 <=> (j < header \/ j = header)
      BY <1>1, HeadersTyped
    <3> QED
      BY <1>1, <3>1
  <2>2. \A n : RelroPages("relro", n) = UNION {mem_pages(elf.headers[i]) : i \in {j \in Headers("GnuRelro") : j < n}}
    BY DEF RelroPages
  <2> QED
    BY <2>1, <2>2
<1>3. Handled("relro", header + 1) = Handled("relro", header)
  BY DEF Handled
<1>4. ASSUME inner'.result = "ok", PageCongruent
      PROVE  SegmentsAs(inner', loop', header', rela'.idx, rela'.entries)
  <2> DEFINE out == handle_relro_segment(inner, g)
  <2>1. /\ SameContent(inner, out)
        /\ \A h, S : PagesAs(inner, h, S) => PagesAs(out, h, S \cup mem_pages(g))
    <3>1. out.result = "ok"
      BY <1>1, <1>4
    <3> HIDE DEF g
    <3> QED
      BY <1>1, <3>1, RelroView
  <2>2. SegmentsAs(inner, "relro", header, rela.idx, rela.entries)
    BY <1>1, <1>4 DEF ImageInv
  <2> HIDE DEF out, g, R
  <2>3. ASSUME NEW i \in Handled("relro", header + 1)
        PROVE  /\ PagesAs(out, elf.headers[i], RelroPages("relro", header + 1))
               /\ BytesAs(out, elf.headers[i], rela.idx, rela.entries)
    <3>1. PagesAs(inner, elf.headers[i], R) /\ BytesAs(inner, elf.headers[i], rela.idx, rela.entries)
      BY <1>3, <2>2 DEF SegmentsAs, R
    <3>2. elf.headers[i] \in ProgramHeader
      BY <1>1, HeadersTyped DEF Handled
    <3> QED
      BY <1>1, <1>2, <2>1, <3>1, <3>2, BytesKept
  <2>4. SegmentsAs(out, "relro", header + 1, rela.idx, rela.entries)
    BY <2>3 DEF SegmentsAs
  <2> QED
    BY <1>1, <2>4 DEF out
<1> QED
  BY <1>1, <1>4, StepImage DEF ImageInv

LEMMA DynamicImage == ASSUME IInv, ImageInv, DynamicSegment PROVE ImageInv'
<1>1. /\ elf \in ElfFile /\ InnerOK(inner) /\ inner.result = "ok" /\ loop = "dynamic" /\ header \in Nat
      /\ inner' = [inner EXCEPT !.result = dynamic_result] /\ UNCHANGED <<elf, tls_template>>
  BY HeaderNat DEF IInv, DynamicSegment, AtHeader
<1>2. inner'.page_table = inner.page_table /\ inner'.memory = inner.memory
  BY <1>1 DEF InnerOK, IsInner
<1>3. SameFlags(inner, inner') /\ SameContent(inner, inner')
  BY <1>2 DEF SameFlags, SameContent, Content
<1>4. rela.idx = rela.entries /\ rela.entries \in {0, num_entries}
  BY <1>1 DEF ImageInv
<1>5. PageCongruent => SegmentsAs(inner, "dynamic", header, rela.entries, rela.entries)
  BY <1>1, <1>4 DEF ImageInv
<1>6. \A l \in {"dynamic", "relocate"} : \A n :
        Handled(l, n) = Handled("dynamic", header) /\ RelroPages(l, n) = RelroPages("dynamic", header)
  BY DEF Handled, RelroPages
<1>7. ASSUME NEW l \in {"dynamic", "relocate"}, NEW n, PageCongruent
      PROVE  SegmentsAs(inner', l, n, rela.entries, rela.entries)
  BY <1>1, <1>3, <1>5, <1>6, <1>7, SegmentsKept
<1>8. CASE dynamic_result = "ok" /\ tagged("Rela") # {}
  <2>1. rela'.entries = num_entries /\ rela'.idx = 0 /\ loop' = "relocate"
    BY <1>8 DEF DynamicSegment
  <2>2. ASSUME PageCongruent PROVE SegmentsAs(inner', "relocate", header', 0, num_entries)
    <3>1. SegmentsAs(inner', "relocate", header', rela.entries, rela.entries)
      BY <1>7, <2>2
    <3> QED
      BY <1>4, <3>1, BytesRestart DEF SegmentsAs
  <2> QED
    BY <1>1, <2>1, <2>2, StepImage
<1>9. CASE ~ (dynamic_result = "ok" /\ tagged("Rela") # {})
  <2>1. UNCHANGED <<rela, loop>>
    BY <1>9 DEF DynamicSegment
  <2>2. PageCongruent => SegmentsAs(inner', loop', header', rela'.idx, rela'.entries)
    BY <1>1, <1>4, <1>7, <2>1
  <2> QED
    BY <1>1, <1>4, <2>1, <2>2, StepImage
<1> QED
  BY <1>8, <1>9

LEMMA FinishImage == ASSUME IInv, ImageInv, Finish PROVE ImageInv'
<1>1. /\ elf \in ElfFile /\ InnerOK(inner) /\ inner.result = "ok" /\ loop = "relro"
      /\ header > Len(elf.headers) /\ header \in Nat /\ Len(elf.headers) \in Nat
      /\ inner' = remove_copied_flags(inner) /\ loop' = "done" /\ UNCHANGED <<elf, header, rela, tls_template>>
  BY HeaderNat DEF IInv, Finish, AtEnd
<1>2. /\ Handled("done", header) = Handled("relro", header)
      /\ RelroPages("done", header) = RelroPages("relro", header)
  <2>1. \A j \in Headers("GnuRelro") : j < header
    BY <1>1, HeadersTyped
  <2> QED
    BY <2>1 DEF Handled, RelroPages
<1>3. ASSUME inner'.result = "ok"
      PROVE  SameFlags(inner, inner') /\ SameContent(inner, inner') /\ Unmarked(inner')
  <2> DEFINE out == remove_copied_flags(inner)
  <2>1. out.result = "ok"
    BY <1>1, <1>3
  <2>2. /\ SameFlags(inner, out) /\ SameContent(inner, out)
        /\ \A h \in Loads : \A p \in mem_pages(h) : ~out.page_table[p].copied
    BY <1>1, <2>1, RemoveFlagsView
  <2>3. SameFlags(inner, out) /\ SameContent(inner, out) /\ Unmarked(out)
    <3> HIDE DEF out
    <3> QED BY <2>2 DEF Unmarked
  <2> QED
    BY <1>1, <2>3
<1>4. ASSUME inner'.result = "ok", PageCongruent
      PROVE  SegmentsAs(inner', "done", header, rela.idx, rela.entries)
  <2>1. SegmentsAs(inner, "relro", header, rela.idx, rela.entries)
    BY <1>1, <1>4 DEF ImageInv
  <2> QED
    BY <1>1, <1>2, <1>3, <1>4, <2>1, SegmentsKept
<1> QED
  BY <1>1, <1>3, <1>4, StepImage DEF ImageInv

LEMMA NextImage == IInv /\ ImageInv /\ [Next]_vars => ImageInv'
<1> SUFFICES ASSUME IInv, ImageInv, [Next]_vars PROVE ImageInv'
  OBVIOUS
<1>1. elf \in ElfFile /\ InnerOK(inner) /\ header \in Nat /\ Len(elf.headers) \in Nat
  BY HeaderNat DEF IInv
<1>2. SameFlags(inner, inner) /\ SameContent(inner, inner)
  BY SameView
<1>3. CASE LoadSegment
  BY <1>3, LoadSegmentImage
<1>4. CASE TlsSegment
  <2>1. /\ inner.result = "ok" /\ loop = "load" /\ header' = header + 1
        /\ header \notin Headers("Load") /\ UNCHANGED <<elf, loop, rela>>
    BY <1>4 DEF TlsSegment, AtHeader, Headers
  <2>2. inner'.result = "ok" => inner' = inner
    <3>1. fail(inner, "err").result # "ok"
      BY <1>1, FailResult DEF Results
    <3> QED
      BY <1>4, <3>1 DEF TlsSegment
  <2>3. Handled(loop, header + 1) = Handled(loop, header) /\ RelroPages(loop, header + 1) = RelroPages(loop, header)
    BY <1>1, <2>1, SkipKeeps
  <2>4. inner'.result = "ok" /\ PageCongruent => SegmentsAs(inner', loop', header', rela'.idx, rela'.entries)
    BY <1>1, <1>2, <2>1, <2>2, <2>3, SegmentsKept DEF ImageInv
  <2> QED
    BY <2>1, <2>4, StepImage DEF ImageInv
<1>5. CASE SkipHeader
  <2>1. /\ inner.result = "ok" /\ header' = header + 1 /\ UNCHANGED <<elf, inner, loop, rela>>
        /\ loop \in {"load", "dynamic", "relro"}
        /\ loop = "load" => header \notin Headers("Load")
        /\ loop = "relro" => header \notin Headers("GnuRelro")
    BY <1>5 DEF SkipHeader, AtHeader, Headers
  <2>2. Handled(loop, header + 1) = Handled(loop, header) /\ RelroPages(loop, header + 1) = RelroPages(loop, header)
    BY <1>1, <2>1, SkipKeeps
  <2>3. PageCongruent => SegmentsAs(inner', loop', header', rela'.idx, rela'.entries)
    BY <1>1, <1>2, <2>1, <2>2, SegmentsKept DEF ImageInv
  <2> QED
    BY <2>1, <2>3, StepImage DEF ImageInv
<1>6. CASE NextLoop
  <2>1. /\ inner.result = "ok" /\ header' = 1 /\ UNCHANGED <<elf, inner, rela>>
        /\ header > Len(elf.headers) /\ loop \in {"load", "dynamic"} /\ loop' \in {"dynamic", "relro"}
    BY <1>6 DEF NextLoop, AtEnd
  <2>2. Handled(loop', 1) \subseteq Handled(loop, header)
    BY <1>1, <2>1, HeadersTyped DEF Handled
  <2>3. RelroPages(loop', 1) = RelroPages(loop, header)
    <3>1. \A j \in Headers("GnuRelro") : ~(j < 1)
      BY <1>1, HeadersTyped
    <3> QED
      BY <2>1, <3>1 DEF RelroPages
  <2>4. PageCongruent => SegmentsAs(inner', loop', header', rela'.idx, rela'.entries)
    BY <1>1, <1>2, <2>1, <2>2, <2>3, SegmentsKept DEF ImageInv
  <2> QED
    BY <2>1, <2>4, StepImage DEF ImageInv
<1>7. CASE DynamicSegment
  BY <1>7, DynamicImage
<1>8. CASE Relocate
  BY <1>8, RelocateImage
<1>9. CASE Relocated
  <2>1. /\ inner.result = "ok" /\ loop = "relocate" /\ loop' = "dynamic" /\ UNCHANGED <<elf, inner, rela>>
        /\ rela.idx = rela.entries
    BY <1>9 DEF Relocated
  <2>2. Handled(loop', header') = Handled(loop, header) /\ RelroPages(loop', header') = RelroPages(loop, header)
    BY <2>1 DEF Handled, RelroPages
  <2>3. PageCongruent => SegmentsAs(inner', loop', header', rela'.idx, rela'.entries)
    BY <1>1, <1>2, <2>1, <2>2, SegmentsKept DEF ImageInv
  <2> QED
    BY <2>1, <2>3, StepImage DEF ImageInv
<1>10. CASE RelroSegment
  BY <1>10, RelroSegmentImage
<1>11. CASE Finish
  BY <1>11, FinishImage
<1>12. CASE UNCHANGED vars
  BY <1>12, StepImage DEF vars, ImageInv
<1> QED
  BY <1>3, <1>4, <1>5, <1>6, <1>7, <1>8, <1>9, <1>10, <1>11, <1>12 DEF Next

-----------------------------------------------------------------------------
(***************************************************************************)
(* The frames taken.  For a second Dynamic header the relocations run      *)
(* again, on pages that are copied already: so the words copied are those  *)
(* up to idx or all of the table's.                                        *)
(***************************************************************************)
HandledPages(l, n) == UNION {file_pages(elf.headers[i]) \cup BssOf(elf.headers[i]) : i \in Handled(l, n)}

HandledBss(l, n) == UNION {BssOf(elf.headers[i]) : i \in Handled(l, n)}

HandledTails(l, n) == UNION {TailOf(elf.headers[i]) : i \in Handled(l, n)}

WordsTo(k) == UNION {WordPages(elf.relocs[i]) : i \in 1 .. k}

AccountsTo(in, l, n, k) ==
  Accounts(in, HandledPages(l, n), HandledBss(l, n), HandledTails(l, n) \cup WordsTo(k))

CountInv ==
  /\ inner.result = "ok" /\ loop # "done" =>
       \E k \in {rela.idx, rela.entries} : AccountsTo(inner, loop, header, k)
  /\ loop = "done" /\ inner.result = "ok" => inner.used = FramesNeeded(rela.idx)

LEMMA SameNeeds ==
  ASSUME UNCHANGED elf
  PROVE  /\ \A h : file_pages(h)' = file_pages(h) /\ BssOf(h)' = BssOf(h) /\ TailOf(h)' = TailOf(h)
         /\ \A r : WordPages(r)' = WordPages(r)
         /\ \A n : FramesNeeded(n)' = FramesNeeded(n)
<1>1. \A h : virt(h)' = virt(h) /\ Loads' = Loads /\ virtual_address_offset' = virtual_address_offset
  BY SameElf
<1>2. \A h : zero_start(h)' = zero_start(h)
  BY <1>1 DEF zero_start
<1>3. \A h : bss_pages(h)' = bss_pages(h)
  BY <1>1, <1>2 DEF bss_pages, pages_of, page_of, align_up
<1>4. \A h : file_shift(h)' = file_shift(h)
  BY <1>1 DEF file_shift, page_of
<1>5. \A h : file_pages(h)' = file_pages(h)
  BY <1>4 DEF file_pages, pages_of, page_of
<1>6. \A h : BssOf(h)' = BssOf(h) /\ TailOf(h)' = TailOf(h)
  BY <1>2, <1>3 DEF BssOf, TailOf, page_of
<1>7. \A r : WordPages(r)' = WordPages(r)
  BY <1>1 DEF WordPages, pages_of, page_of
<1>8. ZeroedPages' = ZeroedPages
  BY <1>1, <1>3 DEF ZeroedPages
<1>9. TailPages' = TailPages
  BY <1>1, <1>2 DEF TailPages, page_of
<1>10. \A n : FramesNeeded(n)' = FramesNeeded(n)
  BY <1>1, <1>5, <1>7, <1>8, <1>9 DEF FramesNeeded
<1> QED
  BY <1>5, <1>6, <1>7, <1>10

LEMMA StepCount ==
  ASSUME UNCHANGED elf,
         inner'.result = "ok" /\ loop' # "done" =>
           \E k \in {rela'.idx, rela'.entries} : AccountsTo(inner', loop', header', k),
         loop' = "done" /\ inner'.result = "ok" => inner'.used = FramesNeeded(rela'.idx)
  PROVE  CountInv'
<1>1. Handled(loop', header') = Handled(loop, header)'
  BY SameElf DEF Handled
<1>2. /\ HandledPages(loop', header') = HandledPages(loop, header)'
      /\ HandledBss(loop', header') = HandledBss(loop, header)'
      /\ HandledTails(loop', header') = HandledTails(loop, header)'
      /\ \A k : WordsTo(k) = WordsTo(k)'
  BY <1>1, SameNeeds DEF HandledPages, HandledBss, HandledTails, WordsTo
<1>3. ASSUME NEW k, AccountsTo(inner', loop', header', k)
      PROVE  AccountsTo(inner, loop, header, k)'
  BY <1>2, <1>3 DEF AccountsTo, Accounts, Marked, Tables
<1>4. (loop = "done" /\ inner.result = "ok" => inner.used = FramesNeeded(rela.idx))'
  BY SameNeeds
<1> QED
  BY <1>3, <1>4 DEF CountInv

\* An operation that maps and marks no page and takes no frame, between two headers.
LEMMA AccountsKept ==
  ASSUME NEW in, NEW out, DOMAIN out.page_table = DOMAIN in.page_table, Marked(out) = Marked(in),
         out.used = in.used, NEW l, NEW n, NEW m, NEW j, Handled(m, j) = Handled(l, n), NEW k,
         AccountsTo(in, l, n, k)
  PROVE  AccountsTo(out, m, j, k)
<1>1. HandledPages(m, j) = HandledPages(l, n) /\ HandledBss(m, j) = HandledBss(l, n) /\ HandledTails(m, j) = HandledTails(l, n)
  BY DEF HandledPages, HandledBss, HandledTails
<1> QED
  BY <1>1 DEF AccountsTo, Accounts

LEMMA InitCount == Init => CountInv
<1> SUFFICES ASSUME Init PROVE CountInv
  OBVIOUS
<1>1. Handled("load", 1) = {}
  <2>1. \A i \in Headers("Load") : i \in Nat /\ i >= 1
    BY DEF Headers
  <2> QED
    BY <2>1 DEF Handled
<1>2. loop = "load" /\ header = 1 /\ rela.idx = 0 /\ inner.used = 0 /\ DOMAIN inner.page_table = {}
  BY DEF Init
<1>3. /\ HandledPages("load", 1) = {} /\ HandledBss("load", 1) = {}
      /\ HandledTails("load", 1) \cup WordsTo(0) = {}
  BY <1>1 DEF HandledPages, HandledBss, HandledTails, WordsTo
<1>4. Accounts(inner, {}, {}, {})
  BY <1>2, FS_EmptySet DEF Accounts, Marked, Tables
<1>5. AccountsTo(inner, loop, header, rela.idx)
  BY <1>2, <1>3, <1>4 DEF AccountsTo
<1> QED
  BY <1>2, <1>5 DEF CountInv

LEMMA LoadSegmentCount == ASSUME IInv, ImageInv, CountInv, LoadSegment PROVE CountInv'
<1> DEFINE h == elf.headers[header]
<1>1. /\ elf \in ElfFile /\ InnerOK(inner) /\ inner.result = "ok" /\ loop = "load" /\ header \in Nat
      /\ header \in Headers("Load") /\ h \in ProgramHeader /\ sanity_check(h)
      /\ inner' = handle_load_segment(inner, h) /\ header' = header + 1
      /\ UNCHANGED <<elf, loop, rela, tls_template>>
  <2>1. elf \in ElfFile /\ header \in 1 .. Len(elf.headers) /\ header \in Nat
    BY HeaderNat DEF IInv, LoadSegment, AtHeader
  <2>2. h \in ProgramHeader
    BY <2>1, HeaderTyped
  <2> QED
    BY <2>1, <2>2 DEF IInv, LoadSegment, AtHeader, Headers
<1>2. PICK k \in {rela.idx, rela.entries} : AccountsTo(inner, "load", header, k)
  BY <1>1 DEF CountInv
<1>3. Handled("load", header + 1) = Handled("load", header) \cup {header}
  <2>1. \A i \in Headers("Load") : i < header + 1 <=> (i < header \/ i = header)
    BY <1>1, HeadersTyped
  <2> QED
    BY <1>1, <2>1 DEF Handled
<1>4. /\ HandledPages("load", header + 1) = HandledPages("load", header) \cup (file_pages(h) \cup BssOf(h))
      /\ HandledBss("load", header + 1) = HandledBss("load", header) \cup BssOf(h)
      /\ HandledTails("load", header + 1) = HandledTails("load", header) \cup TailOf(h)
  BY <1>3 DEF HandledPages, HandledBss, HandledTails
<1>5. ASSUME inner'.result = "ok"
      PROVE  AccountsTo(inner', "load", header + 1, k)
  <2> DEFINE out == handle_load_segment(inner, h)
             P == HandledPages("load", header)
             Z == HandledBss("load", header)
             C == HandledTails("load", header) \cup WordsTo(k)
  <2>1. out.result = "ok" /\ Accounts(inner, P, Z, C)
    BY <1>1, <1>2, <1>5 DEF AccountsTo
  <2>2. Accounts(out, P \cup (file_pages(h) \cup BssOf(h)), Z \cup BssOf(h), C \cup TailOf(h))
    <3> HIDE DEF h, P, Z, C
    <3> QED BY <1>1, <2>1, HandleLoadAccounts
  <2>3. C \cup TailOf(h) = HandledTails("load", header + 1) \cup WordsTo(k)
    BY <1>4
  <2> HIDE DEF h, out
  <2>4. AccountsTo(out, "load", header + 1, k)
    BY <1>4, <2>2, <2>3 DEF AccountsTo
  <2> QED
    BY <1>1, <2>4 DEF out
<1> HIDE DEF h
<1> QED
  BY <1>1, <1>2, <1>5, StepCount

LEMMA WordsNext ==
  ASSUME NEW n \in Nat
  PROVE  /\ WordsTo(n + 1) = WordsTo(n) \cup WordPages(elf.relocs[n + 1])
         /\ \A m \in Nat : n < m => WordsTo(m) \cup WordPages(elf.relocs[n + 1]) = WordsTo(m)
<1>1. 1 .. n + 1 = (1 .. n) \cup {n + 1}
  OBVIOUS
<1>2. \A m \in Nat : n < m => n + 1 \in 1 .. m
  OBVIOUS
<1> QED
  BY <1>1, <1>2 DEF WordsTo

LEMMA ApplyIs ==
  ASSUME elf \in ElfFile, NEW in, InnerOK(in), NEW r \in Rela, apply_relocation(in, r).result = "ok"
  PROVE  /\ apply_relocation(in, r) = copy_to(in, virtual_address_offset + r.offset, virtual_address_offset + r.addend)
         /\ virtual_address_offset + r.offset \in Int
<1>1. fail(in, "panic").result # "ok" /\ fail(in, "err").result # "ok"
  BY FailResult DEF Results
<1> QED
  BY <1>1, OffsetInt DEF apply_relocation, Rela

LEMMA RelocateCount == ASSUME IInv, ImageInv, CountInv, Relocate PROVE CountInv'
<1> DEFINE n    == rela.idx
           read == read_relocation(inner, rela.table, rela.idx)
           r    == elf.relocs[n + 1]
<1>1. /\ elf \in ElfFile /\ InnerOK(inner) /\ inner.result = "ok" /\ loop = "relocate"
      /\ n \in Nat /\ rela.entries \in Nat /\ n < rela.entries /\ UNCHANGED <<elf, loop, header, tls_template>>
      /\ inner' = IF read = "ok" THEN apply_relocation(inner, r) ELSE fail(inner, read)
      /\ rela'.idx = n + 1 /\ rela'.entries = rela.entries
  BY DEF IInv, Relocate
<1>2. read \in Results /\ (read = "ok" => n < Len(elf.relocs))
  BY DEF read_relocation, Results
<1>3. PICK k \in {n, rela.entries} : AccountsTo(inner, loop, header, k)
  BY <1>1 DEF CountInv
<1>4. ASSUME inner'.result = "ok"
      PROVE  \E m \in {n + 1, rela.entries} : AccountsTo(inner', loop, header, m)
  <2>1. read = "ok"
    <3> HIDE DEF read
    <3> QED BY <1>1, <1>2, <1>4, FailResult
  <2>2. inner' = apply_relocation(inner, r) /\ n < Len(elf.relocs)
    BY <1>1, <1>2, <2>1
  <2>3. r \in Rela
    <3>1. elf.relocs \in Seq(Rela)
      BY <1>1 DEF ElfFile
    <3>2. n + 1 \in 1 .. Len(elf.relocs)
      BY <1>1, <2>2, <3>1
    <3> QED
      BY <3>1, <3>2
  <2> DEFINE addr  == virtual_address_offset + r.offset
             value == virtual_address_offset + r.addend
             P     == HandledPages(loop, header)
             Z     == HandledBss(loop, header)
             T     == HandledTails(loop, header)
  <2>4. inner' = copy_to(inner, addr, value) /\ addr \in Int
    BY <1>1, <1>4, <2>2, <2>3, ApplyIs
  <2>5. WordPages(r) = pages_of(addr, addr + WORD_SIZE - 1)
    BY DEF WordPages
  <2>6. Accounts(inner, P, Z, T \cup WordsTo(k))
    BY <1>3 DEF AccountsTo
  <2> HIDE DEF addr, value, P, Z, T, r
  <2>7. Accounts(inner', P, Z, (T \cup WordsTo(k)) \cup WordPages(r))
    BY <1>1, <1>4, <2>4, <2>5, <2>6, CopyToAccounts
  <2>8. CASE k = n
    <3>1. (T \cup WordsTo(k)) \cup WordPages(r) = T \cup WordsTo(n + 1)
      BY <1>1, <2>8, WordsNext DEF r
    <3> QED
      BY <2>7, <3>1 DEF AccountsTo, P, Z, T
  <2>9. CASE k = rela.entries
    <3>1. (T \cup WordsTo(k)) \cup WordPages(r) = T \cup WordsTo(rela.entries)
      BY <1>1, <2>9, WordsNext DEF r
    <3> QED
      BY <2>7, <3>1 DEF AccountsTo, P, Z, T
  <2> QED
    BY <1>3, <2>8, <2>9
<1> HIDE DEF n
<1> QED
  BY <1>1, <1>4, StepCount

\* handle_relro_segment takes no frame and leaves the marks alone.
LEMMA RelroMarks ==
  ASSUME elf \in ElfFile, NEW in, InnerOK(in), NEW g, handle_relro_segment(in, g).result = "ok"
  PROVE  LET out == handle_relro_segment(in, g)
         IN  DOMAIN out.page_table = DOMAIN in.page_table /\ Marked(out) = Marked(in) /\ out.used = in.used
<1> DEFINE pt   == in.page_table
           w(p) == pt[p].writable /\ p \notin relro_pages(g)
           t    == [p \in DOMAIN pt |-> [pt[p] EXCEPT !.writable = w(p)]]
           out  == handle_relro_segment(in, g)
<1>1. fail(in, "panic").result # "ok"
  BY FailResult DEF Results
<1>2. out = [in EXCEPT !.page_table = t]
  BY <1>1, Zenon DEF handle_relro_segment
<1> HIDE DEF t, out
<1>3. out.page_table = t /\ out.used = in.used
  BY <1>2 DEF InnerOK, IsInner
<1>4. \A x \in PageTableEntry : \A b : [x EXCEPT !.writable = b].copied = x.copied
  BY DEF PageTableEntry
<1>5. \A p \in DOMAIN pt : pt[p] \in PageTableEntry
  BY DEF InnerOK, IsInner
<1>6. DOMAIN t = DOMAIN pt /\ \A p \in DOMAIN pt : t[p] = [pt[p] EXCEPT !.writable = w(p)]
  BY Zenon DEF t
<1>7. \A p \in DOMAIN pt : t[p].copied = pt[p].copied
  <2> TAKE p \in DOMAIN pt
  <2> DEFINE b == w(p)
  <2>1. t[p] = [pt[p] EXCEPT !.writable = b]
    BY <1>6, Zenon
  <2> HIDE DEF b
  <2> QED
    BY <1>4, <1>5, <2>1
<1>8. Marked(out) = Marked(in)
  BY <1>3, <1>6, <1>7 DEF Marked
<1> QED
  BY <1>3, <1>6, <1>8 DEF out

LEMMA RemoveFlagsUsed ==
  ASSUME elf \in ElfFile, NEW in, InnerOK(in)
  PROVE  remove_copied_flags(in).used = in.used
<1> DEFINE pages == UNION {mem_pages(h) : h \in Loads}
           t     == [p \in DOMAIN in.page_table |-> [in.page_table[p] EXCEPT !.copied = @ /\ p \notin pages]]
           out   == remove_copied_flags(in)
<1>1. out = [in EXCEPT !.result = "panic"] \/ out = [in EXCEPT !.page_table = t]
  BY Zenon DEF remove_copied_flags, fail
<1> HIDE DEF out, t
<1>2. out.used = in.used
  BY <1>1 DEF InnerOK, IsInner
<1> QED
  BY <1>2 DEF out

\* Once the first loop is over, all Load segments are handled.
LEMMA AllHandled ==
  ASSUME NEW l, NEW n, Handled(l, n) = Headers("Load")
  PROVE  /\ HandledPages(l, n) = ZeroedPages \cup UNION {file_pages(h) : h \in Loads}
         /\ HandledBss(l, n) = ZeroedPages /\ HandledTails(l, n) = TailPages
<1>1. HandledBss(l, n) = UNION {BssOf(h) : h \in Loads}
  BY DEF HandledBss, Loads
<1>2. UNION {BssOf(h) : h \in Loads} = ZeroedPages
  BY DEF BssOf, ZeroedPages
<1>3. HandledTails(l, n) = UNION {TailOf(h) : h \in Loads}
  BY DEF HandledTails, Loads
<1>4. UNION {TailOf(h) : h \in Loads} = TailPages
  BY DEF TailOf, TailPages
<1>5. HandledPages(l, n) = ZeroedPages \cup UNION {file_pages(h) : h \in Loads}
  <2>1. \A x : x \in HandledPages(l, n) <=>
          \E i \in Headers("Load") : x \in file_pages(elf.headers[i]) \/ x \in BssOf(elf.headers[i])
    BY DEF HandledPages
  <2>2. \A x : x \in UNION {file_pages(h) : h \in Loads} <=> \E i \in Headers("Load") : x \in file_pages(elf.headers[i])
    BY DEF Loads
  <2>3. \A x : x \in ZeroedPages <=> \E i \in Headers("Load") : x \in BssOf(elf.headers[i])
    BY <1>2 DEF Loads
  <2> QED
    BY <2>1, <2>2, <2>3
<1> QED
  BY <1>1, <1>2, <1>3, <1>4, <1>5

LEMMA FinishCount == ASSUME IInv, ImageInv, CountInv, Finish PROVE CountInv'
<1>1. /\ elf \in ElfFile /\ InnerOK(inner) /\ inner.result = "ok" /\ loop = "relro"
      /\ inner' = remove_copied_flags(inner) /\ loop' = "done" /\ UNCHANGED <<elf, header, rela, tls_template>>
  BY DEF IInv, Finish, AtEnd
<1>2. rela.idx = rela.entries
  BY <1>1 DEF ImageInv
<1>3. AccountsTo(inner, "relro", header, rela.idx)
  BY <1>1, <1>2 DEF CountInv
<1>4. Handled("relro", header) = Headers("Load")
  BY DEF Handled
<1>5. inner.used = FramesNeeded(rela.idx)
  <2> DEFINE n == rela.idx
             P == ZeroedPages \cup UNION {file_pages(h) : h \in Loads}
  <2>1. Accounts(inner, P, ZeroedPages, TailPages \cup WordsTo(n))
    BY <1>3, <1>4, AllHandled DEF AccountsTo
  <2>2. FramesNeeded(n) = Tables(P) + Cardinality(ZeroedPages) + Cardinality(TailPages \cup WordsTo(n))
    BY DEF FramesNeeded, Tables, WordsTo
  <2> QED
    BY <2>1, <2>2 DEF Accounts
<1>6. inner'.used = FramesNeeded(rela'.idx)
  BY <1>1, <1>5, RemoveFlagsUsed
<1> QED
  BY <1>1, <1>6, StepCount

LEMMA NextCount == IInv /\ ImageInv /\ CountInv /\ [Next]_vars => CountInv'
<1> SUFFICES ASSUME IInv, ImageInv, CountInv, [Next]_vars PROVE CountInv'
  OBVIOUS
<1>1. elf \in ElfFile /\ InnerOK(inner) /\ header \in Nat /\ Len(elf.headers) \in Nat
  BY HeaderNat DEF IInv
<1>2. CASE LoadSegment
  BY <1>2, LoadSegmentCount
<1>3. CASE TlsSegment
  <2>1. /\ inner.result = "ok" /\ loop = "load" /\ header' = header + 1
        /\ header \notin Headers("Load") /\ UNCHANGED <<elf, loop, rela>>
    BY <1>3 DEF TlsSegment, AtHeader, Headers
  <2>2. inner'.result = "ok" => inner' = inner
    <3>1. fail(inner, "err").result # "ok"
      BY <1>1, FailResult DEF Results
    <3> QED
      BY <1>3, <3>1 DEF TlsSegment
  <2>3. Handled(loop, header + 1) = Handled(loop, header)
    BY <1>1, <2>1, SkipKeeps
  <2>4. inner'.result = "ok" => \E k \in {rela.idx, rela.entries} : AccountsTo(inner', loop, header + 1, k)
    BY <2>1, <2>2, <2>3, AccountsKept DEF CountInv
  <2> QED
    BY <2>1, <2>4, StepCount
<1>4. CASE SkipHeader
  <2>1. /\ inner.result = "ok" /\ header' = header + 1 /\ UNCHANGED <<elf, inner, loop, rela>>
        /\ loop \in {"load", "dynamic", "relro"}
        /\ loop = "load" => header \notin Headers("Load")
        /\ loop = "relro" => header \notin Headers("GnuRelro")
    BY <1>4 DEF SkipHeader, AtHeader, Headers
  <2>2. Handled(loop, header + 1) = Handled(loop, header)
    BY <1>1, <2>1, SkipKeeps
  <2>3. \E k \in {rela.idx, rela.entries} : AccountsTo(inner, loop, header + 1, k)
    BY <2>1, <2>2, AccountsKept DEF CountInv
  <2> QED
    BY <2>1, <2>3, StepCount
<1>5. CASE NextLoop
  <2>1. /\ inner.result = "ok" /\ header' = 1 /\ UNCHANGED <<elf, inner, rela>>
        /\ header > Len(elf.headers) /\ loop \in {"load", "dynamic"} /\ loop' \in {"dynamic", "relro"}
    BY <1>5 DEF NextLoop, AtEnd
  <2>2. Handled(loop', 1) = Handled(loop, header)
    BY <1>1, <2>1, HeadersTyped DEF Handled
  <2>3. \E k \in {rela.idx, rela.entries} : AccountsTo(inner, loop', 1, k)
    BY <2>1, <2>2, AccountsKept DEF CountInv
  <2> QED
    BY <2>1, <2>3, StepCount
<1>6. CASE DynamicSegment
  <2>1. /\ inner.result = "ok" /\ loop = "dynamic" /\ UNCHANGED <<elf, tls_template>>
        /\ inner' = [inner EXCEPT !.result = dynamic_result]
        /\ loop' \in {"dynamic", "relocate"}
        /\ \/ rela'.entries = rela.entries /\ rela'.idx = rela.idx
           \/ rela'.entries = num_entries /\ rela'.idx = 0
    BY <1>1, <1>6 DEF DynamicSegment, AtHeader
  <2>2. inner'.page_table = inner.page_table /\ inner'.used = inner.used
    BY <1>1, <2>1 DEF InnerOK, IsInner
  <2>3. Handled(loop', header') = Handled(loop, header)
    BY <2>1 DEF Handled
  <2>4. rela.idx = rela.entries /\ rela.entries \in {0, num_entries}
    BY <2>1 DEF ImageInv
  <2>5. AccountsTo(inner, loop, header, rela.entries)
    BY <2>1, <2>4 DEF CountInv
  <2>6. AccountsTo(inner', loop', header', rela.entries)
    <3>1. Marked(inner') = Marked(inner)
      BY <2>2 DEF Marked
    <3> QED
      BY <2>2, <2>3, <2>5, <3>1, AccountsKept
  <2>7. rela.entries \in {rela'.idx, rela'.entries}
    BY <2>1, <2>4
  <2> QED
    BY <2>1, <2>6, <2>7, StepCount
<1>7. CASE Relocate
  BY <1>7, RelocateCount
<1>8. CASE Relocated
  <2>1. /\ inner.result = "ok" /\ loop = "relocate" /\ loop' = "dynamic" /\ UNCHANGED <<elf, inner, rela>>
    BY <1>8 DEF Relocated
  <2>2. Handled(loop', header') = Handled(loop, header)
    BY <2>1 DEF Handled
  <2>3. \E k \in {rela.idx, rela.entries} : AccountsTo(inner, loop', header', k)
    BY <2>1, <2>2, AccountsKept DEF CountInv
  <2> QED
    BY <2>1, <2>3, StepCount
<1>9. CASE RelroSegment
  <2> DEFINE g == elf.headers[header]
  <2>1. /\ inner.result = "ok" /\ loop = "relro" /\ inner' = handle_relro_segment(inner, g)
        /\ UNCHANGED <<elf, loop, rela, tls_template>>
    BY <1>9 DEF RelroSegment, AtHeader
  <2>2. Handled(loop, header') = Handled(loop, header)
    BY <2>1 DEF Handled
  <2>3. inner'.result = "ok" => \E k \in {rela.idx, rela.entries} : AccountsTo(inner', loop, header', k)
    <3> HIDE DEF g
    <3> QED BY <1>1, <2>1, <2>2, RelroMarks, AccountsKept DEF CountInv
  <2> QED
    BY <2>1, <2>3, StepCount
<1>10. CASE Finish
  BY <1>10, FinishCount
<1>11. CASE UNCHANGED vars
  BY <1>11, StepCount DEF vars, CountInv
<1> QED
  BY <1>2, <1>3, <1>4, <1>5, <1>6, <1>7, <1>8, <1>9, <1>10, <1>11 DEF Next

-----------------------------------------------------------------------------
(***************************************************************************)
(* A well-formed kernel loads.  Besides the above: where the relocation    *)
(* table is, and that a TLS template comes from a header already seen.     *)
(***************************************************************************)
Promised == WellFormed /\ FramesNeeded(Len(elf.relocs)) <= elf.free_frames

SuccessInv ==
  /\ loop = "relocate" =>
       tagged("Rela") # {} /\ rela.table = value_of("Rela") /\ rela.entries = num_entries
  /\ loop = "load" /\ tls_template # <<>> => \E i \in Headers("Tls") : i < header
  /\ Promised => inner.result = "ok"

LEMMA UnionFinite ==
  ASSUME NEW n \in Nat, NEW f, \A i \in 1 .. n : IsFiniteSet(f[i])
  PROVE  IsFiniteSet(UNION {f[i] : i \in 1 .. n})
<1> DEFINE S == 1 .. n
           T == {f[i] : i \in S}
           g == [i \in S |-> f[i]]
<1>1. g \in Surjection(S, T)
  BY DEF Surjection
<1>2. IsFiniteSet(S)
  <2>1. 1 \in Int /\ n \in Int
    OBVIOUS
  <2> QED
    BY <2>1, FS_Interval
<1> HIDE DEF g, S
<1>3. IsFiniteSet(T)
  BY <1>1, <1>2, FS_Surjection
<1>4. \A t \in T : IsFiniteSet(t)
  BY DEF S
<1> QED
  BY <1>3, <1>4, FS_UNION DEF S

\* The pages of a segment, as load_segments treats them, are those of its memory.
LEMMA SegmentParts ==
  ASSUME elf \in ElfFile, NEW h \in ProgramHeader, h.type = "Load", sanity_check(h), h \in Loads, PageCongruent,
         h.file_size <= h.mem_size, h.mem_size > 0
  PROVE  /\ file_pages(h) \subseteq mem_pages(h) /\ BssOf(h) \subseteq mem_pages(h)
         /\ BssOf(h) \cap file_pages(h) = {} /\ TailOf(h) \subseteq file_pages(h)
         /\ IsFiniteSet(mem_pages(h)) /\ mem_pages(h) # {}
<1> DEFINE v == virt(h)
           x == page_of(v)
           y == page_of(v + h.file_size - 1)
           z == page_of(v + h.mem_size - 1)
           s == zero_start(h)
<1>1. v \in Int /\ h.file_size \in Nat /\ h.mem_size \in Nat
  BY VirtInt DEF ProgramHeader
<1>2. /\ v + h.file_size - 1 \in Int /\ v + h.mem_size - 1 \in Int
      /\ v + h.file_size - 1 <= v + h.mem_size - 1 /\ v <= v + h.mem_size - 1 /\ v - 1 <= v + h.file_size - 1
      /\ s = v + h.file_size /\ s - 1 = v + h.file_size - 1 /\ s \in Int /\ v <= s
  BY <1>1 DEF zero_start
<1>3. x \in Int /\ y \in Int /\ z \in Int /\ y <= z /\ x <= z
  BY <1>1, <1>2, PageBounds, PageMonotone
<1>4. x <= y + 1
  <2> DEFINE u == v - 1
  <2>1. u \in Int /\ u <= v + h.file_size - 1
    BY <1>1, <1>2
  <2> HIDE DEF u
  <2>2. page_of(u) <= y /\ page_of(u) \in Int
    BY <1>2, <2>1, PageMonotone, PageBounds
  <2>3. x = page_of(u) \/ x = page_of(u) + 1
    BY <1>1, PageBefore DEF u
  <2> QED
    BY <1>3, <2>2, <2>3
<1>5. file_pages(h) = x .. y /\ mem_pages(h) = x .. z
  BY FilePagesAre DEF mem_pages, pages_of
<1>6. bss_pages(h) = y + 1 .. z
  BY <1>2, PageBefore DEF bss_pages, pages_of
<1>7. s % PAGE_SIZE # 0 => page_of(s - 1) \in x .. y
  <2> SUFFICES ASSUME s % PAGE_SIZE # 0 PROVE page_of(s - 1) \in x .. y
    OBVIOUS
  <2>1. page_of(s) = page_of(s - 1) /\ page_of(s - 1) = y
    BY <1>2, PageBefore
  <2>2. x <= page_of(s)
    BY <1>1, <1>2, PageMonotone
  <2> QED
    BY <1>3, <2>1, <2>2
<1> HIDE DEF v, x, y, z
<1>8. BssOf(h) \subseteq y + 1 .. z /\ TailOf(h) \subseteq x .. y
  BY <1>6, <1>7 DEF BssOf, TailOf
<1>9. y + 1 .. z \subseteq x .. z /\ x .. y \subseteq x .. z /\ (y + 1 .. z) \cap (x .. y) = {} /\ x \in x .. z
  BY <1>3, <1>4
<1>10. IsFiniteSet(x .. z)
  BY <1>3, FS_Interval
<1> QED
  BY <1>5, <1>8, <1>9, <1>10

LEMMA WellFormedSegments ==
  ASSUME elf \in ElfFile, WellFormed
  PROVE  /\ PageCongruent
         /\ \A i \in Headers("Load") :
              LET h == elf.headers[i]
              IN  /\ h \in ProgramHeader /\ h.type = "Load" /\ sanity_check(h)
                  /\ file_pages(h) \subseteq mem_pages(h) /\ BssOf(h) \subseteq mem_pages(h)
                  /\ BssOf(h) \cap file_pages(h) = {} /\ TailOf(h) \subseteq file_pages(h)
                  /\ IsFiniteSet(mem_pages(h)) /\ mem_pages(h) # {}
         /\ \A i, j \in Headers("Load") :
              i # j => mem_pages(elf.headers[i]) \cap mem_pages(elf.headers[j]) = {}
         /\ Headers("Load") # {}
<1>1. /\ \A i \in 1 .. Len(elf.headers) : sanity_check(elf.headers[i])
      /\ Loads # {} /\ PageCongruent
      /\ \A h \in Loads : h.file_size <= h.mem_size /\ h.mem_size > 0
      /\ \A i, j \in Headers("Load") :
           i # j => mem_pages(elf.headers[i]) \cap mem_pages(elf.headers[j]) = {}
  BY Zenon DEF WellFormed
<1>2. ASSUME NEW i \in Headers("Load")
      PROVE  LET h == elf.headers[i]
             IN  /\ h \in ProgramHeader /\ h.type = "Load" /\ sanity_check(h)
                 /\ file_pages(h) \subseteq mem_pages(h) /\ BssOf(h) \subseteq mem_pages(h)
                 /\ BssOf(h) \cap file_pages(h) = {} /\ TailOf(h) \subseteq file_pages(h)
                 /\ IsFiniteSet(mem_pages(h)) /\ mem_pages(h) # {}
  <2> DEFINE h == elf.headers[i]
  <2>1. h \in ProgramHeader /\ h.type = "Load" /\ sanity_check(h) /\ h \in Loads
    BY <1>1, HeadersTyped DEF Loads, Headers
  <2>2. h.file_size <= h.mem_size /\ h.mem_size > 0
    BY <1>1, <2>1
  <2> HIDE DEF h
  <2>3. /\ file_pages(h) \subseteq mem_pages(h) /\ BssOf(h) \subseteq mem_pages(h)
        /\ BssOf(h) \cap file_pages(h) = {} /\ TailOf(h) \subseteq file_pages(h)
        /\ IsFiniteSet(mem_pages(h)) /\ mem_pages(h) # {}
    BY <1>1, <2>1, <2>2, SegmentParts
  <2> QED
    BY <2>1, <2>3 DEF h
<1>3. Headers("Load") # {}
  BY <1>1 DEF Loads
<1> QED
  BY <1>1, <1>2, <1>3

\* What the frames promised pay for.
LEMMA PromiseAffords ==
  ASSUME elf \in ElfFile, Promised
  PROVE  Affordable(ZeroedPages, TailPages \cup WordsTo(Len(elf.relocs)))
<1> DEFINE n == Len(elf.headers)
           m == Len(elf.relocs)
           f == [i \in 1 .. n |-> IF i \in Headers("Load") THEN mem_pages(elf.headers[i]) ELSE {}]
           g == [i \in 1 .. m |-> WordPages(elf.relocs[i])]
           F == UNION {f[i] : i \in 1 .. n}
<1>1. n \in Nat /\ m \in Nat
  BY DEF ElfFile
<1>2. WellFormed /\ FramesNeeded(m) <= elf.free_frames
  BY DEF Promised
<1>3. IsFiniteSet(F)
  <2>1. \A i \in 1 .. n : IsFiniteSet(f[i])
    BY <1>2, WellFormedSegments, FS_EmptySet
  <2> HIDE DEF f, n
  <2> QED
    BY <1>1, <2>1, UnionFinite
<1>4. IsFiniteSet(WordsTo(m))
  <2>1. \A i \in 1 .. m : IsFiniteSet(g[i])
    <3> TAKE i \in 1 .. m
    <3> DEFINE r == elf.relocs[i]
    <3>1. r \in Rela
      BY DEF ElfFile
    <3>2. virtual_address_offset + r.offset \in Int
      BY <3>1, OffsetInt DEF Rela
    <3>3. WordPages(r) = {page_of(virtual_address_offset + r.offset),
                          page_of(virtual_address_offset + r.offset + WORD_SIZE - 1)}
      <4> HIDE DEF r
      <4> QED BY <3>2, WordPagesAre DEF WordPages
    <3>4. \A a, b : IsFiniteSet({a, b})
      <4> TAKE a, b
      <4>1. IsFiniteSet({a})
        BY FS_Singleton
      <4>2. IsFiniteSet({a} \cup {b})
        BY <4>1, FS_AddElement
      <4>3. {a, b} = {a} \cup {b}
        OBVIOUS
      <4> QED
        BY <4>2, <4>3
    <3> QED
      BY <3>3, <3>4
  <2>2. WordsTo(m) = UNION {g[i] : i \in 1 .. m}
    BY DEF WordsTo
  <2> HIDE DEF g, m
  <2>3. IsFiniteSet(UNION {g[i] : i \in 1 .. m})
    BY <1>1, <2>1, UnionFinite
  <2> QED
    BY <2>2, <2>3
<1>5. \A i \in Headers("Load") : i \in 1 .. n /\ BssOf(elf.headers[i]) \subseteq F /\ TailOf(elf.headers[i]) \subseteq F
  <2> TAKE i \in Headers("Load")
  <2>1. i \in 1 .. n
    BY HeadersTyped
  <2>2. f[i] = mem_pages(elf.headers[i])
    BY <2>1
  <2> HIDE DEF f
  <2> DEFINE h == elf.headers[i]
  <2>3. /\ file_pages(h) \subseteq mem_pages(h) /\ BssOf(h) \subseteq mem_pages(h)
        /\ TailOf(h) \subseteq file_pages(h)
    BY <1>2, WellFormedSegments
  <2> HIDE DEF h
  <2>4. BssOf(h) \subseteq f[i] /\ TailOf(h) \subseteq f[i]
    BY <2>2, <2>3 DEF h
  <2> QED
    BY <2>1, <2>4 DEF h
<1> HIDE DEF F
<1>6. Handled("done", 0) = Headers("Load")
  BY DEF Handled
<1>7. ZeroedPages \subseteq F /\ TailPages \subseteq F
  <2>1. HandledBss("done", 0) \subseteq F /\ HandledTails("done", 0) \subseteq F
    BY <1>5, <1>6 DEF HandledBss, HandledTails
  <2> QED
    BY <1>6, <2>1, AllHandled
<1>8. IsFiniteSet(ZeroedPages) /\ IsFiniteSet(TailPages \cup WordsTo(m))
  BY <1>3, <1>4, <1>7, FS_Subset, FS_Union
<1>9. ZeroedPages \cup UNION {file_pages(h) : h \in Loads} # {}
  <2>1. PICK i \in Headers("Load") : TRUE
    BY <1>2, WellFormedSegments
  <2> DEFINE h == elf.headers[i]
  <2>2. /\ h \in ProgramHeader /\ h.type = "Load" /\ sanity_check(h) /\ h \in Loads /\ PageCongruent
        /\ mem_pages(h) # {}
    BY <1>2, WellFormedSegments DEF Loads
  <2>3. PICK p \in mem_pages(h) : TRUE
    BY <2>2
  <2>4. p \in file_pages(h) \/ p \in BssOf(h)
    <3> HIDE DEF h
    <3> QED BY <2>2, SegmentPages DEF BssOf
  <2>5. p \in HandledPages("done", 0)
    BY <1>6, <2>4 DEF HandledPages
  <2> QED
    BY <1>6, <2>5, AllHandled
<1>10. FramesNeeded(m) = 3 + Cardinality(ZeroedPages) + Cardinality(TailPages \cup WordsTo(m))
  BY <1>9 DEF FramesNeeded, WordsTo
<1> QED
  BY <1>2, <1>8, <1>10 DEF Affordable

LEMMA LoadSegmentSucceeds ==
  ASSUME IInv, ImageInv, CountInv, LoadSegment, Promised
  PROVE  inner'.result = "ok"
<1> DEFINE h == elf.headers[header]
           P == HandledPages("load", header)
           Z == HandledBss("load", header)
           C == HandledTails("load", header)
           Y == ZeroedPages
           D == TailPages \cup WordsTo(Len(elf.relocs))
<1>1. /\ elf \in ElfFile /\ InnerOK(inner) /\ inner.result = "ok" /\ loop = "load" /\ header \in Nat
      /\ header \in Headers("Load") /\ inner' = handle_load_segment(inner, h) /\ WellFormed
  <2>1. elf \in ElfFile /\ header \in 1 .. Len(elf.headers) /\ header \in Nat
    BY HeaderNat DEF IInv, LoadSegment, AtHeader
  <2> QED
    BY <2>1 DEF IInv, LoadSegment, AtHeader, Headers, Promised
<1>2. /\ h \in ProgramHeader /\ sanity_check(h)
      /\ file_pages(h) \subseteq mem_pages(h) /\ BssOf(h) \subseteq mem_pages(h)
      /\ BssOf(h) \cap file_pages(h) = {} /\ TailOf(h) \subseteq file_pages(h)
  BY <1>1, WellFormedSegments
<1>3. rela.idx = 0 /\ rela.entries = 0
  BY <1>1 DEF ImageInv
<1>4. Accounts(inner, P, Z, C)
  <2>1. AccountsTo(inner, loop, header, 0)
    BY <1>1, <1>3 DEF CountInv
  <2>2. C \cup WordsTo(0) = C
    BY DEF WordsTo
  <2> QED
    BY <1>1, <2>1, <2>2 DEF AccountsTo
<1>5. P \cap mem_pages(h) = {}
  <2> SUFFICES ASSUME NEW q \in P PROVE q \notin mem_pages(h)
    OBVIOUS
  <2>1. PICK i \in Handled("load", header) : q \in file_pages(elf.headers[i]) \cup BssOf(elf.headers[i])
    BY DEF HandledPages
  <2>2. i \in Headers("Load") /\ i # header
    BY <1>1, HeadersTyped DEF Handled
  <2>3. q \in mem_pages(elf.headers[i])
    BY <1>1, <2>1, <2>2, WellFormedSegments
  <2>4. mem_pages(elf.headers[i]) \cap mem_pages(h) = {}
    BY <1>1, <2>2, WellFormedSegments
  <2> QED
    BY <2>3, <2>4
<1>6. file_pages(h) \cap P = {} /\ BssOf(h) \cap (P \cup file_pages(h)) = {}
  BY <1>2, <1>5
<1>7. Z \cup BssOf(h) \subseteq Y /\ C \cup TailOf(h) \subseteq D
  <2>1. Handled("done", 0) = Headers("Load") /\ Handled("load", header) \subseteq Headers("Load")
    BY DEF Handled
  <2>2. /\ Z \cup BssOf(h) \subseteq HandledBss("done", 0)
        /\ C \cup TailOf(h) \subseteq HandledTails("done", 0)
    BY <1>1, <2>1 DEF HandledBss, HandledTails
  <2>3. HandledBss("done", 0) = ZeroedPages /\ HandledTails("done", 0) = TailPages
    BY <2>1, AllHandled
  <2> QED
    BY <2>2, <2>3
<1>8. Affordable(Y, D)
  BY <1>1, PromiseAffords
<1> HIDE DEF h, P, Z, C, Y, D
<1>9. handle_load_segment(inner, h).result = "ok"
  BY <1>1, <1>2, <1>4, <1>6, <1>7, <1>8, HandleLoadSucceeds
<1> QED
  BY <1>1, <1>9

\* All segments are in place after the first loop.
LEMMA SegmentsMapped ==
  ASSUME IInv, ImageInv, inner.result = "ok", loop # "load", WellFormed, NEW h \in Loads
  PROVE  /\ h \in ProgramHeader /\ mem_pages(h) \subseteq DOMAIN inner.page_table
         /\ BytesAs(inner, h, rela.idx, rela.entries)
<1>1. elf \in ElfFile /\ PageCongruent
  BY WellFormedSegments DEF IInv
<1>2. PICK i \in Headers("Load") : h = elf.headers[i]
  BY DEF Loads
<1>3. i \in Handled(loop, header)
  BY DEF Handled
<1>4. PagesAs(inner, h, RelroPages(loop, header)) /\ BytesAs(inner, h, rela.idx, rela.entries)
  BY <1>1, <1>2, <1>3 DEF ImageInv, SegmentsAs
<1> QED
  BY <1>1, <1>4, LoadsTyped DEF PagesAs

LEMMA WellFormedRelocs ==
  ASSUME elf \in ElfFile, WellFormed, NEW i \in 1 .. Len(elf.relocs)
  PROVE  LET r == elf.relocs[i]
         IN  /\ r \in Rela /\ r.type = "Relative"
             /\ virtual_address_offset + r.addend \in 0 .. U64 - 1
             /\ \E h \in Loads : r.offset .. r.offset + WORD_SIZE - 1
                                   \subseteq h.virtual_addr .. h.virtual_addr + h.mem_size - 1
<1>1. elf.relocs[i] \in Rela
  BY DEF ElfFile
<1>2. /\ elf.relocs[i].type = "Relative"
      /\ \E h \in Loads : elf.relocs[i].offset .. elf.relocs[i].offset + WORD_SIZE - 1
                            \subseteq h.virtual_addr .. h.virtual_addr + h.mem_size - 1
      /\ virtual_address_offset + elf.relocs[i].addend \in 0 .. U64 - 1
  BY Zenon DEF WellFormed
<1> QED
  BY <1>1, <1>2

\* An address in a segment, as the file counts addresses.
LEMMA SegmentAddress ==
  ASSUME elf \in ElfFile, NEW h \in ProgramHeader,
         NEW a \in h.virtual_addr .. h.virtual_addr + h.mem_size - 1
  PROVE  /\ a \in Int /\ a - h.virtual_addr \in 0 .. h.mem_size - 1
         /\ h.virtual_addr + (a - h.virtual_addr) = a
         /\ page_of(virtual_address_offset + a) \in mem_pages(h)
<1> DEFINE va == h.virtual_addr
           ms == h.mem_size
           k  == a - va
<1>1. va \in Nat /\ ms \in Nat /\ a \in va .. va + ms - 1
  BY DEF ProgramHeader
<1> HIDE DEF va, ms
<1>2. a \in Int /\ k \in 0 .. ms - 1 /\ va + k = a
  BY <1>1
<1> USE DEF va, ms
<1> HIDE DEF k
<1>3. page_of(virt(h) + k) \in mem_pages(h) /\ virt(h) + k = virtual_address_offset + (h.virtual_addr + k)
  BY <1>2, BytePage
<1> QED
  BY <1>2, <1>3 DEF k

\* The first and the last address of a run of n addresses.
LEMMA RunEnds ==
  ASSUME NEW o \in Int, NEW v \in Int, NEW n \in Nat, n >= 1
  PROVE  /\ o \in o .. o + n - 1 /\ o + n - 1 \in o .. o + n - 1
         /\ (v + o) + n - 1 = v + (o + n - 1)
OBVIOUS

\* Relocations are of the supported kind, in bounds and in mapped pages.
LEMMA ApplySucceeds ==
  ASSUME IInv, ImageInv, CountInv, Promised, inner.result = "ok", loop = "relocate",
         rela.entries <= Len(elf.relocs), NEW i \in 1 .. Len(elf.relocs)
  PROVE  apply_relocation(inner, elf.relocs[i]).result = "ok"
<1> DEFINE r     == elf.relocs[i]
           m     == Len(elf.relocs)
           addr  == virtual_address_offset + r.offset
           value == virtual_address_offset + r.addend
           word  == r.offset .. r.offset + WORD_SIZE - 1
           P     == HandledPages(loop, header)
           Z     == HandledBss(loop, header)
           Y     == ZeroedPages
           D     == TailPages \cup WordsTo(m)
<1>1. /\ elf \in ElfFile /\ InnerOK(inner) /\ WellFormed /\ m \in Nat
      /\ rela.idx \in Nat /\ rela.entries \in Nat /\ rela.idx <= rela.entries
  BY DEF IInv, ElfFile, Promised
<1>2. r \in Rela /\ r.type = "Relative" /\ value \in 0 .. U64 - 1
  BY <1>1, WellFormedRelocs
<1>3. PICK h \in Loads : word \subseteq h.virtual_addr .. h.virtual_addr + h.mem_size - 1
  BY <1>1, WellFormedRelocs
<1>4. h \in ProgramHeader /\ mem_pages(h) \subseteq DOMAIN inner.page_table
  BY <1>1, <1>3, SegmentsMapped
<1>5. /\ r.offset \in Nat /\ addr \in Int /\ virtual_address_offset \in Int
      /\ h.virtual_addr \in Nat /\ h.mem_size \in Nat /\ WORD_SIZE \in Nat /\ WORD_SIZE >= 1
  BY <1>1, <1>2, <1>4, OffsetInt, SizesAssumption DEF Rela, ProgramHeader
<1>6. \A a \in word : page_of(virtual_address_offset + a) \in mem_pages(h)
  BY <1>1, <1>3, <1>4, SegmentAddress
<1>7. r.offset \in word /\ r.offset + WORD_SIZE - 1 \in word
      /\ addr + WORD_SIZE - 1 = virtual_address_offset + (r.offset + WORD_SIZE - 1)
  <2> DEFINE o == r.offset
             v == virtual_address_offset
  <2>1. o \in Int /\ v \in Int /\ WORD_SIZE \in Nat /\ WORD_SIZE >= 1
    BY <1>5
  <2> HIDE DEF o, v
  <2>2. /\ o \in o .. o + WORD_SIZE - 1 /\ o + WORD_SIZE - 1 \in o .. o + WORD_SIZE - 1
        /\ (v + o) + WORD_SIZE - 1 = v + (o + WORD_SIZE - 1)
    BY <2>1, RunEnds
  <2> QED
    BY <2>2 DEF o, v
<1>8. check_is_in_load(r.offset)
  BY <1>3, <1>7 DEF check_is_in_load
<1>9. pages_of(addr, addr + WORD_SIZE - 1) \subseteq mem_pages(h)
  <2>1. page_of(addr) \in mem_pages(h) /\ page_of(addr + WORD_SIZE - 1) \in mem_pages(h)
    BY <1>6, <1>7
  <2> HIDE DEF addr
  <2> QED
    BY <1>5, <2>1, WordPagesAre
<1>10. Handled(loop, header) = Headers("Load")
  BY DEF Handled
<1>11. PICK k \in {rela.idx, rela.entries} : Accounts(inner, P, Z, TailPages \cup WordsTo(k))
  BY <1>10, AllHandled DEF CountInv, AccountsTo
<1>12. Z \subseteq Y /\ (TailPages \cup WordsTo(k)) \cup pages_of(addr, addr + WORD_SIZE - 1) \subseteq D
  <2>1. WordsTo(k) \subseteq WordsTo(m)
    <3>1. k \in Nat /\ k <= m
      BY <1>1
    <3>2. 1 .. k \subseteq 1 .. m
      BY <1>1, <3>1
    <3> QED
      BY <3>2 DEF WordsTo
  <2>2. WordPages(r) \subseteq WordsTo(m) /\ WordPages(r) = pages_of(addr, addr + WORD_SIZE - 1)
    BY DEF WordsTo, WordPages
  <2> QED
    BY <1>10, <2>1, <2>2, AllHandled
<1>13. Affordable(Y, D)
  BY <1>1, PromiseAffords
<1>14. pages_of(addr, addr + WORD_SIZE - 1) \subseteq P
  BY <1>4, <1>9, <1>11 DEF Accounts
<1>15. apply_relocation(inner, r) = copy_to(inner, addr, value)
  BY <1>2, <1>8 DEF apply_relocation
<1> HIDE DEF addr, value, P, Z, Y, D, r
<1>16. copy_to(inner, addr, value).result = "ok"
  BY <1>1, <1>5, <1>11, <1>12, <1>13, <1>14, CopyToSucceeds
<1> QED
  BY <1>15, <1>16 DEF r

\* What a linker writes in the dynamic section.
LEMMA WellFormedDynamic ==
  ASSUME elf \in ElfFile, WellFormed
  PROVE  /\ dynamic_result = "ok"
         /\ tagged("Rela") # {} =>
              /\ num_entries = Len(elf.relocs)
              /\ \E h \in Loads :
                   LET table == h.virtual_addr - h.offset + elf.rela_at ..
                                h.virtual_addr - h.offset + elf.rela_at + RELA_SIZE * Len(elf.relocs) - 1
                   IN  /\ value_of("Rela") = h.virtual_addr - h.offset + elf.rela_at
                       /\ table \subseteq h.virtual_addr .. h.virtual_addr + h.file_size - 1
                       /\ \A i \in 1 .. Len(elf.relocs) :
                            (elf.relocs[i].offset .. elf.relocs[i].offset + WORD_SIZE - 1) \cap table = {}
<1> DEFINE Tags == {"Rela", "RelaSize", "RelaEnt"}
           dup  == \E tag \in Tags : Cardinality(tagged(tag)) > 1
           none == \A tag \in Tags : tagged(tag) = {}
           rest == IF \E tag \in Tags : tagged(tag) = {} THEN "err"
                   ELSE IF value_of("RelaEnt") # RELA_SIZE THEN "panic" ELSE "ok"
           at   == \E h \in Loads :
                     LET table == h.virtual_addr - h.offset + elf.rela_at ..
                                  h.virtual_addr - h.offset + elf.rela_at + RELA_SIZE * Len(elf.relocs) - 1
                     IN  /\ value_of("Rela") = h.virtual_addr - h.offset + elf.rela_at
                         /\ table \subseteq h.virtual_addr .. h.virtual_addr + h.file_size - 1
                         /\ \A i \in 1 .. Len(elf.relocs) :
                              (elf.relocs[i].offset .. elf.relocs[i].offset + WORD_SIZE - 1) \cap table = {}
<1>1. dynamic_result = CASE dup -> "err" [] none -> "ok" [] OTHER -> rest
  BY Zenon DEF dynamic_result
<1>2. \/ elf.relocs = <<>> /\ elf.dynamic = <<>>
      \/ /\ \A tag \in Tags : Cardinality(tagged(tag)) = 1
         /\ value_of("RelaEnt") = RELA_SIZE
         /\ value_of("RelaSize") = RELA_SIZE * Len(elf.relocs)
         /\ at
  BY Zenon DEF WellFormed
<1> HIDE DEF at
<1>3. CASE elf.dynamic = <<>>
  <2>1. \A tag : tagged(tag) = {}
    BY <1>3 DEF tagged
  <2>2. \A tag : Cardinality(tagged(tag)) = 0
    BY <2>1, FS_EmptySet
  <2>3. ~dup /\ none
    BY <2>1, <2>2
  <2> HIDE DEF dup, none, rest
  <2> QED
    BY <1>1, <2>1, <2>3
<1>4. CASE /\ \A tag \in Tags : Cardinality(tagged(tag)) = 1
           /\ value_of("RelaEnt") = RELA_SIZE
           /\ value_of("RelaSize") = RELA_SIZE * Len(elf.relocs)
           /\ at
  <2>1. \A tag \in Tags : tagged(tag) # {}
    <3> TAKE tag \in Tags
    <3>1. Cardinality(tagged(tag)) = 1
      BY <1>4
    <3>2. Cardinality({}) # 1
      BY FS_EmptySet
    <3> HIDE DEF Tags
    <3> QED
      BY <3>1, <3>2
  <2>2. ~dup /\ ~none /\ rest = "ok"
    BY <1>4, <2>1
  <2>3. num_entries = Len(elf.relocs)
    <3> DEFINE m == Len(elf.relocs)
    <3>1. num_entries = (RELA_SIZE * m) \div RELA_SIZE
      BY <1>4 DEF num_entries
    <3>2. m \in Nat /\ RELA_SIZE \in Nat /\ RELA_SIZE > 0
      BY SizesAssumption DEF ElfFile
    <3> HIDE DEF m
    <3>3. (RELA_SIZE * m) \div RELA_SIZE = m
      BY <3>2
    <3> QED
      BY <3>1, <3>3 DEF m
  <2> HIDE DEF dup, none, rest
  <2>4. dynamic_result = "ok"
    BY <1>1, <2>2
  <2> QED
    BY <1>4, <2>3, <2>4 DEF at
<1> QED
  BY <1>2, <1>3, <1>4

\* Entry idx of a table of n entries of R bytes lies in the table.
LEMMA EntryInTable ==
  ASSUME NEW R \in Nat, NEW idx \in Nat, NEW n \in Nat, idx < n, NEW k \in 0 .. R - 1
  PROVE  R * idx + k \in 0 .. R * n - 1
<1> DEFINE d == n - idx - 1
<1>1. d \in Nat /\ n = idx + (1 + d)
  OBVIOUS
<1> HIDE DEF d
<1>2. R * n = R * idx + (R + R * d) /\ R * idx \in Nat /\ R * d \in Nat
  BY <1>1
<1> QED
  BY <1>1, <1>2

\* The relocation table is mapped and no relocation changes it.
LEMMA ReadSucceeds ==
  ASSUME IInv, ImageInv, SuccessInv, WellFormed, inner.result = "ok", loop = "relocate",
         rela.idx < rela.entries
  PROVE  /\ read_relocation(inner, rela.table, rela.idx) = "ok"
         /\ rela.entries = Len(elf.relocs) /\ rela.idx + 1 \in 1 .. Len(elf.relocs)
<1> DEFINE n    == Len(elf.relocs)
           idx  == rela.idx
           t    == rela.table
           v    == virtual_address_offset
           R    == RELA_SIZE
           addr == (v + t) + R * idx
<1>1. /\ elf \in ElfFile /\ n \in Nat /\ idx \in Nat /\ t \in Nat /\ v \in Int /\ R \in Nat /\ R >= 1
      /\ tagged("Rela") # {} /\ t = value_of("Rela") /\ rela.entries = num_entries
  BY OffsetInt, SizesAssumption DEF IInv, ElfFile, SuccessInv
<1>2. rela.entries = n /\ idx < n
  BY <1>1, WellFormedDynamic
<1>3. PICK h \in Loads :
        /\ t = h.virtual_addr - h.offset + elf.rela_at
        /\ t .. t + R * n - 1 \subseteq h.virtual_addr .. h.virtual_addr + h.file_size - 1
        /\ \A i \in 1 .. n :
             (elf.relocs[i].offset .. elf.relocs[i].offset + WORD_SIZE - 1) \cap (t .. t + R * n - 1) = {}
  <2>1. PICK h \in Loads :
          /\ value_of("Rela") = h.virtual_addr - h.offset + elf.rela_at
          /\ h.virtual_addr - h.offset + elf.rela_at .. h.virtual_addr - h.offset + elf.rela_at + R * n - 1
               \subseteq h.virtual_addr .. h.virtual_addr + h.file_size - 1
          /\ \A i \in 1 .. n :
               (elf.relocs[i].offset .. elf.relocs[i].offset + WORD_SIZE - 1) \cap
               (h.virtual_addr - h.offset + elf.rela_at .. h.virtual_addr - h.offset + elf.rela_at + R * n - 1) = {}
    BY <1>1, WellFormedDynamic, Zenon
  <2>2. t = h.virtual_addr - h.offset + elf.rela_at
    BY <1>1, <2>1
  <2> QED
    BY <2>1, <2>2
<1>4. /\ h \in ProgramHeader /\ mem_pages(h) \subseteq DOMAIN inner.page_table
      /\ BytesAs(inner, h, idx, n)
  BY <1>2, SegmentsMapped
<1>5. /\ h.virtual_addr \in Nat /\ h.offset \in Nat /\ elf.rela_at \in Nat
      /\ h.file_size \in Nat /\ h.mem_size \in Nat /\ h.file_size <= h.mem_size
  <2>1. \A g \in Loads : g.file_size <= g.mem_size
    BY Zenon DEF WellFormed
  <2> QED
    BY <1>1, <1>4, <2>1 DEF ProgramHeader, ElfFile
<1>6. ASSUME NEW k \in 0 .. R - 1
      PROVE  /\ page_of(addr + k) \in mem_pages(h)
             /\ byte_at(inner, addr + k) = FileByte(elf.rela_at + R * idx + k)
  <2> DEFINE e == R * idx
             a == t + (e + k)
             va == h.virtual_addr
             fs == h.file_size
             ms == h.mem_size
             off == h.offset
             at == elf.rela_at
             T == R * n
             j == a - va
  <2>1. e + k \in 0 .. T - 1
    BY <1>1, <1>2, EntryInTable
  <2>2. /\ e \in Int /\ T \in Int /\ t \in Int /\ v \in Int /\ k \in Int
        /\ va \in Nat /\ off \in Nat /\ at \in Nat /\ fs \in Nat /\ ms \in Nat
        /\ fs <= ms /\ t = va - off + at
    <3>1. \A a1, b1 \in Nat : a1 * b1 \in Int
      OBVIOUS
    <3>2. e \in Int /\ T \in Int
      BY <1>1, <3>1
    <3> HIDE DEF e, T, v
    <3>3. v \in Int /\ t \in Int /\ k \in Int
      BY <1>1 DEF v
    <3> QED
      BY <1>3, <1>5, <3>2, <3>3
  <2>3. t .. t + T - 1 \subseteq va .. va + fs - 1
    BY <1>3
  <2>4. \A i \in 1 .. n : (elf.relocs[i].offset .. elf.relocs[i].offset + WORD_SIZE - 1) \cap (t .. t + T - 1) = {}
    BY <1>3
  <2> HIDE DEF e, va, fs, ms, off, at, T, t, v
  <2>5. a \in t .. t + T - 1
    BY <2>1, <2>2
  <2>6. a \in va .. va + fs - 1
    BY <2>3, <2>5
  <2>7. /\ j \in 0 .. fs - 1 /\ j \in 0 .. ms - 1 /\ va + j = a /\ a \in va .. va + ms - 1
        /\ off + j = at + e + k /\ (v + t) + e + k = v + a /\ j < fs
    BY <2>2, <2>6
  <2>8. Over(a, n) = {}
    BY <2>4, <2>5 DEF Over
  <2> HIDE DEF j, a
  <2>9. /\ page_of(virtual_address_offset + a) \in mem_pages(h)
        /\ virt(h) + j = virtual_address_offset + (h.virtual_addr + j)
    BY <1>1, <1>4, <2>7, SegmentAddress, BytePage DEF va, ms
  <2>10. virt(h) + j = v + a
    BY <2>7, <2>9 DEF va, v
  <2>11. byte_at(inner, virt(h) + j) = FileByte(h.offset + j)
    BY <1>4, <2>7, <2>8 DEF BytesAs, FileOrZero, va, ms, fs
  <2>12. addr + k = v + a
    BY <2>7 DEF e
  <2> QED
    BY <2>7, <2>9, <2>10, <2>11, <2>12 DEF v, off, at, e
<1>7. addr \in Int /\ 0 \in 0 .. R - 1 /\ R - 1 \in 0 .. R - 1 /\ addr + 0 = addr /\ addr + (R - 1) = addr + R - 1
  <2> DEFINE e == R * idx
  <2>1. e \in Int
    BY <1>1
  <2> HIDE DEF e, v, t
  <2> QED
    BY <1>1, <2>1 DEF e
<1> HIDE DEF addr
<1>8. page_of(addr) \in mem_pages(h) /\ page_of(addr + R - 1) \in mem_pages(h)
  BY <1>6, <1>7
<1>9. pages_of(addr, addr + R - 1) \subseteq mem_pages(h)
  <2> DEFINE b == page_of(virt(h))
             c == page_of(virt(h) + h.mem_size - 1)
             x == page_of(addr)
             y == page_of(addr + R - 1)
  <2>1. b \in Int /\ c \in Int
    <3>1. virt(h) \in Int /\ virt(h) + h.mem_size - 1 \in Int
      BY <1>1, <1>4, <1>5, VirtInt
    <3> QED
      BY <3>1, PageBounds
  <2>2. mem_pages(h) = b .. c /\ pages_of(addr, addr + R - 1) = x .. y
    BY DEF mem_pages, pages_of
  <2> HIDE DEF b, c, x, y
  <2>3. x \in b .. c /\ y \in b .. c
    BY <1>8, <2>2 DEF x, y
  <2>4. x .. y \subseteq b .. c
    BY <2>1, <2>3
  <2> QED
    BY <2>2, <2>4
<1>10. read_relocation(inner, t, idx) = "ok"
  <2>1. pages_of(addr, addr + R - 1) \subseteq DOMAIN inner.page_table
    BY <1>4, <1>9
  <2>2. \A k \in 0 .. R - 1 : byte_at(inner, addr + k) = FileByte(elf.rela_at + R * idx + k)
    BY <1>6
  <2> QED
    BY <1>2, <2>1, <2>2, Zenon DEF read_relocation, addr
<1>11. idx + 1 \in 1 .. n
  BY <1>1, <1>2
<1> QED
  BY <1>2, <1>10, <1>11

LEMMA SamePromise == ASSUME UNCHANGED elf, Promised' PROVE Promised
<1>1. /\ \A type : Headers(type)' = Headers(type)
      /\ Loads' = Loads /\ virtual_address_offset' = virtual_address_offset
      /\ PageCongruent' = PageCongruent /\ \A h : mem_pages(h)' = mem_pages(h)
  BY SameElf
<1>2. /\ \A h : sanity_check(h)' = sanity_check(h)
      /\ \A tag : tagged(tag)' = tagged(tag) /\ value_of(tag)' = value_of(tag)
  BY DEF sanity_check, tagged, value_of
<1>3. WellFormed' => WellFormed
  BY <1>1, <1>2, Zenon DEF WellFormed
<1>4. FramesNeeded(Len(elf.relocs))' = FramesNeeded(Len(elf.relocs))
  BY SameNeeds
<1> QED
  BY <1>3, <1>4 DEF Promised

\* SuccessInv after a step, in terms of the state before it where that is possible.
LEMMA StepSuccess ==
  ASSUME UNCHANGED elf,
         loop' = "relocate" =>
           tagged("Rela") # {} /\ rela'.table = value_of("Rela") /\ rela'.entries = num_entries,
         loop' = "load" /\ tls_template' # <<>> => \E i \in Headers("Tls") : i < header',
         Promised => inner'.result = "ok"
  PROVE  SuccessInv'
<1>1. Headers("Tls")' = Headers("Tls") /\ num_entries' = num_entries
  BY SameElf
<1>2. tagged("Rela")' = tagged("Rela") /\ value_of("Rela")' = value_of("Rela")
  BY DEF tagged, value_of
<1>3. Promised' => Promised
  BY SamePromise
<1> QED
  BY <1>1, <1>2, <1>3 DEF SuccessInv

LEMMA InitSuccess == Init => SuccessInv
<1> SUFFICES ASSUME Init PROVE SuccessInv
  OBVIOUS
<1>1. elf \in ElfFile
  BY KernelsAssumption DEF Init
<1>2. ASSUME Promised PROVE inner.result = "ok"
  <2>1. WellFormed
    BY <1>2 DEF Promised
  <2>2. \A i \in 1 .. Len(elf.headers) : sanity_check(elf.headers[i])
    BY <2>1, Zenon DEF WellFormed
  <2>3. PICK h \in Loads : h.mem_size > 0
    BY <2>1, Zenon DEF WellFormed
  <2>4. h.virtual_addr \in Nat /\ h.mem_size \in Nat
    BY <1>1, LoadsTyped DEF ProgramHeader
  <2>5. ~ (h.virtual_addr + h.mem_size <= h.virtual_addr)
    BY <2>3, <2>4
  <2>6. ~get_free_address_panics
    <3>1. \A g \in Loads : is_power_of_two(g.align)
      BY <2>1, Zenon DEF WellFormed
    <3> QED
      BY <2>3, <2>5, <3>1 DEF get_free_address_panics
  <2>7. elf.type # "Other" /\ elf.sane
    BY <2>1, Zenon DEF WellFormed
  <2>8. new_result = "ok"
    BY <2>2, <2>6, <2>7 DEF new_result
  <2> QED
    BY <2>8 DEF Init
<1> QED
  BY <1>2 DEF Init, SuccessInv

\* There is one TLS segment, so the template is still missing when it is met.
LEMMA OneTls ==
  ASSUME elf \in ElfFile, WellFormed, NEW i \in Headers("Tls"), NEW j \in Headers("Tls")
  PROVE  i = j
<1> SUFFICES ASSUME i # j PROVE FALSE
  OBVIOUS
<1> DEFINE S == Headers("Tls")
<1>1. Cardinality(S) <= 1
  BY Zenon DEF WellFormed
<1>2. IsFiniteSet(S)
  <2>1. IsFiniteSet(1 .. Len(elf.headers))
    <3> DEFINE n == Len(elf.headers)
    <3>1. 1 \in Int /\ n \in Int
      BY DEF ElfFile
    <3> HIDE DEF n
    <3> QED
      BY <3>1, FS_Interval DEF n
  <2>2. S \subseteq 1 .. Len(elf.headers)
    BY DEF Headers
  <2> QED
    BY <2>1, <2>2, FS_Subset
<1>3. IsFiniteSet({i}) /\ Cardinality({i}) = 1
  BY FS_Singleton
<1>4. Cardinality({i} \cup {j}) = 2
  <2>1. j \notin {i}
    OBVIOUS
  <2> DEFINE T == {i}
  <2> HIDE DEF T
  <2>2. Cardinality(T \cup {j}) = Cardinality(T) + 1
    BY <1>3, <2>1, FS_AddElement DEF T
  <2> QED
    BY <1>3, <2>2 DEF T
<1>5. Cardinality({i} \cup {j}) <= Cardinality(S) /\ Cardinality(S) \in Nat
  <2>1. {i} \cup {j} \subseteq S
    OBVIOUS
  <2> HIDE DEF S
  <2> QED
    BY <1>2, <2>1, FS_Subset, FS_CardinalityType
<1> QED
  BY <1>1, <1>4, <1>5

LEMMA RelocateSucceeds ==
  ASSUME IInv, ImageInv, CountInv, SuccessInv, Relocate, Promised
  PROVE  inner'.result = "ok"
<1>1. WellFormed /\ inner.result = "ok" /\ loop = "relocate" /\ rela.idx < rela.entries
  BY DEF Relocate, Promised
<1>2. /\ read_relocation(inner, rela.table, rela.idx) = "ok"
      /\ rela.entries = Len(elf.relocs) /\ rela.idx + 1 \in 1 .. Len(elf.relocs)
  BY <1>1, ReadSucceeds
<1>3. inner' = apply_relocation(inner, elf.relocs[rela.idx + 1])
  BY <1>2 DEF Relocate
<1>4. rela.entries <= Len(elf.relocs)
  BY <1>2 DEF IInv
<1> QED
  BY <1>1, <1>2, <1>3, <1>4, ApplySucceeds

LEMMA RelroSucceeds ==
  ASSUME IInv, ImageInv, RelroSegment, WellFormed
  PROVE  inner'.result = "ok"
<1> DEFINE g == elf.headers[header]
<1>1. /\ elf \in ElfFile /\ InnerOK(inner) /\ inner.result = "ok" /\ loop = "relro"
      /\ header \in Headers("GnuRelro") /\ inner' = handle_relro_segment(inner, g)
  <2>1. elf \in ElfFile /\ header \in 1 .. Len(elf.headers)
    BY HeaderNat DEF IInv, RelroSegment, AtHeader
  <2> QED
    BY <2>1 DEF IInv, RelroSegment, AtHeader, Headers
<1>2. PICK h \in Loads : mem_pages(g) \subseteq mem_pages(h)
  <2>1. \A i \in Headers("GnuRelro") : \E h \in Loads : mem_pages(elf.headers[i]) \subseteq mem_pages(h)
    BY Zenon DEF WellFormed
  <2> QED
    BY <1>1, <2>1
<1>3. relro_pages(g) \subseteq DOMAIN inner.page_table
  BY <1>1, <1>2, SegmentsMapped DEF relro_pages
<1> HIDE DEF g
<1>4. handle_relro_segment(inner, g).result = inner.result
  BY <1>1, <1>3 DEF handle_relro_segment, InnerOK, IsInner
<1> QED
  BY <1>1, <1>4

LEMMA FinishSucceeds ==
  ASSUME IInv, ImageInv, Finish, WellFormed
  PROVE  inner'.result = "ok"
<1>1. /\ InnerOK(inner) /\ inner.result = "ok" /\ loop = "relro" /\ inner' = remove_copied_flags(inner)
  BY DEF IInv, Finish, AtEnd
<1>2. UNION {mem_pages(h) : h \in Loads} \subseteq DOMAIN inner.page_table
  BY <1>1, SegmentsMapped
<1>3. remove_copied_flags(inner).result = inner.result
  BY <1>1, <1>2 DEF remove_copied_flags, InnerOK, IsInner
<1> QED
  BY <1>1, <1>3

LEMMA NextSuccess == IInv /\ ImageInv /\ CountInv /\ SuccessInv /\ [Next]_vars => SuccessInv'
<1> SUFFICES ASSUME IInv, ImageInv, CountInv, SuccessInv, [Next]_vars PROVE SuccessInv'
  OBVIOUS
<1>1. /\ elf \in ElfFile /\ InnerOK(inner) /\ header \in Nat /\ Len(elf.headers) \in Nat
      /\ Promised => WellFormed
  BY HeaderNat DEF IInv, Promised
<1>2. \A i \in Headers("Tls") : i < header => i < header + 1
  BY <1>1, HeadersTyped
<1>3. CASE LoadSegment
  <2>1. loop = "load" /\ header' = header + 1 /\ UNCHANGED <<elf, loop, rela, tls_template>>
    BY <1>3 DEF LoadSegment, AtHeader
  <2> QED
    BY <1>2, <1>3, <2>1, LoadSegmentSucceeds, StepSuccess DEF SuccessInv
<1>4. CASE TlsSegment
  <2>1. /\ loop = "load" /\ header' = header + 1 /\ UNCHANGED <<elf, loop, rela>> /\ inner.result = "ok"
        /\ header \in Headers("Tls")
    BY <1>1, <1>4 DEF TlsSegment, AtHeader, Headers, IInv
  <2>2. header < header + 1
    BY <1>1
  <2>3. ASSUME Promised PROVE inner'.result = "ok"
    <3>1. tls_template = <<>>
      <4> SUFFICES ASSUME tls_template # <<>> PROVE FALSE
        OBVIOUS
      <4>1. PICK i \in Headers("Tls") : i < header
        BY <2>1 DEF SuccessInv
      <4>2. i = header
        BY <1>1, <2>1, <2>3, OneTls
      <4> QED
        BY <1>1, <4>1, <4>2
    <3> QED
      BY <1>4, <2>1, <3>1 DEF TlsSegment
  <2> QED
    BY <2>1, <2>2, <2>3, StepSuccess
<1>5. CASE SkipHeader
  <2>1. /\ header' = header + 1 /\ UNCHANGED <<elf, inner, loop, rela, tls_template>>
        /\ inner.result = "ok"
    BY <1>5 DEF SkipHeader, AtHeader
  <2> QED
    BY <1>2, <2>1, StepSuccess DEF SuccessInv
<1>6. CASE NextLoop
  <2>1. /\ loop' \in {"dynamic", "relro"} /\ UNCHANGED <<elf, inner, rela, tls_template>>
        /\ inner.result = "ok"
    BY <1>6 DEF NextLoop, AtEnd
  <2> QED
    BY <2>1, StepSuccess
<1>7. CASE DynamicSegment
  <2>1. /\ loop = "dynamic" /\ inner' = [inner EXCEPT !.result = dynamic_result]
        /\ loop' \in {"dynamic", "relocate"} /\ UNCHANGED <<elf, tls_template>>
        /\ loop' = "relocate" =>
             tagged("Rela") # {} /\ rela' = [table |-> value_of("Rela"), entries |-> num_entries, idx |-> 0]
    BY <1>7 DEF DynamicSegment, AtHeader
  <2>2. Promised => inner'.result = "ok"
    BY <1>1, <2>1, WellFormedDynamic DEF InnerOK, IsInner
  <2> QED
    BY <2>1, <2>2, StepSuccess
<1>8. CASE Relocate
  <2>1. /\ loop = "relocate" /\ UNCHANGED <<elf, loop, header, tls_template>>
        /\ rela' = [rela EXCEPT !.idx = @ + 1]
    BY <1>8 DEF Relocate
  <2>2. rela'.table = rela.table /\ rela'.entries = rela.entries
    BY <2>1 DEF IInv
  <2> QED
    BY <1>8, <2>1, <2>2, RelocateSucceeds, StepSuccess DEF SuccessInv
<1>9. CASE Relocated
  <2>1. loop' = "dynamic" /\ UNCHANGED <<elf, inner, rela, tls_template>> /\ inner.result = "ok"
    BY <1>9 DEF Relocated
  <2> QED
    BY <2>1, StepSuccess
<1>10. CASE RelroSegment
  <2>1. loop = "relro" /\ UNCHANGED <<elf, loop, rela, tls_template>>
    BY <1>10 DEF RelroSegment, AtHeader
  <2> QED
    BY <1>1, <1>10, <2>1, RelroSucceeds, StepSuccess
<1>11. CASE Finish
  <2>1. loop' = "done" /\ UNCHANGED <<elf, header, rela, tls_template>>
    BY <1>11 DEF Finish
  <2> QED
    BY <1>1, <1>11, <2>1, FinishSucceeds, StepSuccess
<1>12. CASE UNCHANGED vars
  BY <1>12, StepSuccess DEF vars, SuccessInv
<1> QED
  BY <1>3, <1>4, <1>5, <1>6, <1>7, <1>8, <1>9, <1>10, <1>11, <1>12 DEF Next

-----------------------------------------------------------------------------
(***************************************************************************)
(* TypeOK: the frames taken never exceed the frames there are, every page  *)
(* is mapped to an existing frame, and the loops of load_segments stay in  *)
(* the program headers and in the relocation table, for every ELF file.    *)
(***************************************************************************)
THEOREM TypeCorrect == Spec => []TypeOK
<1>1. IInv => TypeOK
  <2> SUFFICES ASSUME IInv PROVE TypeOK
    OBVIOUS
  <2>1. IsInner(inner)
    BY DEF IInv, InnerOK
  <2>2. \A p \in DOMAIN inner.page_table : inner.page_table[p].frame \in Frames
    <3>1. \A x \in PageTableEntry : x.frame \in Frames
      BY DEF PageTableEntry
    <3> QED
      BY <2>1, <3>1 DEF IsInner
  <2>3. rela.idx \in 0 .. rela.entries
    BY DEF IInv
  <2> QED
    BY <2>1, <2>2, <2>3 DEF TypeOK, IInv, IsInner, Results
<1> QED
  BY <1>1, InitIInv, NextIInv, PTL DEF Spec

(***************************************************************************)
(* FileUntouched: load_segments and the relocations write to copies made   *)
(* by make_mut and to fresh frames only, never to the file, whatever the   *)
(* segments and relocations of the file are.                               *)
(***************************************************************************)
THEOREM FileKept == Spec => []FileUntouched
<1>1. IInv => FileUntouched
  BY DEF IInv, InnerOK, Untouched, FileUntouched
<1> QED
  BY <1>1, InitIInv, NextIInv, PTL DEF Spec

(***************************************************************************)
(* FramesOwned: a frame that make_mut or handle_bss_section took from the  *)
(* frame allocator is never mapped at two pages.                           *)
(***************************************************************************)
THEOREM OneOwner == Spec => []FramesOwned
<1>1. IInv => FramesOwned
  BY DEF IInv, InnerOK, Owned, FramesOwned
<1> QED
  BY <1>1, InitIInv, NextIInv, PTL DEF Spec

(***************************************************************************)
(* ImageCorrect: for every ELF file that load_segments accepts, each byte  *)
(* of each Load segment reads as the file and its relocations demand: no   *)
(* copy by make_mut loses a byte, no write meant for one page is seen in   *)
(* another, whatever pages and frames the segments share.                  *)
(***************************************************************************)
THEOREM ImageIsCorrect == Spec => []ImageCorrect
<1>1. IInv /\ ImageInv => ImageCorrect
  <2> SUFFICES ASSUME IInv, ImageInv, Loaded, PageCongruent, NEW h \in Loads, NEW k \in 0 .. h.mem_size - 1
               PROVE  byte_at(inner, virt(h) + k) =
                        IF Over(h.virtual_addr + k, rela.idx) # {} THEN LastWord(h.virtual_addr + k, rela.idx)
                        ELSE IF k < h.file_size THEN FileByte(h.offset + k)
                        ELSE ZeroByte
    BY Zenon DEF ImageCorrect, Over, LastWord, LastOf
  <2>1. PICK i \in Headers("Load") : h = elf.headers[i]
    BY DEF Loads
  <2>2. i \in Handled(loop, header)
    BY DEF Loaded, Handled
  <2>3. BytesAs(inner, h, rela.idx, rela.entries)
    BY <2>1, <2>2 DEF ImageInv, Loaded, SegmentsAs
  <2>4. rela.idx = rela.entries
    BY DEF ImageInv, Loaded
  <2> QED
    BY <2>3, <2>4 DEF BytesAs, FileOrZero
<1> QED
  BY <1>1, InitIInv, NextIInv, InitImage, NextImage, PTL DEF Spec

(***************************************************************************)
(* ProtectionCorrect: for every ELF file that load_segments accepts, the   *)
(* pages of a Load segment have its permissions, are write-protected by    *)
(* handle_relro_segment where RELRO says so, and carry no COPIED mark.     *)
(***************************************************************************)
THEOREM ProtectionIsCorrect == Spec => []ProtectionCorrect
<1>1. IInv /\ ImageInv => ProtectionCorrect
  <2> SUFFICES ASSUME IInv, ImageInv, Loaded, PageCongruent, NEW h \in Loads, NEW p \in mem_pages(h)
               PROVE  /\ inner.page_table[p].no_execute = ~h.x
                      /\ inner.page_table[p].writable =
                           (h.w /\ ~ \E i \in Headers("GnuRelro") : p \in mem_pages(elf.headers[i]))
                      /\ ~inner.page_table[p].copied
    BY Zenon DEF ProtectionCorrect
  <2>1. PICK i \in Headers("Load") : h = elf.headers[i]
    BY DEF Loads
  <2>2. i \in Handled(loop, header)
    BY DEF Loaded, Handled
  <2>3. PagesAs(inner, h, RelroPages("done", header))
    BY <2>1, <2>2 DEF ImageInv, Loaded, SegmentsAs
  <2>4. p \notin RelroPages("done", header) <=> ~ \E j \in Headers("GnuRelro") : p \in mem_pages(elf.headers[j])
    BY DEF RelroPages
  <2>5. ~inner.page_table[p].copied
    BY DEF ImageInv, Loaded, Unmarked
  <2>6. /\ inner.page_table[p].no_execute = ~h.x
        /\ inner.page_table[p].writable = (h.w /\ p \notin RelroPages("done", header))
    BY <2>3, Zenon DEF PagesAs
  <2>7. (h.w /\ p \notin RelroPages("done", header)) =
        (h.w /\ ~ \E j \in Headers("GnuRelro") : p \in mem_pages(elf.headers[j]))
    BY <2>4, Zenon
  <2> QED
    BY <2>5, <2>6, <2>7, Zenon
<1> QED
  BY <1>1, InitIInv, NextIInv, InitImage, NextImage, PTL DEF Spec

(***************************************************************************)
(* CopiedOnce: for every ELF file that load_segments accepts, the frames   *)
(* taken are the page tables, the zeroed pages and one frame for each page *)
(* that make_mut changed, however many relocations or headers change it.   *)
(***************************************************************************)
THEOREM NoFrameWasted == Spec => []CopiedOnce
<1>1. CountInv => CopiedOnce
  BY DEF CountInv, CopiedOnce, Loaded
<1> QED
  BY <1>1, InitIInv, NextIInv, InitImage, NextImage, InitCount, NextCount, PTL DEF Spec

(***************************************************************************)
(* LoadSucceeds: a kernel file as a linker writes it, for which there are  *)
(* enough frames, is loaded by load_segments without an error or a panic,  *)
(* and read_relocation decodes nothing but its relocations, although the   *)
(* table is read through a page table that relocations change meanwhile.   *)
(***************************************************************************)
THEOREM WellFormedLoads == Spec => []LoadSucceeds
<1>1. SuccessInv => LoadSucceeds
  BY DEF SuccessInv, Promised, LoadSucceeds
<1> QED
  BY <1>1, InitIInv, NextIInv, InitImage, NextImage, InitCount, NextCount, InitSuccess, NextSuccess, PTL DEF Spec
=============================================================================
