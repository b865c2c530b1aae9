------------------------------ MODULE Entries ------------------------------
(***************************************************************************)
(* The level-4 page table entries that are in use (initium/src/entries.rs).*)
(* initium gives everything it maps for the kernel level-4 entries of its  *)
(* own; Entries keeps count.  Its methods are operators on entry_state, a  *)
(* function from entry numbers to "in use".                                *)
(***************************************************************************)
EXTENDS Integers

CONSTANTS
  NumEntries,   \* 512 in the code
  LEVEL_4_SIZE  \* bytes one entry covers; 512 GiB in the code

ASSUME EntriesAssumption == NumEntries \in Nat \ {0} /\ LEVEL_4_SIZE \in Nat \ {0}

EntryIndex == 0 .. NumEntries - 1

EntryState == [EntryIndex -> BOOLEAN]

\* Entries::new: entry 0 is the identity mapping's.
new_entries == [i \in EntryIndex |-> i = 0]

p4_index(addr) == addr \div LEVEL_4_SIZE

\* The entries that the bytes address .. address + size - 1 lie in.
entries_of(address, size) == p4_index(address) .. p4_index(address + size - 1)

mark(entry_state, entries) == [i \in EntryIndex |-> entry_state[i] \/ i \in entries]

(***************************************************************************)
(* mark_segments: a segment is [virtual_addr, mem_size]; empty ones are    *)
(* left out.                                                               *)
(***************************************************************************)
segment_entries(segments, offset) ==
  UNION {entries_of(offset + s.virtual_addr, s.mem_size) :
           s \in {t \in segments : t.mem_size > 0}}

mark_segments(entry_state, segments, offset) ==
  mark(entry_state, segment_entries(segments, offset))

(***************************************************************************)
(* The lowest address of a kernel's segments, and the end of the highest.  *)
(* A program header table is finite, so one of its segments starts first   *)
(* and one ends last.                                                      *)
(***************************************************************************)
HasSegments(x) ==
  /\ \A s \in x : s.virtual_addr \in Nat /\ s.mem_size \in Nat
  /\ \E s \in x : \A t \in x : s.virtual_addr <= t.virtual_addr
  /\ \E s \in x : \A t \in x : t.virtual_addr + t.mem_size <= s.virtual_addr + s.mem_size

min_addr(x) == CHOOSE a \in {s.virtual_addr : s \in x} : \A t \in x : a <= t.virtual_addr

max_addr(x) ==
  CHOOSE a \in {s.virtual_addr + s.mem_size : s \in x} :
    \A t \in x : t.virtual_addr + t.mem_size <= a

(***************************************************************************)
(* get_free_entries: the first window of num unused entries.  There is no  *)
(* window of no entries (slice::windows panics).                           *)
(***************************************************************************)
is_free_FirstOnly(entry_state, idx, num) ==
  /\ idx \in EntryIndex
  /\ idx + num <= NumEntries
  /\ ~entry_state[idx]

is_free_PastTheEnd(entry_state, idx, num) ==
  idx \in EntryIndex /\ \A i \in EntryIndex : i \in idx .. idx + num - 1 => ~entry_state[i]

is_free(entry_state, idx, num) ==
  /\ idx \in EntryIndex
  /\ idx + num <= NumEntries
  /\ \A i \in idx .. idx + num - 1 : ~entry_state[i]

has_free_entries(entry_state, num) ==
  num > 0 /\ \E idx \in EntryIndex : is_free(entry_state, idx, num)

get_free_entries(entry_state, num) ==
  CHOOSE idx \in EntryIndex :
    /\ is_free(entry_state, idx, num)
    /\ \A i \in EntryIndex : is_free(entry_state, i, num) => idx <= i

(***************************************************************************)
(* get_free_address: as many entries as size needs.                        *)
(***************************************************************************)
level_4_entries(size) == (size + (LEVEL_4_SIZE - 1)) \div LEVEL_4_SIZE

get_free_address(entry_state, size) ==
  get_free_entries(entry_state, level_4_entries(size)) * LEVEL_4_SIZE

\* entry_state after get_free_address.
take_OneMore(entry_state, size) ==
  LET idx == get_free_entries(entry_state, level_4_entries(size))
  IN  mark(entry_state, idx .. idx + level_4_entries(size))

take(entry_state, size) ==
  LET idx == get_free_entries(entry_state, level_4_entries(size))
  IN  mark(entry_state, idx .. idx + level_4_entries(size) - 1)
=============================================================================
