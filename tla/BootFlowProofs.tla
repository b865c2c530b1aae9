--------------------------- MODULE BootFlowProofs ---------------------------
(***************************************************************************)
(* Proofs about the boot flow, for every firmware: whatever files it has,  *)
(* protocols it refuses, display modes it lists and pages it hands out.    *)
(***************************************************************************)
EXTENDS BootFlow, FiniteSetTheorems, WellFoundedInduction, NaturalsInduction, TLAPS

DiskSteps == {"loaded_image", "device_path", "file_system", "file", "read"}
GraphicsSteps == {"graphics_output", "modes", "describe", "forget_table"}
LastSteps == {"exit_boot_services", "system_info", "load_and_switch_to_kernel"}

Types ==
  /\ WellFormed(firmware)
  /\ pc \in {"start"} \cup DiskSteps \cup GraphicsSteps \cup LastSteps
  /\ file \in Files
  /\ opened \subseteq Protocols \cup {"GraphicsOutput"}
  /\ owner \in [Pages -> {None, "firmware"} \cup Files]
  /\ loaded \in [Files -> Slice \cup {None}]
  /\ last \in [mode : 0 .. Len(firmware.modes), width : Nat, height : Nat]
  /\ mode \in 1 .. Len(firmware.modes)
  /\ framebuffer \in FramebufferInfo \cup {None}
  /\ system_table \in BOOLEAN
  /\ system_info \in SystemInfo \cup {None}
  /\ panicked \in Panics \cup {None}

\* The steps of the kernel's half of the boot, up to the end of load_framebuffer.
BeforeGraphics == pc = "start" \/ (file = "kernel-x86_64" /\ pc \in DiskSteps)
KernelThere == pc \in GraphicsSteps \/ file = "ramdisk"

(***************************************************************************)
(* Which protocol is open at a step: at most the one just opened.          *)
(***************************************************************************)
OpenAt(step) ==
  CASE step = "device_path"          -> {"LoadedImage"}
    [] step = "file_system"          -> {"DevicePath"}
    [] step \in {"file", "read"}     -> {"SimpleFileSystem"}
    [] step \in {"modes", "describe"} -> {"GraphicsOutput"}
    [] OTHER                         -> {}

ProtocolsInv ==
  /\ panicked = None => opened = OpenAt(pc)
  /\ pc \in {"loaded_image", "graphics_output"} \cup LastSteps => opened = {}

(***************************************************************************)
(* Which file is being loaded, and what the steps passed say of it.        *)
(***************************************************************************)
FileInv ==
  /\ pc \in {"start"} \cup GraphicsSteps => file = "kernel-x86_64"
  /\ pc \in LastSteps => file = "ramdisk"
  /\ system_table = (file = "kernel-x86_64" /\ pc # "start")
  /\ pc \in {"device_path", "file_system", "file", "read"} => "LoadedImage" \notin firmware.refused[file]
  /\ pc \in {"file_system", "file", "read"} => "DevicePath" \notin firmware.refused[file]
  /\ pc \in {"file", "read"} => "SimpleFileSystem" \notin firmware.refused[file]
  /\ pc = "read" => /\ File.kind = "regular"
                    /\ "open_volume" \notin firmware.refused[file] /\ "into_type" \notin firmware.refused[file]

LoadedInv ==
  /\ KernelThere => /\ loaded["kernel-x86_64"] # None
                    /\ Available("kernel-x86_64") /\ firmware.files["kernel-x86_64"].elf
  /\ BeforeGraphics /\ panicked = None => loaded["kernel-x86_64"] = None
  /\ pc \notin LastSteps => loaded["ramdisk"] = None
  /\ pc \in LastSteps => (Available("ramdisk") <=> loaded["ramdisk"] # None)

(***************************************************************************)
(* Whose the pages are.                                                    *)
(***************************************************************************)
MemoryInv ==
  /\ \A p \in Pages : owner[p] = "firmware" <=> p \in firmware.used
  /\ panicked = None => \A n \in Files : loaded[n] = None => \A p \in Pages : owner[p] # n
  /\ \A n \in Files : loaded[n] # None =>
       /\ loaded[n].len = firmware.files[n].size
       /\ loaded[n].len >= 1
       /\ {p \in Pages : owner[p] = n} = file_pages(n)

(***************************************************************************)
(* The loop over the display modes, after the first k of them.             *)
(***************************************************************************)
Smaller(m, w, h) == m.width < w /\ m.height < h

FittingUpTo(k) == {i \in 1 .. k : fits(firmware.modes[i])}

Resembles(i) == last.width = firmware.modes[i].width /\ last.height = firmware.modes[i].height

LoopInv(k) ==
  /\ FittingUpTo(k) = {} => last.width = 0 /\ last.height = 0
  /\ FittingUpTo(k) # {} =>
       \E i \in FittingUpTo(k) :
         /\ Resembles(i)
         /\ \A j \in FittingUpTo(k) : j > i => Smaller(firmware.modes[j], last.width, last.height)
  /\ \A i \in Requested \cap 1 .. k :
       (\A j \in FittingUpTo(k) : j > i =>
          Smaller(firmware.modes[j], config.framebuffer_width, config.framebuffer_height))
         => Resembles(i)

ModeGood ==
  /\ Fitting = {} => mode = firmware.mode
  /\ Fitting # {} =>
       /\ mode \in Fitting
       /\ \A j \in Fitting : j > mode =>
            Smaller(firmware.modes[j], firmware.modes[mode].width, firmware.modes[mode].height)
  /\ \A i \in Requested :
       (\A j \in Fitting : j > i =>
          Smaller(firmware.modes[j], config.framebuffer_width, config.framebuffer_height))
         => mode = i

DisplayInv ==
  /\ BeforeGraphics \/ pc = "graphics_output" => last = [mode |-> 0, width |-> 0, height |-> 0]
  /\ BeforeGraphics \/ pc \in {"graphics_output", "modes"} => mode = firmware.mode
  /\ BeforeGraphics \/ pc \in {"graphics_output", "modes", "describe"} => framebuffer = None
  /\ pc \in {"modes", "describe"} => firmware.graphics
  /\ pc = "modes" => LoopInv(last.mode)
  /\ pc = "describe" \/ framebuffer # None => ModeGood
  /\ pc = "forget_table" \/ file = "ramdisk" => (framebuffer = None <=> ~firmware.graphics)
  /\ framebuffer # None => /\ framebuffer.addr = firmware.modes[mode].addr
                           /\ framebuffer.pixel_format \in {"Rgb", "Bgr"}

\* What BuildSystemInfo makes of what it finds.
InfoInv ==
  system_info # None =>
    /\ pc = "load_and_switch_to_kernel"
    /\ system_info.framebuffer = framebuffer
    /\ system_info.rsdp_addr = rsdp
    /\ loaded["ramdisk"] = None => system_info.ramdisk_addr = None
    /\ loaded["ramdisk"] # None => /\ system_info.ramdisk_addr = loaded["ramdisk"].addr
                                   /\ system_info.ramdisk_len = loaded["ramdisk"].len

PanicInv == panicked # None => PanicIsExplained

IInv ==
  /\ Types
  /\ ProtocolsInv
  /\ FileInv
  /\ LoadedInv
  /\ MemoryInv
  /\ DisplayInv
  /\ InfoInv
  /\ PanicInv

-----------------------------------------------------------------------------
(***************************************************************************)
(* Division by a positive number.                                          *)
(***************************************************************************)
LEMMA DivBounds ==
  ASSUME NEW b \in Nat \ {0}, NEW a \in Nat
  PROVE  a \div b \in Nat /\ b * (a \div b) <= a /\ a < b * (a \div b) + b
OBVIOUS

LEMMA TimesOrdered ==
  ASSUME NEW b \in Nat \ {0}, NEW q \in Nat, NEW r \in Nat, q > r
  PROVE  b * q >= b * r + b
OBVIOUS

LEMMA DivUnique ==
  ASSUME NEW b \in Nat \ {0}, NEW q \in Nat, NEW a \in Nat, b * q <= a, a < b * q + b
  PROVE  a \div b = q
<1>1. a \div b \in Nat /\ b * (a \div b) <= a /\ a < b * (a \div b) + b
  BY DivBounds
<1>2. ~(q > a \div b)
  BY <1>1, TimesOrdered
<1>3. ~(q < a \div b)
  BY <1>1, TimesOrdered
<1> QED
  BY <1>1, <1>2, <1>3

LEMMA DivOfSum ==
  ASSUME NEW b \in Nat \ {0}, NEW q \in Nat, NEW r \in Nat
  PROVE  (q * b + r) \div b = q + r \div b
<1>1. r \div b \in Nat /\ b * (r \div b) <= r /\ r < b * (r \div b) + b
  BY DivBounds
<1>2. b * (q + r \div b) = q * b + b * (r \div b)
  BY <1>1
<1>3. q * b \in Nat /\ b * (r \div b) \in Nat
  BY <1>1
<1> DEFINE Q == q + r \div b
           A == q * b + r
<1>4. Q \in Nat /\ A \in Nat /\ b * Q <= A /\ A < b * Q + b
  BY <1>1, <1>2, <1>3
<1> HIDE DEF Q, A
<1>5. A \div b = Q
  BY <1>4, DivUnique
<1> QED
  BY <1>5 DEF A, Q

(***************************************************************************)
(* A non-empty set of natural numbers has a least element, and one that is *)
(* bounded has a greatest.                                                 *)
(***************************************************************************)
LEMMA LeastNatural ==
  ASSUME NEW T, T \subseteq Nat, T # {}
  PROVE  \E x \in T : \A y \in T : x <= y
<1>1. PICK x \in T : \A y \in T : ~(<<y, x>> \in OpToRel(<, Nat))
  BY NatLessThanWellFounded, WFMin
<1>2. \A y \in T : ~(y < x)
  BY <1>1 DEF OpToRel
<1> QED
  BY <1>2

LEMMA GreatestNatural ==
  ASSUME NEW n \in Nat, NEW T, T \subseteq 1 .. n, T # {}
  PROVE  \E x \in T : \A y \in T : y <= x
<1> DEFINE U == {k \in Nat : n - k \in T}
<1>1. U # {}
  <2>1. PICK t \in T : TRUE
    OBVIOUS
  <2>2. n - t \in U
    BY <2>1
  <2> QED
    BY <2>2
<1>2. PICK k \in U : \A y \in U : k <= y
  BY <1>1, LeastNatural
<1>3. ASSUME NEW y \in T PROVE y <= n - k
  <2>1. n - y \in U
    BY <1>3
  <2>2. k <= n - y
    BY <1>2, <2>1
  <2> QED
    BY <2>2, <1>2, <1>3
<1> QED
  BY <1>2, <1>3

(***************************************************************************)
(* find: the first entry with the guid, or the end of the table.           *)
(***************************************************************************)
LEMMA FindFirst ==
  ASSUME config_table \in Seq(ConfigEntry), NEW guid,
         NEW from \in 1 .. Len(config_table) + 1
  PROVE  LET i == find(guid, from)
         IN  /\ i \in from .. Len(config_table) + 1
             /\ i <= Len(config_table) => config_table[i].guid = guid
             /\ \A j \in from .. i - 1 : config_table[j].guid # guid
<1> DEFINE n == Len(config_table)
           S == {i \in from .. n : config_table[i].guid = guid} \cup {n + 1}
           good(i) == /\ i <= n => config_table[i].guid = guid
                      /\ \A j \in from .. i - 1 : config_table[j].guid # guid
<1>1. n \in Nat
  OBVIOUS
<1> HIDE DEF n
<1>2. S \subseteq Nat /\ S # {} /\ S \subseteq from .. n + 1
  BY <1>1 DEF n
<1>3. PICK i \in S : \A k \in S : i <= k
  BY <1>2, LeastNatural
<1>4. i \in from .. n + 1
  BY <1>2, <1>3
<1>5. good(i)
  BY <1>1, <1>3, <1>4 DEF n
<1>6. \E k \in from .. n + 1 : good(k)
  BY <1>4, <1>5
<1>7. find(guid, from) = CHOOSE k \in from .. n + 1 : good(k)
  BY DEF find, n
<1> QED
  BY <1>6, <1>7 DEF n

(***************************************************************************)
(* The address found is that of the first ACPI 2 table, and never that of  *)
(* an ACPI 1 table: the second search starts at the end.                   *)
(***************************************************************************)
LEMMA RsdpIsAcpi2 ==
  ASSUME WellFormed(firmware)
  PROVE  /\ rsdp \in Nat \cup {None}
         /\ rsdp # None <=> Acpi2Tables # {}
         /\ \A i \in Acpi2Tables : (\A j \in Acpi2Tables : i <= j) => rsdp = config_table[i].address
<1> DEFINE n == Len(config_table)
           first == find("ACPI2", 1)
<1>1. config_table \in Seq(ConfigEntry)
  BY DEF config_table, WellFormed
<1>2. n \in Nat
  BY <1>1
<1>3. /\ first \in 1 .. n + 1
      /\ first <= n => config_table[first].guid = "ACPI2"
      /\ \A j \in 1 .. first - 1 : config_table[j].guid # "ACPI2"
  <2>1. 1 \in 1 .. n + 1
    BY <1>2
  <2> QED
    BY <2>1, <1>1, FindFirst
<1>4. \A i \in 1 .. n : config_table[i].address \in Nat
  <2>1. \A i \in 1 .. n : config_table[i] \in ConfigEntry
    BY <1>1
  <2> QED
    BY <2>1 DEF ConfigEntry
<1>5. CASE first <= n
  <2>1. rsdp = config_table[first].address
    BY <1>5 DEF rsdp
  <2>2. first \in Acpi2Tables /\ \A j \in Acpi2Tables : first <= j
    BY <1>2, <1>3, <1>5 DEF Acpi2Tables
  <2>3. \A i \in Acpi2Tables : i \in 1 .. n
    BY DEF Acpi2Tables
  <2>4. rsdp \in Nat
    BY <2>1, <2>2, <2>3, <1>4
  <2>5. \A i \in Acpi2Tables : (\A j \in Acpi2Tables : i <= j) => i = first
    BY <2>2, <2>3, <1>2
  <2> QED
    BY <2>1, <2>2, <2>4, <2>5, NoneAssumption
<1>6. CASE ~(first <= n)
  <2>1. first = n + 1
    BY <1>2, <1>3, <1>6
  <2>2. n + 1 \in 1 .. n + 1 /\ \A k \in n + 1 .. n + 1 : k = n + 1
    BY <1>2
  <2>3. find("ACPI", first) = n + 1
    BY <2>1, <2>2, <1>1, FindFirst
  <2>4. rsdp = None
    BY <1>6, <2>1, <2>3, <1>2 DEF rsdp
  <2>5. Acpi2Tables = {}
    BY <1>2, <1>3, <2>1 DEF Acpi2Tables
  <2> QED
    BY <2>4, <2>5
<1> QED
  BY <1>5, <1>6

-----------------------------------------------------------------------------
(***************************************************************************)
(* The pages a file of at least one byte takes are those its bytes lie in; *)
(* an empty file asks for more pages than there are.                       *)
(***************************************************************************)
LEMMA PageCountOfSome ==
  ASSUME NEW size \in 1 .. UsizeRange - 1
  PROVE  page_count(size) = (size - 1) \div PAGE_SIZE + 1 /\ page_count(size) \in Nat \ {0}
<1>1. size - 1 \in Nat /\ (size - 1) % UsizeRange = size - 1
  BY FlowAssumption
<1>2. (size - 1) \div PAGE_SIZE \in Nat
  BY <1>1, DivBounds, FlowAssumption
<1> QED
  BY <1>1, <1>2 DEF page_count

LEMMA EmptyFileNeverFits == free_runs(page_count(0)) = {}
<1> DEFINE c == Cardinality(Pages)
           n == page_count(0)
<1>1. c \in Nat
  BY FlowAssumption, FS_CardinalityType
<1>2. UsizeRange > PAGE_SIZE * (c + 1) /\ PAGE_SIZE * (c + 1) \in Nat
  BY <1>1, FlowAssumption
<1>3. (0 - 1) % UsizeRange = UsizeRange - 1
  BY <1>2, FlowAssumption
<1>4. UsizeRange - 1 \in Nat /\ PAGE_SIZE * (c + 1) <= UsizeRange - 1
  BY <1>2, FlowAssumption
<1> DEFINE q == (UsizeRange - 1) \div PAGE_SIZE
<1>5. q \in Nat /\ UsizeRange - 1 < PAGE_SIZE * q + PAGE_SIZE
  BY <1>4, DivBounds, FlowAssumption
<1>6. n = q + 1
  BY <1>3 DEF page_count
<1> HIDE DEF q, n, c
<1>7. q >= c + 1
  <2>1. SUFFICES ASSUME c + 1 > q PROVE FALSE
    BY <1>1, <1>5
  <2>2. PAGE_SIZE * (c + 1) >= PAGE_SIZE * q + PAGE_SIZE
    BY <2>1, <1>1, <1>5, TimesOrdered, FlowAssumption
  <2>3. PAGE_SIZE * q \in Nat
    BY <1>5, FlowAssumption
  <2> QED
    BY <2>2, <2>3, <1>2, <1>4, <1>5, FlowAssumption
<1>8. ASSUME NEW p \in free_runs(n) PROVE FALSE
  <2>1. p \in Nat /\ p .. p + n - 1 \subseteq Pages
    BY FlowAssumption DEF free_runs
  <2>2. Cardinality(p .. p + n - 1) = n
    BY <2>1, <1>5, <1>6, FS_Interval
  <2>3. Cardinality(p .. p + n - 1) <= c
    BY <2>1, FlowAssumption, FS_Subset DEF c
  <2> QED
    BY <2>2, <2>3, <1>1, <1>5, <1>6, <1>7
<1> QED
  BY <1>8 DEF n

(***************************************************************************)
(* Where the pages were found, the file lies.                              *)
(***************************************************************************)
LEMMA PagesOfSlice ==
  ASSUME NEW p \in Nat, NEW size \in 1 .. UsizeRange - 1
  PROVE  /\ p * PAGE_SIZE \in Nat
         /\ (p * PAGE_SIZE) \div PAGE_SIZE = p
         /\ (p * PAGE_SIZE + size - 1) \div PAGE_SIZE = p + page_count(size) - 1
<1>1. p * PAGE_SIZE \in Nat /\ size - 1 \in Nat /\ PAGE_SIZE \in Nat \ {0}
  BY FlowAssumption
<1>2. (p * PAGE_SIZE + 0) \div PAGE_SIZE = p + 0 \div PAGE_SIZE
  BY <1>1, DivOfSum
<1>3. 0 \div PAGE_SIZE = 0
  BY <1>1, DivUnique
<1>4. (p * PAGE_SIZE + (size - 1)) \div PAGE_SIZE = p + (size - 1) \div PAGE_SIZE
  BY <1>1, DivOfSum
<1>5. p * PAGE_SIZE + (size - 1) = p * PAGE_SIZE + size - 1 /\ p * PAGE_SIZE + 0 = p * PAGE_SIZE
  BY <1>1
<1>6. (size - 1) \div PAGE_SIZE \in Nat
  BY <1>1, DivBounds
<1> QED
  BY <1>1, <1>2, <1>3, <1>4, <1>5, <1>6, PageCountOfSome

(***************************************************************************)
(* If no run of pages is free, there is no room for the file.              *)
(***************************************************************************)
LEMMA NoRunNoRoom ==
  ASSUME NEW size \in 1 .. UsizeRange - 1, HasRoomFor(size)
  PROVE  free_runs(page_count(size)) # {}
<1>1. PICK p, q \in Pages : /\ (q - p + 1) * PAGE_SIZE >= size
                            /\ \A r \in p .. q : r \in Pages /\ owner[r] = None
  BY DEF HasRoomFor
<1> DEFINE n == page_count(size)
           k == (size - 1) \div PAGE_SIZE
<1>2. p \in Nat /\ q \in Nat /\ PAGE_SIZE \in Nat \ {0}
  BY FlowAssumption
<1>3. n = k + 1 /\ k \in Nat /\ PAGE_SIZE * k <= size - 1
  BY <1>2, PageCountOfSome, DivBounds
<1> HIDE DEF n, k
<1>4. q - p + 1 > k
  <2>1. SUFFICES ASSUME q - p + 1 <= k PROVE FALSE
    BY <1>2, <1>3
  <2>2. PAGE_SIZE * k \in Nat /\ (q - p + 1) * PAGE_SIZE <= PAGE_SIZE * k
    BY <2>1, <1>2, <1>3
  <2> QED
    BY <2>2, <1>1, <1>2, <1>3
<1>5. p .. p + n - 1 \subseteq p .. q
  BY <1>2, <1>3, <1>4
<1>6. p \in free_runs(n)
  BY <1>1, <1>5 DEF free_runs
<1> QED
  BY <1>6 DEF n

-----------------------------------------------------------------------------
(***************************************************************************)
(* What a well-formed firmware offers.                                     *)
(***************************************************************************)
LEMMA ModesTyped ==
  ASSUME WellFormed(firmware)
  PROVE  /\ Len(firmware.modes) \in Nat \ {0}
         /\ firmware.mode \in 1 .. Len(firmware.modes)
         /\ \A i \in 1 .. Len(firmware.modes) :
              /\ firmware.modes[i] \in FramebufferInfo
              /\ firmware.modes[i].width \in Nat \ {0}
              /\ firmware.modes[i].height \in Nat \ {0}
              /\ firmware.modes[i].addr \in Nat
              /\ firmware.modes[i].pixel_format \in PixelFormats
<1>1. firmware.modes \in Seq(DisplayMode) /\ firmware.mode \in 1 .. Len(firmware.modes)
  BY DEF WellFormed
<1>2. \A i \in 1 .. Len(firmware.modes) : firmware.modes[i] \in FramebufferInfo
  BY <1>1 DEF DisplayMode
<1>3. \A i \in 1 .. Len(firmware.modes) : firmware.modes[i].width > 0 /\ firmware.modes[i].height > 0
  BY DEF WellFormed
<1>4. \A f \in FramebufferInfo : /\ f.width \in Nat /\ f.height \in Nat
                                 /\ f.addr \in Nat /\ f.pixel_format \in PixelFormats
  BY DEF FramebufferInfo
<1> QED
  BY <1>1, <1>2, <1>3, <1>4

LEMMA FilesTyped ==
  ASSUME WellFormed(firmware), NEW n \in Files
  PROVE  /\ firmware.files[n].kind \in {"absent", "directory", "regular"}
         /\ firmware.files[n].size \in 0 .. UsizeRange - 1
         /\ firmware.files[n].elf \in BOOLEAN
         /\ firmware.refused[n] \subseteq Protocols \cup FileCalls
         /\ firmware.graphics \in BOOLEAN
BY DEF WellFormed

(***************************************************************************)
(* An iteration of the loop over the display modes.                        *)
(***************************************************************************)
LEMMA LoopStep ==
  ASSUME Types, LoopInv(last.mode), ConsiderMode
  PROVE  LoopInv(last.mode)'
<1>0. PICK k : k = last.mode
  OBVIOUS
<1> DEFINE m == firmware.modes[k + 1]
           W == config.framebuffer_width
           H == config.framebuffer_height
<1>1. /\ k \in 0 .. Len(firmware.modes) /\ k < Len(firmware.modes)
      /\ last.width \in Nat /\ last.height \in Nat
      /\ W \in Nat \ {0} /\ H \in Nat \ {0}
  BY <1>0, FlowAssumption DEF Types, ConsiderMode
<1>2. Len(firmware.modes) \in Nat /\ k \in Nat /\ k + 1 \in 1 .. Len(firmware.modes)
  BY <1>1, ModesTyped DEF Types
<1>3. \A i \in 1 .. Len(firmware.modes) : firmware.modes[i].width \in Nat \ {0} /\ firmware.modes[i].height \in Nat \ {0}
  BY ModesTyped DEF Types
<1>4. /\ firmware' = firmware
      /\ last'.mode = k + 1
      /\ last'.width = IF accepts(m) THEN m.width ELSE last.width
      /\ last'.height = IF accepts(m) THEN m.height ELSE last.height
  BY <1>0 DEF ConsiderMode, diskVars
<1>5. \A j : FittingUpTo(j)' = FittingUpTo(j)
  BY <1>4 DEF FittingUpTo, fits
<1>6. Requested' = Requested
  BY <1>4 DEF Requested, Fitting, fits
<1>7. FittingUpTo(k + 1) = IF fits(m) THEN FittingUpTo(k) \cup {k + 1} ELSE FittingUpTo(k)
  BY <1>2 DEF FittingUpTo
<1>8. \A i \in FittingUpTo(k) : i \in 1 .. k /\ fits(firmware.modes[i])
  BY DEF FittingUpTo
<1>9. CASE accepts(m)
  <2>1. fits(m)
    BY <1>9 DEF accepts
  <2>2. k + 1 \in FittingUpTo(k + 1) /\ Resembles(k + 1)'
    BY <2>1, <1>2, <1>4, <1>7, <1>9 DEF Resembles
  <2>3. \A j \in FittingUpTo(k + 1) : ~(j > k + 1)
    BY <1>2, <1>7, <1>8
  <2>4. ASSUME NEW i \in Requested \cap 1 .. k + 1,
               \A j \in FittingUpTo(k + 1) : j > i => Smaller(firmware.modes[j], W, H)
        PROVE  Resembles(i)'
    <3>1. CASE i = k + 1
      BY <3>1, <2>2
    <3>2. CASE i # k + 1
      <4>1. i \in Requested \cap 1 .. k
        BY <3>2, <1>2
      <4>2. Resembles(i)
        BY <4>1, <2>4, <1>7, <1>0 DEF LoopInv
      <4>3. last.width = W /\ last.height = H
        BY <4>1, <4>2 DEF Requested, Resembles
      <4>4. Smaller(m, W, H)
        BY <4>1, <2>2, <2>4, <1>2
      <4> QED
        BY <4>3, <4>4, <1>9, <1>1, <1>2, <1>3 DEF accepts, Smaller
    <3> QED
      BY <3>1, <3>2
  <2>5. \E i \in FittingUpTo(k + 1) : /\ Resembles(i)'
                                      /\ \A j \in FittingUpTo(k + 1) : j > i => Smaller(firmware.modes[j], last'.width, last'.height)
    BY <2>2, <2>3
  <2> QED
    BY <2>2, <2>4, <2>5, <1>4, <1>5, <1>6, <1>0 DEF LoopInv, Smaller
<1>10. CASE ~accepts(m)
  <2>1. last'.width = last.width /\ last'.height = last.height
    BY <1>4, <1>10
  <2>2. fits(m) => Smaller(m, last.width, last.height)
    BY <1>10, <1>1, <1>2, <1>3 DEF accepts, Smaller
  <2>3. FittingUpTo(k) = {} => ~fits(m)
    BY <2>2, <1>1, <1>2, <1>3, <1>0 DEF LoopInv, Smaller
  <2>4. \A i : Resembles(i)' = Resembles(i)
    BY <2>1, <1>4 DEF Resembles
  <2>5. FittingUpTo(k + 1) # {} =>
          \E i \in FittingUpTo(k + 1) :
            /\ Resembles(i)
            /\ \A j \in FittingUpTo(k + 1) : j > i => Smaller(firmware.modes[j], last.width, last.height)
    <3>1. SUFFICES ASSUME FittingUpTo(k) # {}
                   PROVE  \E i \in FittingUpTo(k + 1) :
                            /\ Resembles(i)
                            /\ \A j \in FittingUpTo(k + 1) : j > i => Smaller(firmware.modes[j], last.width, last.height)
      BY <2>3, <1>7
    <3>2. PICK i \in FittingUpTo(k) :
                 /\ Resembles(i)
                 /\ \A j \in FittingUpTo(k) : j > i => Smaller(firmware.modes[j], last.width, last.height)
      BY <3>1, <1>0 DEF LoopInv
    <3> QED
      BY <3>2, <2>2, <1>7
  <2>6. ASSUME NEW i \in Requested \cap 1 .. k + 1,
               \A j \in FittingUpTo(k + 1) : j > i => Smaller(firmware.modes[j], W, H)
        PROVE  Resembles(i)
    <3>1. i # k + 1
      <4>1. SUFFICES ASSUME i = k + 1 PROVE FALSE
        OBVIOUS
      <4>2. fits(m) /\ m.width = W /\ m.height = H
        BY <4>1 DEF Requested, Fitting
      <4>3. Smaller(m, last.width, last.height)
        BY <4>2, <2>2
      <4>4. PICK j \in FittingUpTo(k) : Resembles(j)
        BY <4>2, <2>3, <1>0 DEF LoopInv
      <4>5. fits(firmware.modes[j]) /\ j \in 1 .. Len(firmware.modes)
        BY <1>8, <1>2
      <4> QED
        BY <4>2, <4>3, <4>4, <4>5, <1>1, <1>3 DEF Smaller, Resembles, fits
    <3>2. i \in Requested \cap 1 .. k
      BY <3>1, <1>2
    <3> QED
      BY <3>2, <2>6, <1>7, <1>0 DEF LoopInv
  <2>7. FittingUpTo(k + 1) = {} => last.width = 0 /\ last.height = 0
    BY <1>7, <1>0 DEF LoopInv
  <2> QED
    BY <2>1, <2>4, <2>5, <2>6, <2>7, <1>4, <1>5, <1>6, <1>0 DEF LoopInv, Smaller
<1> QED
  BY <1>9, <1>10

(***************************************************************************)
(* The end of the loop: the last mode with the resolution found is set.    *)
(***************************************************************************)
LEMMA SetModeGood ==
  ASSUME Types, LoopInv(last.mode), mode = firmware.mode, SetMode, pc' = "describe"
  PROVE  ModeGood' /\ mode' \in 1 .. Len(firmware.modes)
<1> DEFINE n == Len(firmware.modes)
           W == config.framebuffer_width
           H == config.framebuffer_height
<1>1. /\ last.mode = n /\ firmware' = firmware /\ At("modes")
      /\ last.width \in Nat /\ last.height \in Nat /\ W \in Nat \ {0} /\ H \in Nat \ {0}
  BY FlowAssumption DEF Types, SetMode, diskVars
<1>2. /\ n \in Nat \ {0} /\ firmware.mode \in 1 .. n
      /\ \A i \in 1 .. n : firmware.modes[i].width \in Nat \ {0} /\ firmware.modes[i].height \in Nat \ {0}
  BY ModesTyped DEF Types
<1>3. Fitting' = Fitting /\ Requested' = Requested
  BY <1>1 DEF Fitting, Requested, fits
<1>4. FittingUpTo(n) = Fitting /\ Fitting \subseteq 1 .. n /\ Requested \subseteq Fitting
  BY DEF FittingUpTo, Fitting, Requested
<1>5. Requested \cap 1 .. n = Requested
  BY <1>4
<1>6. candidates \subseteq 1 .. n
  BY DEF candidates
<1>7. \A i \in 1 .. n : i \in candidates <=> Resembles(i)
  BY DEF candidates, Resembles
<1>8. Fitting = {} => last.width = 0 /\ last.height = 0
  BY <1>1, <1>4 DEF LoopInv
<1>9. Fitting # {} =>
        \E i \in Fitting : /\ Resembles(i)
                           /\ \A j \in Fitting : j > i => Smaller(firmware.modes[j], last.width, last.height)
  BY <1>1, <1>4 DEF LoopInv
<1>10. \A i \in Requested :
         (\A j \in Fitting : j > i => Smaller(firmware.modes[j], W, H)) => Resembles(i)
  BY <1>1, <1>4, <1>5 DEF LoopInv
<1>11. Fitting = {} => candidates = {}
  BY <1>2, <1>6, <1>7, <1>8 DEF Resembles
<1>12. Fitting # {} => candidates # {}
  BY <1>4, <1>7, <1>9
<1>13. CASE candidates = {}
  <2>1. mode' = mode /\ Fitting = {}
    BY <1>12, <1>13 DEF SetMode
  <2>2. Requested = {}
    BY <2>1, <1>4
  <2> QED
    BY <2>1, <2>2, <1>1, <1>2, <1>3 DEF ModeGood
<1>14. CASE candidates # {}
  <2>1. mode' = CHOOSE i \in candidates : \A j \in candidates : j <= i
    BY <1>1, <1>14 DEF SetMode, Panic, At
  <2>2. \E i \in candidates : \A j \in candidates : j <= i
    BY <1>2, <1>6, <1>14, GreatestNatural
  <2>3. mode' \in candidates /\ \A j \in candidates : j <= mode'
    BY <2>1, <2>2
  <2> DEFINE M == mode'
  <2>4. M \in 1 .. n /\ Resembles(M)
    BY <2>3, <1>6, <1>7
  <2>5. Fitting # {}
    BY <1>11, <1>14
  <2>6. PICK i \in Fitting :
               /\ Resembles(i)
               /\ \A j \in Fitting : j > i => Smaller(firmware.modes[j], last.width, last.height)
    BY <2>5, <1>9
  <2>7. i \in 1 .. n /\ i <= M
    BY <2>3, <2>6, <1>4, <1>7
  <2>8. /\ firmware.modes[M].width = last.width /\ firmware.modes[M].height = last.height
        /\ firmware.modes[i].width = last.width /\ firmware.modes[i].height = last.height
    BY <2>4, <2>6 DEF Resembles
  <2>9. M \in Fitting
    BY <2>4, <2>6, <2>8 DEF Fitting, fits
  <2>10. \A j \in Fitting : j > M =>
           Smaller(firmware.modes[j], firmware.modes[M].width, firmware.modes[M].height)
    BY <2>4, <2>6, <2>7, <2>8, <1>2, <1>4
  <2>11. ASSUME NEW r \in Requested, \A j \in Fitting : j > r => Smaller(firmware.modes[j], W, H)
         PROVE  M = r
    <3>1. Resembles(r) /\ firmware.modes[r].width = W /\ r \in 1 .. n
      BY <2>11, <1>4, <1>10 DEF Requested
    <3>2. r <= M
      BY <3>1, <2>3, <1>7
    <3>3. ~(M > r)
      BY <3>1, <2>8, <2>9, <2>11, <1>1 DEF Resembles, Smaller
    <3> QED
      BY <3>1, <3>2, <3>3, <2>4
  <2> HIDE DEF M
  <2>12. /\ Fitting # {} /\ M \in Fitting
         /\ \A j \in Fitting : j > M =>
              Smaller(firmware.modes[j], firmware.modes[M].width, firmware.modes[M].height)
         /\ \A r \in Requested :
              (\A j \in Fitting : j > r => Smaller(firmware.modes[j], W, H)) => M = r
    BY <2>5, <2>9, <2>10, <2>11
  <2> QED
    BY <2>4, <2>12, <1>1, <1>3 DEF ModeGood, Smaller, M
<1> QED
  BY <1>13, <1>14

-----------------------------------------------------------------------------

LEMMA InitIInv == Init => IInv
<1> SUFFICES ASSUME Init PROVE IInv
  OBVIOUS
<1>1. WellFormed(firmware)
  BY FirmwaresAssumption DEF Init
<1>2. Types
  <2>1. owner \in [Pages -> {None, "firmware"} \cup Files]
    BY DEF Init
  <2>2. loaded \in [Files -> Slice \cup {None}]
    BY DEF Init
  <2>3. Len(firmware.modes) \in Nat /\ firmware.mode \in 1 .. Len(firmware.modes)
    BY <1>1, ModesTyped
  <2>4. /\ last \in [mode : 0 .. Len(firmware.modes), width : Nat, height : Nat]
        /\ mode \in 1 .. Len(firmware.modes)
    BY <2>3 DEF Init
  <2>5. pc = "start" /\ file \in Files
    BY DEF Init, Files
  <2> QED
    BY <1>1, <2>1, <2>2, <2>4, <2>5 DEF Init, Types
<1>3. ProtocolsInv /\ FileInv
  BY DEF Init, ProtocolsInv, OpenAt, FileInv, GraphicsSteps, LastSteps
<1>4. LoadedInv
  BY DEF Init, LoadedInv, KernelThere, Files, GraphicsSteps, LastSteps
<1>5. MemoryInv
  BY NoneAssumption DEF Init, MemoryInv, Files
<1>6. DisplayInv
  BY DEF Init, DisplayInv, BeforeGraphics
<1>7. InfoInv /\ PanicInv
  BY DEF Init, InfoInv, PanicInv
<1> QED
  BY <1>2, <1>3, <1>4, <1>5, <1>6, <1>7 DEF IInv

(***************************************************************************)
(* Steps that touch neither pages nor slices keep the memory in order, and *)
(* a step leaves the firmware alone.                                       *)
(***************************************************************************)
LEMMA MemoryFrame ==
  ASSUME MemoryInv, panicked = None, UNCHANGED <<firmware, owner, loaded>>
  PROVE  MemoryInv'
BY DEF MemoryInv, file_pages

LEMMA FirmwareKept == ASSUME [Next]_vars PROVE firmware' = firmware
BY DEF Next, Start, OpenLoadedImage, OpenDevicePath, OpenFileSystem, OpenFile, GetInfoFails, ReadFile,
   OutOfPages, OpenGraphicsOutput, ConsiderMode, SetMode, DescribeFramebuffer, ForgetSystemTable,
   ExitBootServices, BuildSystemInfo, vars, flowVars, diskVars

LEMMA StartStep == ASSUME IInv, Start PROVE IInv'
<1> USE DEF Start, At, Goto
<1>1. Types'
  BY DEF IInv, Types, DiskSteps
<1>2. ProtocolsInv' /\ FileInv'
  BY DEF IInv, ProtocolsInv, OpenAt, FileInv, File, GraphicsSteps, LastSteps
<1>3. LoadedInv'
  BY DEF IInv, FileInv, LoadedInv, KernelThere, BeforeGraphics, Available, DiskSteps, GraphicsSteps, LastSteps
<1>4. MemoryInv'
  BY MemoryFrame DEF IInv
<1>5. DisplayInv'
  BY DEF IInv, FileInv, DisplayInv, BeforeGraphics, DiskSteps
<1>6. InfoInv' /\ PanicInv'
  BY DEF IInv, InfoInv, PanicInv
<1> QED
  BY <1>1, <1>2, <1>3, <1>4, <1>5, <1>6 DEF IInv

(***************************************************************************)
(* Returning None from load_file_from_disk, once the protocols are closed, *)
(* because the file cannot be had: the kernel's absence is explained, and  *)
(* a boot without ramdisk goes on.                                         *)
(***************************************************************************)
LEMMA ReturnNoneStep ==
  ASSUME IInv, panicked = None, pc \in DiskSteps, ~Available(file),
         ReturnNone, opened' = {}, UNCHANGED <<owner, loaded>>, UNCHANGED flowVars,
         File.kind = "absent" \/ firmware.refused[file] \cap Protocols # {}
  PROVE  IInv'
<1> USE DEF ReturnNone, Goto, Panic, flowVars
<1>0. file \in Files /\ firmware' = firmware
  BY DEF IInv, Types
<1>1. Types'
  BY DEF IInv, Types, Panics, LastSteps
<1>2. ProtocolsInv' /\ FileInv'
  BY <1>0, NoneAssumption DEF IInv, ProtocolsInv, OpenAt, FileInv, File, Files, Panics, DiskSteps, GraphicsSteps, LastSteps
<1>3. LoadedInv'
  BY <1>0 DEF IInv, FileInv, LoadedInv, KernelThere, BeforeGraphics, Available, Files, DiskSteps, GraphicsSteps, LastSteps
<1>4. MemoryInv'
  BY MemoryFrame DEF IInv
<1>5. DisplayInv'
  BY <1>0 DEF IInv, DisplayInv, LoopInv, FittingUpTo, Fitting, Requested, Resembles, fits, ModeGood,
    BeforeGraphics, Files, DiskSteps
<1>6. InfoInv'
  BY <1>0 DEF IInv, InfoInv, DiskSteps, rsdp, find, config_table
<1>7. PanicInv'
  <2>1. CASE file = "kernel-x86_64"
    <3>1. panicked' = "no_kernel"
      BY <2>1
    <3>2. File.kind = "absent" \/ firmware.refused[file] \cap Protocols # {}
      OBVIOUS
    <3> QED
      BY <3>1, <3>2, <2>1, <1>0 DEF PanicInv, PanicIsExplained, File, FileCalls
  <2>2. CASE file # "kernel-x86_64"
    BY <2>2 DEF PanicInv
  <2> QED
    BY <2>1, <2>2
<1> QED
  BY <1>1, <1>2, <1>3, <1>4, <1>5, <1>6, <1>7 DEF IInv

(***************************************************************************)
(* Going on to the next step of load_file_from_disk.                       *)
(***************************************************************************)
LEMMA DiskStep ==
  ASSUME IInv, panicked = None, pc \in DiskSteps, NEW step \in DiskSteps,
         step # "loaded_image", Goto(step), opened' = OpenAt(step),
         UNCHANGED <<owner, loaded>>, UNCHANGED flowVars, FileInv'
  PROVE  IInv'
<1> USE DEF Goto, flowVars
<1>0. file \in Files /\ firmware' = firmware
  BY DEF IInv, Types
<1>1. Types'
  BY DEF IInv, Types, OpenAt, Protocols, DiskSteps
<1>2. ProtocolsInv'
  BY <1>0 DEF ProtocolsInv, OpenAt, DiskSteps, LastSteps
<1>3. LoadedInv'
  BY <1>0 DEF IInv, FileInv, LoadedInv, KernelThere, BeforeGraphics, Available, Files, DiskSteps, GraphicsSteps, LastSteps
<1>4. MemoryInv'
  BY MemoryFrame DEF IInv
<1>5. DisplayInv'
  BY <1>0 DEF IInv, DisplayInv, LoopInv, FittingUpTo, Fitting, Requested, Resembles, fits, ModeGood,
    BeforeGraphics, Files, DiskSteps
<1>6. InfoInv' /\ PanicInv'
  BY <1>0 DEF IInv, InfoInv, PanicInv, PanicIsExplained, File, DiskSteps, rsdp, find, config_table
<1> QED
  BY <1>1, <1>2, <1>3, <1>4, <1>5, <1>6 DEF IInv

\* The protocol opened is open, the one before it closed; if it cannot be
\* opened the firmware has refused it, for this code holds it nowhere.
LEMMA OpenLoadedImageStep == ASSUME IInv, OpenLoadedImage PROVE IInv'
<1> USE DEF OpenLoadedImage, At
<1>1. opened = {} /\ pc \in DiskSteps /\ file \in Files
  BY DEF IInv, Types, ProtocolsInv, DiskSteps
<1>2. CASE can_open("LoadedImage")
  <2>1. Goto("device_path") /\ opened' = OpenAt("device_path")
    BY <1>1, <1>2 DEF OpenAt
  <2>2. FileInv'
    BY <1>2, <2>1 DEF IInv, FileInv, can_open, Goto, flowVars, File, GraphicsSteps, LastSteps
  <2> QED
    BY <2>1, <2>2, <1>1, DiskStep DEF DiskSteps
<1>3. CASE ~can_open("LoadedImage")
  <2>1. "LoadedImage" \in firmware.refused[file]
    BY <1>1, <1>3 DEF can_open
  <2> QED
    BY <2>1, <1>1, <1>3, ReturnNoneStep DEF Available, Protocols
<1> QED
  BY <1>2, <1>3

LEMMA OpenDevicePathStep == ASSUME IInv, OpenDevicePath PROVE IInv'
<1> USE DEF OpenDevicePath, At
<1>1. opened = {"LoadedImage"} /\ pc \in DiskSteps /\ file \in Files
  BY DEF IInv, Types, ProtocolsInv, OpenAt, DiskSteps
<1>2. CASE can_open("DevicePath")
  <2>1. Goto("file_system") /\ opened' = OpenAt("file_system")
    BY <1>1, <1>2 DEF OpenAt
  <2>2. FileInv'
    BY <1>2, <2>1 DEF IInv, FileInv, can_open, Goto, flowVars, File, GraphicsSteps, LastSteps
  <2> QED
    BY <2>1, <2>2, <1>1, DiskStep DEF DiskSteps
<1>3. CASE ~can_open("DevicePath")
  <2>1. "DevicePath" \in firmware.refused[file]
    BY <1>1, <1>3 DEF can_open
  <2>2. opened' = {}
    BY <1>1, <1>3
  <2> QED
    BY <2>1, <2>2, <1>1, <1>3, ReturnNoneStep DEF Available, Protocols
<1> QED
  BY <1>2, <1>3

LEMMA OpenFileSystemStep == ASSUME IInv, OpenFileSystem PROVE IInv'
<1> USE DEF OpenFileSystem, At
<1>1. opened = {"DevicePath"} /\ pc \in DiskSteps /\ file \in Files
  BY DEF IInv, Types, ProtocolsInv, OpenAt, DiskSteps
<1>2. CASE can_open("SimpleFileSystem")
  <2>1. Goto("file") /\ opened' = OpenAt("file")
    BY <1>1, <1>2 DEF OpenAt
  <2>2. FileInv'
    BY <1>2, <2>1 DEF IInv, FileInv, can_open, Goto, flowVars, File, GraphicsSteps, LastSteps
  <2> QED
    BY <2>1, <2>2, <1>1, DiskStep DEF DiskSteps
<1>3. CASE ~can_open("SimpleFileSystem")
  <2>1. "SimpleFileSystem" \in firmware.refused[file]
    BY <1>1, <1>3 DEF can_open
  <2>2. opened' = {}
    BY <1>1, <1>3
  <2> QED
    BY <2>1, <2>2, <1>1, <1>3, ReturnNoneStep DEF Available, Protocols
<1> QED
  BY <1>2, <1>3

(***************************************************************************)
(* A step that panics changes nothing the invariant speaks of but the      *)
(* panic itself, which it explains.                                        *)
(***************************************************************************)
LEMMA PanicStep ==
  ASSUME IInv, NEW why \in Panics, Panic(why), PanicIsExplained',
         UNCHANGED <<firmware, file, opened, owner, loaded, last, mode, framebuffer, system_table, system_info>>
  PROVE  IInv'
<1> USE DEF Panic
<1>0. why # None
  BY NoneAssumption
<1>1. Types'
  BY DEF IInv, Types
<1>2. ProtocolsInv' /\ FileInv'
  BY <1>0 DEF IInv, ProtocolsInv, FileInv, File
<1>3. LoadedInv'
  BY <1>0 DEF IInv, LoadedInv, KernelThere, BeforeGraphics, Available
<1>4. MemoryInv'
  BY <1>0 DEF IInv, MemoryInv, file_pages
<1>5. DisplayInv'
  BY DEF IInv, DisplayInv, LoopInv, FittingUpTo, Fitting, Requested, Resembles, fits, ModeGood, BeforeGraphics
<1>6. InfoInv' /\ PanicInv'
  BY DEF IInv, InfoInv, PanicInv, rsdp, find, config_table
<1> QED
  BY <1>1, <1>2, <1>3, <1>4, <1>5, <1>6 DEF IInv

(***************************************************************************)
(* A call on the file system or on the file that the firmware refuses ends *)
(* the boot: the protocols it needs were all opened.                       *)
(***************************************************************************)
LEMMA FileCallFails ==
  ASSUME IInv, NEW call \in FileCalls, pc \in {"file", "read"}, refuses(call), Panic(call), UNCHANGED flowVars
  PROVE  PanicIsExplained'
<1>1. firmware.refused[file] \cap Protocols = {}
  BY DEF IInv, FileInv, Protocols
<1>2. panicked' = call /\ firmware' = firmware /\ file' = file
  BY DEF Panic, flowVars
<1>3. call \notin {"no_kernel", "directory", "out_of_pages", "not_elf", "set_mode", "pixel_format"}
  BY DEF FileCalls
<1> QED
  BY <1>1, <1>2, <1>3 DEF PanicIsExplained, refuses

LEMMA OpenFileStep == ASSUME IInv, OpenFile PROVE IInv'
<1> USE DEF OpenFile, At
<1>1. /\ opened = {"SimpleFileSystem"} /\ pc \in DiskSteps /\ file \in Files /\ pc = "file" /\ panicked = None
      /\ File.kind \in {"absent", "directory", "regular"}
      /\ UNCHANGED <<owner, loaded>> /\ UNCHANGED flowVars
  BY FilesTyped DEF IInv, Types, ProtocolsInv, OpenAt, DiskSteps, File
<1>2. CASE ~refuses("open_volume") /\ File.kind = "absent"
  <2>1. opened' = {} /\ ReturnNone
    BY <1>1, <1>2
  <2>2. ~Available(file)
    BY <1>2 DEF Available, File
  <2> QED
    BY <2>1, <2>2, <1>1, <1>2, ReturnNoneStep
<1>3. ASSUME NEW call \in FileCalls, refuses(call), Panic(call), UNCHANGED opened
      PROVE  IInv'
  BY <1>1, <1>3, FileCallFails, PanicStep DEF Panics, flowVars
<1>4. CASE refuses("open_volume")
  BY <1>3, <1>4 DEF FileCalls
<1>5. CASE ~refuses("open_volume") /\ File.kind # "absent" /\ refuses("into_type")
  BY <1>3, <1>5 DEF FileCalls
<1>6. CASE ~refuses("open_volume") /\ ~refuses("into_type") /\ File.kind = "directory"
  <2>1. Panic("directory") /\ UNCHANGED opened
    BY <1>6
  <2>2. PanicIsExplained'
    BY <1>6, <2>1 DEF PanicIsExplained, Panic, File, flowVars, FileCalls
  <2> QED
    BY <2>1, <2>2, <1>1, PanicStep DEF Panics, flowVars
<1>7. CASE ~refuses("open_volume") /\ ~refuses("into_type") /\ File.kind = "regular"
  <2>1. Goto("read") /\ opened' = OpenAt("read")
    BY <1>1, <1>7 DEF OpenAt
  <2>2. FileInv'
    BY <1>1, <1>7, <2>1 DEF IInv, FileInv, Goto, flowVars, File, refuses, GraphicsSteps, LastSteps
  <2> QED
    BY <2>1, <2>2, <1>1, DiskStep DEF DiskSteps
<1> QED
  BY <1>1, <1>2, <1>4, <1>5, <1>6, <1>7

LEMMA GetInfoFailsStep == ASSUME IInv, GetInfoFails PROVE IInv'
<1>1. /\ pc = "read" /\ refuses("get_info") /\ Panic("get_info")
      /\ UNCHANGED <<opened, owner, loaded>> /\ UNCHANGED flowVars
  BY DEF GetInfoFails, At
<1>2. PanicIsExplained'
  BY <1>1, FileCallFails DEF FileCalls
<1> QED
  BY <1>1, <1>2, PanicStep DEF Panics, FileCalls, flowVars

LEMMA OutOfPagesStep == ASSUME IInv, OutOfPages PROVE IInv'
<1>1. file \in Files /\ File.size \in 0 .. UsizeRange - 1 /\ UsizeRange \in Nat
  BY FilesTyped, FlowAssumption DEF IInv, Types, File
<1>2. File.size # 0 => ~HasRoomFor(File.size)
  BY <1>1, NoRunNoRoom DEF OutOfPages
<1>3. Panic("out_of_pages") /\ UNCHANGED <<opened, owner, loaded>> /\ UNCHANGED flowVars
  BY DEF OutOfPages
<1>4. PanicIsExplained'
  BY <1>2, <1>3 DEF PanicIsExplained, Panic, File, HasRoomFor, flowVars, FileCalls
<1> QED
  BY <1>3, <1>4, PanicStep DEF Panics, flowVars

(***************************************************************************)
(* The file is read into free pages: they become the file's, and no other  *)
(* page changes hands.                                                     *)
(***************************************************************************)
LEMMA ReadMemory ==
  ASSUME IInv, ReadFile, ~refuses("read")
  PROVE  /\ MemoryInv'
         /\ owner' \in [Pages -> {None, "firmware"} \cup Files]
         /\ loaded' \in [Files -> Slice \cup {None}]
         /\ loaded'[file] # None
         /\ \A n \in Files : n # file => loaded'[n] = loaded[n]
<1> DEFINE size == File.size
           n == page_count(size)
<1>1. /\ file \in Files /\ WellFormed(firmware) /\ panicked = None /\ pc = "read"
      /\ owner \in [Pages -> {None, "firmware"} \cup Files]
      /\ loaded \in [Files -> Slice \cup {None}]
      /\ firmware' = firmware /\ file' = file
  BY DEF IInv, Types, ReadFile, At, flowVars
<1>2. loaded[file] = None
  BY <1>1 DEF IInv, LoadedInv, BeforeGraphics, Files, DiskSteps, LastSteps
<1>3. PICK p \in free_runs(n) :
        /\ owner' = [q \in Pages |-> IF q \in p .. p + n - 1 THEN file ELSE owner[q]]
        /\ loaded' = [loaded EXCEPT ![file] = [addr |-> p * PAGE_SIZE, len |-> size]]
  BY DEF ReadFile
<1>4. size \in 1 .. UsizeRange - 1 /\ size = firmware.files[file].size
  <2>1. size \in 0 .. UsizeRange - 1
    BY <1>1, FilesTyped DEF File
  <2>2. size # 0
    BY <1>3, EmptyFileNeverFits
  <2> QED
    BY <2>1, <2>2, FlowAssumption DEF File
<1>5. p \in Nat /\ p .. p + n - 1 \subseteq Pages /\ \A q \in p .. p + n - 1 : owner[q] = None
  BY <1>3, FlowAssumption DEF free_runs
<1>6. n \in Nat \ {0}
  BY <1>4, PageCountOfSome
<1>7. /\ p * PAGE_SIZE \in Nat
      /\ (p * PAGE_SIZE) \div PAGE_SIZE = p
      /\ (p * PAGE_SIZE + size - 1) \div PAGE_SIZE = p + n - 1
  BY <1>4, <1>5, PagesOfSlice
<1> HIDE DEF n, size
<1> DEFINE slice == [addr |-> p * PAGE_SIZE, len |-> size]
<1>8. slice \in Slice /\ slice # None
  BY <1>4, <1>7, NoneAssumption, FlowAssumption DEF Slice
<1>9. loaded'[file] = slice /\ \A o \in Files : o # file => loaded'[o] = loaded[o]
  BY <1>1, <1>3
<1>10. loaded' \in [Files -> Slice \cup {None}]
  BY <1>1, <1>3, <1>8
<1>11. owner' \in [Pages -> {None, "firmware"} \cup Files]
  BY <1>1, <1>3
<1>12. \A q \in Pages : owner'[q] = IF q \in p .. p + n - 1 THEN file ELSE owner[q]
  BY <1>3
<1>13. \A q \in Pages : owner'[q] = "firmware" <=> q \in firmware.used
  BY <1>1, <1>5, <1>12, NoneAssumption DEF IInv, MemoryInv, Files
<1>14. {q \in Pages : owner'[q] = file} = p .. p + n - 1
  BY <1>1, <1>2, <1>5, <1>12 DEF IInv, MemoryInv
<1>15. file_pages(file)' = p .. p + n - 1
  BY <1>1, <1>7, <1>9 DEF file_pages
<1>16. \A o \in Files : o # file => {q \in Pages : owner'[q] = o} = {q \in Pages : owner[q] = o}
  BY <1>5, <1>12, NoneAssumption
<1>17. ASSUME NEW o \in Files, loaded'[o] = None
       PROVE  \A q \in Pages : owner'[q] # o
  BY <1>1, <1>8, <1>9, <1>16, <1>17 DEF IInv, MemoryInv
<1>18. ASSUME NEW o \in Files, loaded'[o] # None
       PROVE  /\ loaded'[o].len = firmware.files[o].size
              /\ loaded'[o].len >= 1
              /\ {q \in Pages : owner'[q] = o} = file_pages(o)'
  <2>1. CASE o = file
    <3>1. loaded'[o].len = size /\ size >= 1
      BY <2>1, <1>4, <1>9, FlowAssumption
    <3>2. file_pages(o)' = p .. p + n - 1
      BY <2>1, <1>1, <1>15 DEF file_pages
    <3> QED
      BY <3>1, <3>2, <2>1, <1>4, <1>14
  <2>2. CASE o # file
    BY <2>2, <1>9, <1>16, <1>18 DEF IInv, MemoryInv, file_pages
  <2> QED
    BY <2>1, <2>2
<1>19. MemoryInv'
  BY <1>1, <1>13, <1>17, <1>18 DEF MemoryInv
<1> QED
  BY <1>8, <1>9, <1>10, <1>11, <1>19

LEMMA ReadSucceedsStep == ASSUME IInv, ReadFile, ~refuses("read") PROVE IInv'
<1> USE DEF At, Goto, Panic, flowVars
<1>0. /\ file \in Files /\ firmware' = firmware /\ pc = "read" /\ panicked = None
      /\ firmware.refused[file] = {} /\ File.kind = "regular"
      /\ opened = {"SimpleFileSystem"} /\ opened' = {}
      /\ UNCHANGED flowVars
  <2>1. file \in Files /\ pc = "read" /\ panicked = None /\ WellFormed(firmware) /\ UNCHANGED flowVars
    BY DEF IInv, Types, ReadFile
  <2>2. firmware.refused[file] \subseteq Protocols \cup FileCalls /\ ~refuses("get_info")
    BY <2>1, FilesTyped DEF ReadFile
  <2>3. firmware.refused[file] = {} /\ File.kind = "regular"
    BY <2>1, <2>2 DEF IInv, FileInv, Protocols, FileCalls, refuses
  <2>4. opened = {"SimpleFileSystem"} /\ opened' = opened \ {"SimpleFileSystem"}
    BY <2>1 DEF IInv, ProtocolsInv, OpenAt, ReadFile
  <2> QED
    BY <2>1, <2>3, <2>4
<1>1. \/ file = "ramdisk" /\ Goto("exit_boot_services")
      \/ file = "kernel-x86_64" /\ File.elf /\ Goto("graphics_output")
      \/ file = "kernel-x86_64" /\ ~File.elf /\ Panic("not_elf")
  BY <1>0 DEF ReadFile, Files
<1>2. Types'
  BY <1>0, <1>1, ReadMemory DEF IInv, Types, Panics, GraphicsSteps, LastSteps
<1>3. ProtocolsInv' /\ FileInv'
  BY <1>0, <1>1, NoneAssumption DEF IInv, ProtocolsInv, OpenAt, FileInv, File, Panics, GraphicsSteps, LastSteps
<1>4. LoadedInv'
  BY <1>0, <1>1, ReadMemory, NoneAssumption DEF IInv, LoadedInv, KernelThere, BeforeGraphics, Available, File,
    Files, Panics, DiskSteps, GraphicsSteps, LastSteps
<1>5. MemoryInv'
  BY ReadMemory
<1>6. DisplayInv'
  BY <1>0, <1>1 DEF IInv, DisplayInv, LoopInv, FittingUpTo, Fitting, Requested, Resembles, fits, ModeGood,
    BeforeGraphics, Files, DiskSteps
<1>7. InfoInv' /\ PanicInv'
  BY <1>0, <1>1 DEF IInv, InfoInv, PanicInv, PanicIsExplained, File, FileCalls
<1> QED
  BY <1>2, <1>3, <1>4, <1>5, <1>6, <1>7 DEF IInv

(***************************************************************************)
(* A read that fails: the pages are taken, but nothing refers to them.     *)
(***************************************************************************)
LEMMA ReadFailsStep == ASSUME IInv, ReadFile, refuses("read") PROVE IInv'
<1>1. /\ file \in Files /\ pc = "read" /\ panicked = None /\ panicked' = "read" /\ pc' = pc
      /\ owner \in [Pages -> {None, "firmware"} \cup Files]
      /\ Panic("read") /\ UNCHANGED flowVars
  BY DEF IInv, Types, ReadFile, At, Panic
<1>2. "read" \in Panics /\ "read" # None
  BY NoneAssumption DEF Panics, FileCalls
<1>3. PICK p \in free_runs(page_count(File.size)) :
        /\ owner' = [q \in Pages |-> IF q \in p .. p + page_count(File.size) - 1 THEN file ELSE owner[q]]
        /\ loaded' = loaded
  BY DEF ReadFile
<1>4. opened' = opened
  BY DEF ReadFile
<1>5. \A q \in p .. p + page_count(File.size) - 1 : owner[q] = None
  BY <1>3 DEF free_runs
<1>6. PanicIsExplained'
  BY <1>1, FileCallFails DEF FileCalls
<1>7. Types'
  BY <1>1, <1>2, <1>3, <1>4 DEF IInv, Types, flowVars
<1>8. ProtocolsInv' /\ FileInv'
  BY <1>1, <1>2, <1>4 DEF IInv, ProtocolsInv, FileInv, File, flowVars
<1>9. LoadedInv'
  BY <1>1, <1>2, <1>3 DEF IInv, LoadedInv, KernelThere, BeforeGraphics, Available, flowVars
<1>10. MemoryInv'
  <2>1. loaded[file] = None
    BY <1>1 DEF IInv, LoadedInv, BeforeGraphics, Files, DiskSteps, LastSteps
  <2>2. \A q \in Pages : owner'[q] = "firmware" <=> q \in firmware.used
    BY <1>1, <1>3, <1>5, NoneAssumption DEF IInv, MemoryInv, Files
  <2>3. \A n \in Files : n # file => {q \in Pages : owner'[q] = n} = {q \in Pages : owner[q] = n}
    BY <1>1, <1>3, <1>5, NoneAssumption
  <2>4. ASSUME NEW n \in Files, loaded[n] # None
        PROVE  /\ loaded[n].len = firmware.files[n].size
               /\ loaded[n].len >= 1
               /\ {q \in Pages : owner'[q] = n} = file_pages(n)
    BY <2>1, <2>3, <2>4 DEF IInv, MemoryInv
  <2>5. firmware' = firmware /\ \A n \in Files : file_pages(n)' = file_pages(n)
    BY <1>3, <1>1 DEF file_pages, flowVars
  <2> QED
    BY <2>2, <2>4, <2>5, <1>1, <1>2, <1>3 DEF MemoryInv
<1>11. DisplayInv'
  BY <1>1 DEF IInv, DisplayInv, LoopInv, FittingUpTo, Fitting, Requested, Resembles, fits, ModeGood,
    BeforeGraphics, flowVars
<1>12. InfoInv' /\ PanicInv'
  BY <1>1, <1>3, <1>6 DEF IInv, InfoInv, PanicInv, flowVars
<1> QED
  BY <1>7, <1>8, <1>9, <1>10, <1>11, <1>12 DEF IInv

LEMMA ReadFileStep == ASSUME IInv, ReadFile PROVE IInv'
BY ReadSucceedsStep, ReadFailsStep

-----------------------------------------------------------------------------
(***************************************************************************)
(* load_framebuffer.                                                       *)
(***************************************************************************)
LEMMA OpenGraphicsOutputStep == ASSUME IInv, OpenGraphicsOutput PROVE IInv'
<1> USE DEF OpenGraphicsOutput, At, Goto, diskVars
<1>0. firmware' = firmware /\ file = "kernel-x86_64" /\ pc = "graphics_output" /\ opened = {} /\ panicked = None
      /\ firmware.graphics \in BOOLEAN
  BY DEF IInv, Types, WellFormed, ProtocolsInv, FileInv, GraphicsSteps
<1>1. \/ firmware.graphics /\ opened' = {"GraphicsOutput"} /\ pc' = "modes"
      \/ ~firmware.graphics /\ opened' = {} /\ pc' = "forget_table"
  BY <1>0
<1>2. Types'
  BY <1>0, <1>1 DEF IInv, Types, GraphicsSteps
<1>3. ProtocolsInv' /\ FileInv'
  BY <1>0, <1>1 DEF IInv, ProtocolsInv, OpenAt, FileInv, GraphicsSteps, LastSteps
<1>4. LoadedInv'
  BY <1>0, <1>1 DEF IInv, LoadedInv, KernelThere, BeforeGraphics, Available, DiskSteps, GraphicsSteps, LastSteps
<1>5. MemoryInv'
  BY MemoryFrame DEF IInv
<1>6. DisplayInv'
  <2>1. last = [mode |-> 0, width |-> 0, height |-> 0] /\ mode = firmware.mode /\ framebuffer = None
    BY <1>0 DEF IInv, DisplayInv
  <2>2. FittingUpTo(0) = {} /\ Requested \cap 1 .. 0 = {}
    BY DEF FittingUpTo
  <2>3. LoopInv(last.mode)
    BY <2>1, <2>2 DEF LoopInv
  <2>4. LoopInv(last.mode)'
    BY <2>3, <1>0 DEF LoopInv, FittingUpTo, Fitting, Requested, Resembles, fits
  <2> QED
    BY <2>1, <2>4, <1>0, <1>1 DEF DisplayInv, BeforeGraphics, DiskSteps
<1>7. InfoInv' /\ PanicInv'
  BY <1>0, <1>1 DEF IInv, InfoInv, PanicInv
<1> QED
  BY <1>2, <1>3, <1>4, <1>5, <1>6, <1>7 DEF IInv

LEMMA ConsiderModeStep == ASSUME IInv, ConsiderMode PROVE IInv'
<1>0. firmware' = firmware /\ pc = "modes" /\ pc' = "modes" /\ panicked = None /\ UNCHANGED panicked
      /\ UNCHANGED <<opened, mode, framebuffer, file, owner, loaded, system_table, system_info>>
      /\ last.mode < Len(firmware.modes)
  BY DEF ConsiderMode, At, diskVars
<1>1. Types'
  <2>1. last' \in [mode : 0 .. Len(firmware.modes), width : Nat, height : Nat]
    <3>1. /\ last.mode \in 0 .. Len(firmware.modes) /\ last.width \in Nat /\ last.height \in Nat
          /\ Len(firmware.modes) \in Nat
      BY ModesTyped DEF IInv, Types
    <3>2. last.mode + 1 \in 1 .. Len(firmware.modes)
      BY <3>1, <1>0
    <3>3. firmware.modes[last.mode + 1].width \in Nat /\ firmware.modes[last.mode + 1].height \in Nat
      BY <3>2, ModesTyped DEF IInv, Types
    <3> QED
      BY <3>1, <3>2, <3>3 DEF ConsiderMode
  <2> QED
    BY <2>1, <1>0 DEF IInv, Types
<1>2. ProtocolsInv' /\ FileInv'
  BY <1>0 DEF IInv, ProtocolsInv, OpenAt, FileInv, File
<1>3. LoadedInv'
  BY <1>0 DEF IInv, LoadedInv, KernelThere, BeforeGraphics, Available
<1>4. MemoryInv'
  BY <1>0, MemoryFrame DEF IInv
<1>5. DisplayInv'
  <2>1. /\ LoopInv(last.mode) /\ mode = firmware.mode /\ framebuffer = None /\ firmware.graphics
        /\ file = "kernel-x86_64"
    BY <1>0 DEF IInv, FileInv, DisplayInv, GraphicsSteps
  <2>2. LoopInv(last.mode)'
    BY <2>1, LoopStep DEF IInv
  <2> QED
    BY <2>1, <2>2, <1>0 DEF DisplayInv, BeforeGraphics, DiskSteps
<1>6. InfoInv' /\ PanicInv'
  BY <1>0 DEF IInv, InfoInv, PanicInv
<1> QED
  BY <1>1, <1>2, <1>3, <1>4, <1>5, <1>6 DEF IInv

LEMMA SetModeStep == ASSUME IInv, SetMode PROVE IInv'
<1>0. /\ firmware' = firmware /\ pc = "modes" /\ panicked = None
      /\ UNCHANGED <<opened, last, framebuffer, file, owner, loaded, system_table, system_info>>
      /\ LoopInv(last.mode) /\ mode = firmware.mode /\ framebuffer = None /\ firmware.graphics
      /\ file = "kernel-x86_64"
  BY DEF SetMode, At, diskVars, IInv, FileInv, DisplayInv, GraphicsSteps
<1>1. \/ Goto("describe")
      \/ ~firmware.sets_mode /\ Panic("set_mode") /\ UNCHANGED mode
  BY DEF SetMode
<1>2. CASE ~firmware.sets_mode /\ Panic("set_mode") /\ UNCHANGED mode
  <2>1. PanicIsExplained'
    BY <1>0, <1>2 DEF PanicIsExplained, Panic
  <2> QED
    BY <2>1, <1>0, <1>2, PanicStep DEF Panics
<1>3. CASE Goto("describe")
  <2>1. pc' = "describe" /\ panicked' = None
    BY <1>0, <1>3 DEF Goto
  <2>2. ModeGood' /\ mode' \in 1 .. Len(firmware.modes)
    BY <1>0, <2>1, SetModeGood DEF IInv
  <2>3. Types'
    BY <1>0, <2>1, <2>2 DEF IInv, Types, GraphicsSteps
  <2>4. ProtocolsInv' /\ FileInv'
    BY <1>0, <2>1 DEF IInv, ProtocolsInv, OpenAt, FileInv, GraphicsSteps, LastSteps
  <2>5. LoadedInv'
    BY <1>0, <2>1 DEF IInv, LoadedInv, KernelThere, BeforeGraphics, Available, DiskSteps, GraphicsSteps, LastSteps
  <2>6. MemoryInv'
    BY <1>0, MemoryFrame DEF IInv
  <2>7. DisplayInv'
    BY <1>0, <2>1, <2>2 DEF DisplayInv, BeforeGraphics, DiskSteps
  <2>8. InfoInv' /\ PanicInv'
    BY <1>0, <2>1 DEF IInv, InfoInv, PanicInv
  <2> QED
    BY <2>3, <2>4, <2>5, <2>6, <2>7, <2>8 DEF IInv
<1> QED
  BY <1>1, <1>2, <1>3

LEMMA DescribeFramebufferStep == ASSUME IInv, DescribeFramebuffer PROVE IInv'
<1> DEFINE m == firmware.modes[mode]
<1>0. /\ firmware' = firmware /\ pc = "describe" /\ panicked = None /\ opened = {"GraphicsOutput"}
      /\ UNCHANGED <<last, mode, file, owner, loaded, system_table, system_info>>
      /\ ModeGood /\ framebuffer = None /\ firmware.graphics /\ file = "kernel-x86_64"
  BY DEF DescribeFramebuffer, At, diskVars, IInv, ProtocolsInv, OpenAt, FileInv, DisplayInv, GraphicsSteps
<1>1. CASE m.pixel_format \notin {"Rgb", "Bgr"}
  <2>1. Panic("pixel_format") /\ UNCHANGED <<framebuffer, opened>>
    BY <1>1 DEF DescribeFramebuffer
  <2>2. PanicIsExplained'
    BY <1>0, <1>1, <2>1 DEF PanicIsExplained, Panic
  <2> QED
    BY <2>1, <2>2, <1>0, PanicStep DEF Panics
<1>2. CASE m.pixel_format \in {"Rgb", "Bgr"}
  <2>1. /\ pc' = "forget_table" /\ panicked' = None /\ opened' = {}
        /\ framebuffer' = [addr |-> m.addr, width |-> m.width, height |-> m.height,
                           pixel_format |-> m.pixel_format]
    BY <1>0, <1>2 DEF DescribeFramebuffer, Goto
  <2>2. m.addr \in Nat /\ m.width \in Nat /\ m.height \in Nat /\ m.pixel_format \in PixelFormats
    BY ModesTyped DEF IInv, Types
  <2>3. framebuffer' \in FramebufferInfo /\ framebuffer' # None
    BY <2>1, <2>2, NoneAssumption DEF FramebufferInfo
  <2>4. Types'
    BY <1>0, <2>1, <2>3 DEF IInv, Types, GraphicsSteps
  <2>5. ProtocolsInv' /\ FileInv'
    BY <1>0, <2>1 DEF IInv, ProtocolsInv, OpenAt, FileInv, GraphicsSteps, LastSteps
  <2>6. LoadedInv'
    BY <1>0, <2>1 DEF IInv, LoadedInv, KernelThere, BeforeGraphics, Available, DiskSteps, GraphicsSteps, LastSteps
  <2>7. MemoryInv'
    BY <1>0, MemoryFrame DEF IInv
  <2>8. DisplayInv'
    <3>1. ModeGood'
      BY <1>0 DEF ModeGood, Fitting, Requested, fits
    <3> QED
      BY <1>0, <1>2, <2>1, <2>3, <3>1 DEF DisplayInv, BeforeGraphics, DiskSteps
  <2>9. InfoInv' /\ PanicInv'
    BY <1>0, <2>1 DEF IInv, InfoInv, PanicInv
  <2> QED
    BY <2>4, <2>5, <2>6, <2>7, <2>8, <2>9 DEF IInv
<1> QED
  BY <1>1, <1>2

-----------------------------------------------------------------------------
(***************************************************************************)
(* The end of main_inner.                                                  *)
(***************************************************************************)
LEMMA ForgetSystemTableStep == ASSUME IInv, ForgetSystemTable PROVE IInv'
<1>0. /\ firmware' = firmware /\ pc = "forget_table" /\ pc' = "loaded_image" /\ panicked = None
      /\ UNCHANGED <<panicked, opened, last, mode, framebuffer, owner, loaded, system_info>>
      /\ file = "kernel-x86_64" /\ file' = "ramdisk" /\ ~system_table' /\ system_table' \in BOOLEAN
      /\ opened = {}
  BY DEF ForgetSystemTable, At, Goto, IInv, ProtocolsInv, OpenAt, FileInv, GraphicsSteps
<1>1. Types'
  BY <1>0 DEF IInv, Types, Files, DiskSteps
<1>2. ProtocolsInv' /\ FileInv'
  BY <1>0 DEF ProtocolsInv, OpenAt, FileInv, GraphicsSteps, LastSteps
<1>3. LoadedInv'
  BY <1>0 DEF IInv, LoadedInv, KernelThere, BeforeGraphics, Available, DiskSteps, GraphicsSteps, LastSteps
<1>4. MemoryInv'
  BY <1>0, MemoryFrame DEF IInv
<1>5. DisplayInv'
  BY <1>0 DEF IInv, DisplayInv, BeforeGraphics, ModeGood, Fitting, Requested, fits
<1>6. InfoInv' /\ PanicInv'
  BY <1>0 DEF IInv, InfoInv, PanicInv
<1> QED
  BY <1>1, <1>2, <1>3, <1>4, <1>5, <1>6 DEF IInv

LEMMA ExitBootServicesStep == ASSUME IInv, ExitBootServices PROVE IInv'
<1>0. /\ firmware' = firmware /\ pc = "exit_boot_services" /\ pc' = "system_info" /\ panicked = None
      /\ UNCHANGED <<panicked, opened, file, last, mode, framebuffer, owner, loaded, system_table, system_info>>
      /\ file = "ramdisk"
  BY DEF ExitBootServices, At, Goto, flowVars, IInv, FileInv, LastSteps
<1>1. Types'
  BY <1>0 DEF IInv, Types, LastSteps
<1>2. ProtocolsInv' /\ FileInv'
  BY <1>0 DEF IInv, ProtocolsInv, OpenAt, FileInv, GraphicsSteps, LastSteps
<1>3. LoadedInv'
  BY <1>0 DEF IInv, LoadedInv, KernelThere, BeforeGraphics, Available, DiskSteps, GraphicsSteps, LastSteps
<1>4. MemoryInv'
  BY <1>0, MemoryFrame DEF IInv
<1>5. DisplayInv'
  BY <1>0 DEF IInv, DisplayInv, BeforeGraphics, ModeGood, Fitting, Requested, fits
<1>6. InfoInv' /\ PanicInv'
  BY <1>0 DEF IInv, InfoInv, PanicInv
<1> QED
  BY <1>1, <1>2, <1>3, <1>4, <1>5, <1>6 DEF IInv

LEMMA BuildSystemInfoStep == ASSUME IInv, BuildSystemInfo PROVE IInv'
<1>0. /\ firmware' = firmware /\ pc = "system_info" /\ pc' = "load_and_switch_to_kernel" /\ panicked = None
      /\ UNCHANGED <<panicked, opened, file, last, mode, framebuffer, owner, loaded, system_table>>
      /\ file = "ramdisk"
  BY DEF BuildSystemInfo, At, Goto, IInv, FileInv, LastSteps
<1> DEFINE slice == loaded["ramdisk"]
<1>1. /\ framebuffer \in FramebufferInfo \cup {None} /\ rsdp \in Nat \cup {None}
      /\ slice # None => slice.addr \in Nat /\ slice.len \in Nat
  BY RsdpIsAcpi2 DEF IInv, Types, Slice, Files
<1>2. /\ system_info'.framebuffer = framebuffer
      /\ system_info'.rsdp_addr = rsdp
      /\ system_info'.ramdisk_addr = IF slice = None THEN None ELSE slice.addr
      /\ system_info'.ramdisk_len = IF slice = None THEN 0 ELSE slice.len
  BY DEF BuildSystemInfo
<1>3. system_info' \in SystemInfo
  <2> DEFINE addr == IF slice = None THEN None ELSE slice.addr
             length == IF slice = None THEN 0 ELSE slice.len
  <2>1. addr \in Nat \cup {None} /\ length \in Nat
    BY <1>1
  <2>2. system_info' = [framebuffer |-> framebuffer, rsdp_addr |-> rsdp, ramdisk_addr |-> addr,
                        ramdisk_len |-> length]
    BY DEF BuildSystemInfo
  <2> HIDE DEF addr, length
  <2> QED
    BY <2>1, <2>2, <1>1 DEF SystemInfo
<1>4. Types'
  BY <1>0, <1>3 DEF IInv, Types, LastSteps
<1>5. ProtocolsInv' /\ FileInv'
  BY <1>0 DEF IInv, ProtocolsInv, OpenAt, FileInv, GraphicsSteps, LastSteps
<1>6. LoadedInv'
  BY <1>0 DEF IInv, LoadedInv, KernelThere, BeforeGraphics, Available, DiskSteps, GraphicsSteps, LastSteps
<1>7. MemoryInv'
  BY <1>0, MemoryFrame DEF IInv
<1>8. DisplayInv'
  BY <1>0 DEF IInv, DisplayInv, BeforeGraphics, ModeGood, Fitting, Requested, fits
<1>9. rsdp' = rsdp
  BY <1>0 DEF rsdp, find, config_table
<1>10. InfoInv' /\ PanicInv'
  BY <1>0, <1>2, <1>9 DEF InfoInv, PanicInv
<1> QED
  BY <1>4, <1>5, <1>6, <1>7, <1>8, <1>10 DEF IInv

LEMMA StutterStep == ASSUME IInv, UNCHANGED vars PROVE IInv'
<1> USE DEF vars
<1>1. Types' /\ ProtocolsInv' /\ FileInv'
  BY DEF IInv, Types, ProtocolsInv, FileInv, File
<1>2. LoadedInv'
  BY DEF IInv, LoadedInv, KernelThere, BeforeGraphics, Available
<1>3. MemoryInv'
  BY DEF IInv, MemoryInv, file_pages
<1>4. DisplayInv'
  BY DEF IInv, DisplayInv, LoopInv, FittingUpTo, Fitting, Requested, Resembles, fits, ModeGood, BeforeGraphics
<1>5. rsdp' = rsdp
  BY DEF rsdp, find, config_table
<1>6. InfoInv' /\ PanicInv'
  BY <1>5 DEF IInv, InfoInv, PanicInv, PanicIsExplained, File, HasRoomFor
<1> QED
  BY <1>1, <1>2, <1>3, <1>4, <1>6 DEF IInv

LEMMA NextIInv == IInv /\ [Next]_vars => IInv'
BY StartStep, OpenLoadedImageStep, OpenDevicePathStep, OpenFileSystemStep, OpenFileStep, GetInfoFailsStep, ReadFileStep,
   OutOfPagesStep, OpenGraphicsOutputStep, ConsiderModeStep, SetModeStep, DescribeFramebufferStep,
   ForgetSystemTableStep, ExitBootServicesStep, BuildSystemInfoStep, StutterStep
   DEF Next

-----------------------------------------------------------------------------
(***************************************************************************)
(* Type correctness.  The lower bound on the length of a loaded file is    *)
(* what the underflow of an empty file's size amounts to: there are never  *)
(* that many pages.                                                        *)
(***************************************************************************)
THEOREM TypeCorrect == Spec => []TypeOK
<1>1. IInv => TypeOK
  <2> SUFFICES ASSUME IInv PROVE TypeOK
    OBVIOUS
  <2>1. ASSUME NEW n \in Files, loaded[n] # None
        PROVE  loaded[n].addr \in Nat /\ loaded[n].len \in 1 .. UsizeRange
    <3>1. loaded[n] \in Slice /\ firmware.files[n].size \in 0 .. UsizeRange - 1
      BY <2>1, FilesTyped DEF IInv, Types
    <3>2. loaded[n].len = firmware.files[n].size /\ loaded[n].len >= 1
      BY <2>1 DEF IInv, MemoryInv
    <3> QED
      BY <3>1, <3>2, FlowAssumption DEF Slice
  <2> QED
    BY <2>1 DEF IInv, Types, TypeOK
<1> QED
  BY <1>1, InitIInv, NextIInv, PTL DEF Spec

(***************************************************************************)
(* When boot services are left, no protocol is open, SYSTEM_TABLE is       *)
(* empty, and the files lie whole in pages of their own, whatever the      *)
(* firmware refuses and wherever it places the pages.                      *)
(***************************************************************************)
THEOREM HandOverCorrect == Spec => []HandedOverIntact
<1>1. IInv => HandedOverIntact
  <2> SUFFICES ASSUME IInv PROVE HandedOverIntact
    OBVIOUS
  <2>1. pc \in {"loaded_image", "graphics_output"} => opened = {}
    BY DEF IInv, ProtocolsInv
  <2>2. ASSUME BootServicesLeft
        PROVE  opened = {} /\ ~system_table /\ loaded["kernel-x86_64"] # None
    <3>1. pc \in LastSteps /\ file = "ramdisk"
      BY <2>2 DEF BootServicesLeft, IInv, FileInv, LastSteps
    <3> QED
      BY <3>1 DEF IInv, ProtocolsInv, FileInv, LoadedInv, KernelThere
  <2>3. ASSUME NEW n \in Files, loaded[n] # None
        PROVE  /\ loaded[n].len = firmware.files[n].size
               /\ {p \in Pages : owner[p] = n} = file_pages(n)
               /\ file_pages(n) \cap firmware.used = {}
    <3>1. /\ loaded[n].len = firmware.files[n].size
          /\ {p \in Pages : owner[p] = n} = file_pages(n)
      BY <2>3 DEF IInv, MemoryInv
    <3>2. \A p \in Pages : owner[p] = n => p \notin firmware.used
      BY DEF IInv, MemoryInv, Files
    <3> QED
      BY <3>1, <3>2
  <2> QED
    BY <2>1, <2>2, <2>3 DEF HandedOverIntact
<1> QED
  BY <1>1, InitIInv, NextIInv, PTL DEF Spec

(***************************************************************************)
(* The boot panics only for the reasons listed, and SystemInfo tells the   *)
(* truth about ramdisk, framebuffer and ACPI 2 table, for every firmware.  *)
(***************************************************************************)
THEOREM SystemInfoCorrect == Spec => []SystemInfoTrue
<1>1. IInv => SystemInfoTrue
  <2> SUFFICES ASSUME IInv PROVE SystemInfoTrue
    OBVIOUS
  <2>1. panicked # None => PanicIsExplained
    BY DEF IInv, PanicInv
  <2>2. ASSUME system_info # None
        PROVE  /\ Available("kernel-x86_64") /\ firmware.files["kernel-x86_64"].elf
               /\ Available("ramdisk") <=> system_info.ramdisk_addr # None
               /\ system_info.ramdisk_addr # None =>
                    /\ system_info.ramdisk_len = firmware.files["ramdisk"].size
                    /\ owner[system_info.ramdisk_addr \div PAGE_SIZE] = "ramdisk"
               /\ system_info.framebuffer = None <=> ~firmware.graphics
               /\ system_info.framebuffer # None =>
                    /\ system_info.framebuffer.addr = firmware.modes[mode].addr
                    /\ system_info.framebuffer.pixel_format \in {"Rgb", "Bgr"}
               /\ system_info.rsdp_addr # None <=> Acpi2Tables # {}
               /\ \A i \in Acpi2Tables : (\A j \in Acpi2Tables : i <= j) =>
                    system_info.rsdp_addr = config_table[i].address
    <3> DEFINE slice == loaded["ramdisk"]
    <3>1. pc = "load_and_switch_to_kernel" /\ file = "ramdisk" /\ WellFormed(firmware)
      BY <2>2 DEF IInv, Types, InfoInv, FileInv, LastSteps
    <3>2. Available("kernel-x86_64") /\ firmware.files["kernel-x86_64"].elf
      BY <3>1 DEF IInv, LoadedInv, KernelThere
    <3>3. /\ slice = None => system_info.ramdisk_addr = None
          /\ slice # None => /\ system_info.ramdisk_addr = slice.addr /\ system_info.ramdisk_len = slice.len
      BY <2>2 DEF IInv, InfoInv
    <3>4. slice # None => slice.addr \in Nat /\ slice.len \in Nat
      BY DEF IInv, Types, Slice, Files
    <3>5. slice # None <=> system_info.ramdisk_addr # None
      BY <3>3, <3>4, NoneAssumption
    <3>6. Available("ramdisk") <=> slice # None
      BY <3>1 DEF IInv, LoadedInv, LastSteps
    <3>7. ASSUME slice # None
          PROVE  slice.len = firmware.files["ramdisk"].size /\ owner[slice.addr \div PAGE_SIZE] = "ramdisk"
      <4>1. /\ slice.len = firmware.files["ramdisk"].size /\ slice.len >= 1
            /\ {p \in Pages : owner[p] = "ramdisk"} = file_pages("ramdisk")
        BY <3>7 DEF IInv, MemoryInv, Files
      <4> DEFINE a == slice.addr
                 b == slice.addr + slice.len - 1
      <4>2. a \in Nat /\ b \in Nat /\ a <= b
        BY <4>1, <3>4, <3>7
      <4>3. a \div PAGE_SIZE <= b \div PAGE_SIZE /\ a \div PAGE_SIZE \in Nat /\ b \div PAGE_SIZE \in Nat
        <5>1. PAGE_SIZE \in Nat \ {0}
          BY FlowAssumption
        <5>2. /\ a \div PAGE_SIZE \in Nat /\ PAGE_SIZE * (a \div PAGE_SIZE) <= a
              /\ b \div PAGE_SIZE \in Nat /\ b < PAGE_SIZE * (b \div PAGE_SIZE) + PAGE_SIZE
          BY <4>2, <5>1, DivBounds
        <5> DEFINE qa == a \div PAGE_SIZE
                   qb == b \div PAGE_SIZE
        <5> HIDE DEF a, b, qa, qb
        <5>3. qa \in Nat /\ qb \in Nat /\ PAGE_SIZE * qa <= a /\ b < PAGE_SIZE * qb + PAGE_SIZE
          BY <5>2 DEF qa, qb
        <5>4. PAGE_SIZE * qa \in Nat /\ PAGE_SIZE * qb \in Nat
          BY <5>1, <5>3
        <5>5. ~(qa > qb)
          BY <4>2, <5>1, <5>3, <5>4, TimesOrdered
        <5> QED
          BY <5>3, <5>5 DEF qa, qb
      <4>4. a \div PAGE_SIZE \in file_pages("ramdisk")
        BY <4>3 DEF file_pages
      <4> QED
        BY <4>1, <4>4
    <3>8. /\ system_info.framebuffer = framebuffer /\ system_info.rsdp_addr = rsdp
      BY <2>2 DEF IInv, InfoInv
    <3>9. /\ framebuffer = None <=> ~firmware.graphics
          /\ framebuffer # None => /\ framebuffer.addr = firmware.modes[mode].addr
                                   /\ framebuffer.pixel_format \in {"Rgb", "Bgr"}
      BY <3>1 DEF IInv, DisplayInv
    <3>10. /\ rsdp # None <=> Acpi2Tables # {}
           /\ \A i \in Acpi2Tables : (\A j \in Acpi2Tables : i <= j) => rsdp = config_table[i].address
      BY <3>1, RsdpIsAcpi2
    <3> QED
      BY <3>2, <3>3, <3>5, <3>6, <3>7, <3>8, <3>9, <3>10
  <2> QED
    BY <2>1, <2>2 DEF SystemInfoTrue
<1> QED
  BY <1>1, InitIInv, NextIInv, PTL DEF Spec

(***************************************************************************)
(* Which display mode is set, for every list of modes.                     *)
(***************************************************************************)
THEOREM ModeCorrect == Spec => []ModeChosen
<1>1. IInv => ModeChosen
  BY DEF IInv, DisplayInv, ModeGood, Smaller, ModeChosen
<1> QED
  BY <1>1, InitIInv, NextIInv, PTL DEF Spec
=============================================================================
