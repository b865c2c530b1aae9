------------------------------ MODULE BootFlow ------------------------------
(***************************************************************************)
(* initium under the firmware (initium/src/main.rs): the kernel file, the  *)
(* display mode and the ramdisk are fetched with boot services, then boot  *)
(* services are left and what was found becomes SystemInfo.                *)
(*                                                                         *)
(* Protocols are opened exclusively: one that is open cannot be opened     *)
(* again until the ScopedProtocol that holds it is dropped.  The firmware  *)
(* places the pages it allocates where it likes.                           *)
(***************************************************************************)
EXTENDS Integers, Sequences, FiniteSets

CONSTANTS
  PAGE_SIZE,      \* 4096 in the code
  UsizeRange,     \* number of values of a usize; 2^64 in the code
  Pages,          \* physical pages, 0 .. n
  config,         \* BootConfig: [framebuffer_width, framebuffer_height]
  None,           \* no value
  Firmwares       \* what the firmware may offer: see WellFormed

ASSUME FlowAssumption ==
  /\ PAGE_SIZE \in Nat \ {0} /\ UsizeRange \in Nat
  /\ Pages \subseteq Nat /\ IsFiniteSet(Pages) /\ UsizeRange > PAGE_SIZE * (Cardinality(Pages) + 1)
  /\ config.framebuffer_width \in Nat \ {0} /\ config.framebuffer_height \in Nat \ {0}

Files == {"kernel-x86_64", "ramdisk"}
Protocols == {"LoadedImage", "DevicePath", "SimpleFileSystem"}
FileCalls == {"open_volume", "into_type", "get_info", "read"}
Panics == FileCalls \cup {"no_kernel", "directory", "out_of_pages", "not_elf", "set_mode", "pixel_format"}

\* What load_file_from_disk and load_framebuffer return if there is a result.
Slice == [addr : Nat, len : Nat]
PixelFormats == {"Rgb", "Bgr", "Bitmask", "BltOnly"}
FramebufferInfo == [addr : Nat, width : Nat, height : Nat, pixel_format : PixelFormats]
DisplayMode == FramebufferInfo
ConfigEntry == [guid : {"ACPI", "ACPI2", "SMBIOS"}, address : Nat]

SystemInfo ==
  [framebuffer : FramebufferInfo \cup {None}, rsdp_addr : Nat \cup {None},
   ramdisk_addr : Nat \cup {None}, ramdisk_len : Nat]

ASSUME NoneAssumption ==
  /\ None \notin Nat
  /\ None \notin {"firmware"} \cup Files \cup Panics
  /\ None \notin Slice /\ None \notin FramebufferInfo /\ None \notin SystemInfo

(***************************************************************************)
(* A firmware has the files of its boot volume ([kind, size, elf]: elf     *)
(* says whether the bytes are an ELF file), the protocols and the calls on *)
(* a file that it refuses when each of them is loaded, whether it has      *)
(* graphics output, its display modes and the one it is in, whether it can *)
(* set a mode, the pages it uses itself and its configuration table.       *)
(***************************************************************************)
WellFormed(f) ==
  /\ \A n \in Files : /\ f.files[n].kind \in {"absent", "directory", "regular"}
                      /\ f.files[n].size \in 0 .. UsizeRange - 1
                      /\ f.files[n].elf \in BOOLEAN
  /\ f.refused \in [Files -> SUBSET (Protocols \cup FileCalls)]
  /\ f.graphics \in BOOLEAN
  /\ f.used \subseteq Pages
  /\ f.modes \in Seq(DisplayMode) /\ f.mode \in 1 .. Len(f.modes)
  /\ \A i \in 1 .. Len(f.modes) : f.modes[i].width > 0 /\ f.modes[i].height > 0
  /\ f.sets_mode \in BOOLEAN
  /\ f.config_table \in Seq(ConfigEntry)

ASSUME FirmwaresAssumption == \A f \in Firmwares : WellFormed(f)

VARIABLES
  firmware,      \* the firmware booted by
  pc,            \* the next step of the code
  file,          \* the file load_file_from_disk was called for
  opened,        \* the protocols that are open
  owner,         \* who each page belongs to: None, "firmware" or a file
  loaded,        \* the slice of each file that was loaded: [addr, len]
  last,          \* load_framebuffer's loop: [mode, width, height]
  mode,          \* the display mode that is set
  framebuffer,   \* RawFramebufferInfo
  system_table,  \* SYSTEM_TABLE holds a table of boot services
  system_info,   \* SystemInfo
  panicked       \* None, or why

vars == <<firmware, pc, file, opened, owner, loaded, last, mode, framebuffer, system_table,
          system_info, panicked>>

Init ==
  /\ firmware \in Firmwares
  /\ pc = "start" /\ file = "kernel-x86_64"
  /\ opened = {}
  /\ owner = [p \in Pages |-> IF p \in firmware.used THEN "firmware" ELSE None]
  /\ loaded = [n \in Files |-> None]
  /\ last = [mode |-> 0, width |-> 0, height |-> 0]
  /\ mode = firmware.mode
  /\ framebuffer = None
  /\ system_table = FALSE
  /\ system_info = None
  /\ panicked = None

At(step) == pc = step /\ panicked = None

Panic(why) == panicked' = why /\ UNCHANGED pc

Goto(step) == pc' = step /\ UNCHANGED panicked

File == firmware.files[file]

\* main_inner, up to the call of load_kernel.
Start ==
  /\ At("start")
  /\ system_table' = TRUE
  /\ Goto("loaded_image")
  /\ UNCHANGED <<firmware, file, opened, owner, loaded, last, mode, framebuffer, system_info>>

-----------------------------------------------------------------------------
(***************************************************************************)
(* load_file_from_disk.  What it returns None for is an error for the      *)
(* kernel and "no ramdisk" for the ramdisk.                                *)
(***************************************************************************)
can_open(protocol) == protocol \notin firmware.refused[file] \cup opened

ReturnNone ==
  IF file = "kernel-x86_64" THEN Panic("no_kernel") ELSE Goto("exit_boot_services")

flowVars == <<firmware, file, last, mode, framebuffer, system_table, system_info>>

\* open_device_path_protocol: the loaded image is closed on return.
OpenLoadedImage ==
  /\ At("loaded_image")
  /\ IF can_open("LoadedImage")
       THEN opened' = opened \cup {"LoadedImage"} /\ Goto("device_path")
       ELSE ReturnNone /\ UNCHANGED opened
  /\ UNCHANGED <<owner, loaded>> /\ UNCHANGED flowVars

OpenDevicePath_LeaksImage ==
  /\ At("device_path")
  /\ IF can_open("DevicePath")
       THEN opened' = opened \cup {"DevicePath"} /\ Goto("file_system")
       ELSE opened' = opened /\ ReturnNone
  /\ UNCHANGED <<owner, loaded>> /\ UNCHANGED flowVars

OpenDevicePath ==
  /\ At("device_path")
  /\ IF can_open("DevicePath")
       THEN opened' = (opened \ {"LoadedImage"}) \cup {"DevicePath"} /\ Goto("file_system")
       ELSE opened' = opened \ {"LoadedImage"} /\ ReturnNone
  /\ UNCHANGED <<owner, loaded>> /\ UNCHANGED flowVars

\* locate_and_open_protocol: the device path is closed on return.
OpenFileSystem ==
  /\ At("file_system")
  /\ IF can_open("SimpleFileSystem")
       THEN opened' = (opened \ {"DevicePath"}) \cup {"SimpleFileSystem"} /\ Goto("file")
       ELSE opened' = opened \ {"DevicePath"} /\ ReturnNone
  /\ UNCHANGED <<owner, loaded>> /\ UNCHANGED flowVars

\* The calls on the file system and on the file are unwrapped.
refuses(call) == call \in firmware.refused[file]

OpenFile ==
  /\ At("file")
  /\ IF ~refuses("open_volume") /\ File.kind = "absent"
       THEN opened' = opened \ {"SimpleFileSystem"} /\ ReturnNone
       ELSE /\ IF refuses("open_volume") THEN Panic("open_volume")
               ELSE IF refuses("into_type") THEN Panic("into_type")
               ELSE IF File.kind = "directory" THEN Panic("directory")
               ELSE Goto("read")
            /\ UNCHANGED opened
  /\ UNCHANGED <<owner, loaded>> /\ UNCHANGED flowVars

(***************************************************************************)
(* get_info tells the size; pages of LOADER_DATA are allocated, cleared    *)
(* and read into; the file system is closed on return.  The size of an     *)
(* empty file underflows: no memory has that many pages (and a build that  *)
(* checks overflow panics).  Kernel::parse wants an ELF file.              *)
(***************************************************************************)
page_count_AtLeastOne(size) == IF size = 0 THEN 1 ELSE (size - 1) \div PAGE_SIZE + 1

page_count(size) == ((size - 1) % UsizeRange) \div PAGE_SIZE + 1

free_runs(n) ==
  {p \in Pages : \A q \in p .. p + n - 1 : q \in Pages /\ owner[q] = None}

GetInfoFails ==
  /\ At("read")
  /\ refuses("get_info")
  /\ Panic("get_info")
  /\ UNCHANGED <<opened, owner, loaded>> /\ UNCHANGED flowVars

ReadFile ==
  /\ At("read")
  /\ ~refuses("get_info")
  /\ \E p \in free_runs(page_count(File.size)) :
       /\ owner' = [q \in Pages |-> IF q \in p .. p + page_count(File.size) - 1 THEN file ELSE owner[q]]
       /\ loaded' = IF refuses("read") THEN loaded
                    ELSE [loaded EXCEPT ![file] = [addr |-> p * PAGE_SIZE, len |-> File.size]]
  /\ opened' = IF refuses("read") THEN opened ELSE opened \ {"SimpleFileSystem"}
  /\ IF refuses("read") THEN Panic("read")
     ELSE IF file = "ramdisk" THEN Goto("exit_boot_services")
     ELSE IF File.elf THEN Goto("graphics_output")
     ELSE Panic("not_elf")
  /\ UNCHANGED flowVars

OutOfPages ==
  /\ At("read")
  /\ ~refuses("get_info")
  /\ free_runs(page_count(File.size)) = {}
  /\ Panic("out_of_pages")
  /\ UNCHANGED <<opened, owner, loaded>> /\ UNCHANGED flowVars

-----------------------------------------------------------------------------
(***************************************************************************)
(* load_framebuffer.                                                       *)
(***************************************************************************)
diskVars == <<firmware, file, owner, loaded, system_table, system_info>>

OpenGraphicsOutput ==
  /\ At("graphics_output")
  /\ IF firmware.graphics /\ "GraphicsOutput" \notin opened
       THEN opened' = opened \cup {"GraphicsOutput"} /\ Goto("modes")
       ELSE UNCHANGED opened /\ Goto("forget_table")
  /\ UNCHANGED <<last, mode, framebuffer>> /\ UNCHANGED diskVars

fits(m) == m.width <= config.framebuffer_width /\ m.height <= config.framebuffer_height

accepts_Area(m) == fits(m) /\ m.width * m.height >= last.width * last.height

accepts(m) == fits(m) /\ (m.width >= last.width \/ m.height >= last.height)

ConsiderMode ==
  /\ At("modes")
  /\ last.mode < Len(firmware.modes)
  /\ LET m == firmware.modes[last.mode + 1]
     IN  last' = [mode   |-> last.mode + 1,
                  width  |-> IF accepts(m) THEN m.width ELSE last.width,
                  height |-> IF accepts(m) THEN m.height ELSE last.height]
  /\ UNCHANGED <<pc, opened, mode, framebuffer, panicked>> /\ UNCHANGED diskVars

\* The modes with the resolution the loop ended with; the last of them is set.
candidates ==
  {i \in 1 .. Len(firmware.modes) : /\ firmware.modes[i].width = last.width
                                    /\ firmware.modes[i].height = last.height}

SetMode ==
  /\ At("modes")
  /\ last.mode = Len(firmware.modes)
  /\ IF candidates = {} THEN UNCHANGED mode /\ Goto("describe")
     ELSE IF ~firmware.sets_mode THEN UNCHANGED mode /\ Panic("set_mode")
     ELSE mode' = (CHOOSE i \in candidates : \A j \in candidates : j <= i) /\ Goto("describe")
  /\ UNCHANGED <<opened, last, framebuffer>> /\ UNCHANGED diskVars

\* The graphics output is closed on return.
DescribeFramebuffer ==
  /\ At("describe")
  /\ LET m == firmware.modes[mode]
     IN  IF m.pixel_format \in {"Rgb", "Bgr"}
           THEN /\ framebuffer' = [addr |-> m.addr, width |-> m.width, height |-> m.height,
                                   pixel_format |-> m.pixel_format]
                /\ opened' = opened \ {"GraphicsOutput"}
                /\ Goto("forget_table")
           ELSE Panic("pixel_format") /\ UNCHANGED <<framebuffer, opened>>
  /\ UNCHANGED <<last, mode>> /\ UNCHANGED diskVars

-----------------------------------------------------------------------------
\* main_inner: SYSTEM_TABLE is cleared, then the ramdisk is loaded.
ForgetSystemTable ==
  /\ At("forget_table")
  /\ system_table' = FALSE
  /\ file' = "ramdisk"
  /\ Goto("loaded_image")
  /\ UNCHANGED <<firmware, opened, owner, loaded, last, mode, framebuffer, system_info>>

ExitBootServices ==
  /\ At("exit_boot_services")
  /\ Goto("system_info")
  /\ UNCHANGED <<opened, owner, loaded>> /\ UNCHANGED flowVars

(***************************************************************************)
(* The configuration table is searched with one iterator: the search for   *)
(* an ACPI 1 table starts where the search for ACPI 2 stopped.  find gives *)
(* the first entry with the guid from a position on, or the end.           *)
(***************************************************************************)
config_table == firmware.config_table

find(guid, from) ==
  CHOOSE i \in from .. Len(config_table) + 1 :
    /\ i <= Len(config_table) => config_table[i].guid = guid
    /\ \A j \in from .. i - 1 : config_table[j].guid # guid

rsdp_ReversedPriority ==
  LET acpi  == find("ACPI", 1)
      acpi2 == find("ACPI2", IF acpi <= Len(config_table) THEN acpi + 1 ELSE acpi)
      entry == IF acpi <= Len(config_table) THEN acpi ELSE acpi2
  IN  IF entry <= Len(config_table) THEN config_table[entry].address ELSE None

rsdp ==
  LET acpi2 == find("ACPI2", 1)
      entry == IF acpi2 <= Len(config_table) THEN acpi2 ELSE find("ACPI", acpi2)
  IN  IF entry <= Len(config_table) THEN config_table[entry].address ELSE None

BuildSystemInfo ==
  /\ At("system_info")
  /\ system_info' =
       [framebuffer  |-> framebuffer,
        rsdp_addr    |-> rsdp,
        ramdisk_addr |-> IF loaded["ramdisk"] = None THEN None ELSE loaded["ramdisk"].addr,
        ramdisk_len  |-> IF loaded["ramdisk"] = None THEN 0 ELSE loaded["ramdisk"].len]
  /\ Goto("load_and_switch_to_kernel")
  /\ UNCHANGED <<firmware, file, opened, owner, loaded, last, mode, framebuffer, system_table>>

Next ==
  \/ Start \/ OpenLoadedImage \/ OpenDevicePath \/ OpenFileSystem \/ OpenFile
  \/ GetInfoFails \/ ReadFile \/ OutOfPages
  \/ OpenGraphicsOutput \/ ConsiderMode \/ SetMode \/ DescribeFramebuffer
  \/ ForgetSystemTable \/ ExitBootServices \/ BuildSystemInfo

Spec == Init /\ [][Next]_vars

-----------------------------------------------------------------------------

TypeOK ==
  /\ WellFormed(firmware)
  /\ file \in Files
  /\ opened \subseteq Protocols \cup {"GraphicsOutput"}
  /\ owner \in [Pages -> {None, "firmware"} \cup Files]
  /\ \A n \in Files : loaded[n] # None => loaded[n].addr \in Nat /\ loaded[n].len \in 1 .. UsizeRange
  /\ last.mode \in 0 .. Len(firmware.modes)
  /\ mode \in 1 .. Len(firmware.modes)
  /\ system_table \in BOOLEAN

(***************************************************************************)
(* What is still there when boot services are left: no protocol is open    *)
(* and SYSTEM_TABLE is empty; the kernel file, and the ramdisk if there is *)
(* one, lie whole in pages of their own, which the firmware does not use.  *)
(***************************************************************************)
BootServicesLeft == pc \in {"system_info", "load_and_switch_to_kernel"}

file_pages(n) ==
  loaded[n].addr \div PAGE_SIZE .. (loaded[n].addr + loaded[n].len - 1) \div PAGE_SIZE

HandedOverIntact ==
  /\ pc \in {"loaded_image", "graphics_output"} => opened = {}
  /\ BootServicesLeft =>
       /\ opened = {} /\ ~system_table
       /\ loaded["kernel-x86_64"] # None
       /\ \A n \in Files : loaded[n] # None =>
            /\ loaded[n].len = firmware.files[n].size
            /\ {p \in Pages : owner[p] = n} = file_pages(n)
            /\ file_pages(n) \cap firmware.used = {}

(***************************************************************************)
(* The boot goes on exactly as far as the firmware allows: it panics only  *)
(* for the reasons listed, which never hold when it does not; a ramdisk    *)
(* that is there is found (the exclusive protocols used for the kernel can *)
(* be opened again) and SystemInfo tells the truth about it, about the     *)
(* framebuffer that is set and about the first ACPI 2 table.  A firmware   *)
(* with an ACPI 1 table alone is reported as having none.                  *)
(***************************************************************************)
Available(n) == firmware.refused[n] = {} /\ firmware.files[n].kind = "regular"

HasRoomFor(size) ==
  \E p, q \in Pages : (q - p + 1) * PAGE_SIZE >= size /\ \A r \in p .. q : r \in Pages /\ owner[r] = None

PanicIsExplained ==
  CASE panicked = "no_kernel"    -> /\ file = "kernel-x86_64"
                                    /\ File.kind = "absent" \/ firmware.refused[file] \cap Protocols # {}
    [] panicked \in FileCalls     -> panicked \in firmware.refused[file] /\ firmware.refused[file] \cap Protocols = {}
    [] panicked = "directory"    -> File.kind = "directory"
    [] panicked = "out_of_pages" -> File.size = 0 \/ ~HasRoomFor(File.size)
    [] panicked = "not_elf"      -> ~File.elf /\ file = "kernel-x86_64"
    [] panicked = "set_mode"     -> ~firmware.sets_mode /\ mode = firmware.mode
    [] panicked = "pixel_format" -> firmware.modes[mode].pixel_format \notin {"Rgb", "Bgr"}

Acpi2Tables == {i \in 1 .. Len(config_table) : config_table[i].guid = "ACPI2"}

SystemInfoTrue ==
  /\ panicked # None => PanicIsExplained
  /\ system_info # None =>
       /\ Available("kernel-x86_64") /\ firmware.files["kernel-x86_64"].elf
       /\ Available("ramdisk") <=> system_info.ramdisk_addr # None
       /\ system_info.ramdisk_addr # None =>
            /\ system_info.ramdisk_len = firmware.files["ramdisk"].size
            /\ owner[system_info.ramdisk_addr \div PAGE_SIZE] = "ramdisk"
       /\ system_info.framebuffer = None <=> ~firmware.graphics
       /\ system_info.framebuffer # None =>
            /\ system_info.framebuffer.addr = firmware.modes[mode].addr
            /\ system_info.framebuffer.pixel_format \in {"Rgb", "Bgr"}
       /\ system_info.rsdp_addr # None <=> Acpi2Tables # {}
       /\ \A i \in Acpi2Tables : (\A j \in Acpi2Tables : i <= j) =>
            system_info.rsdp_addr = config_table[i].address

(***************************************************************************)
(* The display mode.  If no mode fits the configuration the firmware's     *)
(* mode is kept.  Otherwise the mode set fits, every later mode that fits  *)
(* is smaller in both dimensions, and the requested resolution is set if   *)
(* it is offered and no later mode that fits shares its width or height.   *)
(* (An earlier mode may be larger: the result depends on the order.)       *)
(***************************************************************************)
Fitting == {i \in 1 .. Len(firmware.modes) : fits(firmware.modes[i])}

Requested == {i \in Fitting : /\ firmware.modes[i].width = config.framebuffer_width
                              /\ firmware.modes[i].height = config.framebuffer_height}

ModeChosen ==
  framebuffer # None =>
    LET set == firmware.modes[mode]
    IN  /\ Fitting = {} => mode = firmware.mode
        /\ Fitting # {} =>
             /\ mode \in Fitting
             /\ \A j \in Fitting : j > mode =>
                  firmware.modes[j].width < set.width /\ firmware.modes[j].height < set.height
        /\ \A i \in Requested :
             (\A j \in Fitting : j > i => /\ firmware.modes[j].width < config.framebuffer_width
                                          /\ firmware.modes[j].height < config.framebuffer_height)
               => mode = i
=============================================================================
