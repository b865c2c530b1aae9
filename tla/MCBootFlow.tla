----------------------------- MODULE MCBootFlow -----------------------------
(***************************************************************************)
(* Firmwares that differ from an ordinary one in what they offer: every    *)
(* list of up to three display modes, with the files and tables that       *)
(* matter, every combination of files with few display modes, every set of *)
(* protocols and every set of file operations that is refused.             *)
(***************************************************************************)
EXTENDS BootFlow

CONSTANTS Widths, Heights, FileSizes, MaxModes

Resolution == [framebuffer_width |-> 2, framebuffer_height |-> 2]

Mode(w, h, format, addr) == [width |-> w, height |-> h, pixel_format |-> format, addr |-> addr]

ModeLists ==
  UNION {{[i \in 1 .. n |-> Mode(r[i][1], r[i][2], IF i = 1 THEN "Bgr" ELSE "Rgb", 100 * i)] :
            r \in [1 .. n -> Widths \X Heights]} : n \in 1 .. MaxModes}

FewModes ==
  {<<Mode(2, 2, f, 100), Mode(9, 9, "Rgb", 200)>> : f \in {"Rgb", "Bitmask", "BltOnly"}}

Regular(size, elf) == [kind |-> "regular", size |-> size, elf |-> elf]

Other(kind) == [kind |-> kind, size |-> 1, elf |-> FALSE]

SomeFiles ==
  {Other("absent"), Other("directory")} \cup {Regular(n, e) : n \in FileSizes, e \in BOOLEAN}

Table(guids) == [i \in 1 .. Len(guids) |-> [guid |-> guids[i], address |-> 1000 + i]]

Tables == {Table(g) : g \in UNION {[1 .. n -> {"ACPI2", "ACPI", "SMBIOS"}] : n \in 0 .. 2}}

Firmware(kernel, ramdisk, refused, graphics, used, modes, current, sets, table) ==
  [files |-> [n \in Files |-> IF n = "ramdisk" THEN ramdisk ELSE kernel],
   refused |-> refused, graphics |-> graphics, used |-> used, modes |-> modes, mode |-> current, sets_mode |-> sets,
   config_table |-> table]

AllOffered == [n \in Files |-> {}]

SomeFirmwares ==
  {Firmware(Regular(1, TRUE), Other("absent"), AllOffered, TRUE, {}, m, 1, TRUE, <<>>) : m \in ModeLists}
    \cup {Firmware(k, r, AllOffered, TRUE, u, m, 2, s, <<>>) :
            k \in SomeFiles, r \in SomeFiles, u \in {{}, {1}, {0, 3}}, m \in FewModes, s \in BOOLEAN}
    \cup {Firmware(Regular(3, TRUE), Regular(2, FALSE), p, g, {}, m, 1, TRUE, t) :
            p \in [Files -> SUBSET Protocols], g \in BOOLEAN, m \in FewModes, t \in Tables}
    \cup {Firmware(k, r, p, TRUE, u, <<Mode(2, 2, "Rgb", 100)>>, 1, TRUE, <<>>) :
            k \in {Regular(1, TRUE), Regular(1, FALSE)}, r \in {Other("absent"), Other("directory"), Regular(3, FALSE)},
            p \in [Files -> SUBSET FileCalls \cup {{"DevicePath", "read"}}], u \in {{}, {0, 1, 2}}}
=============================================================================
