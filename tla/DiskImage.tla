----------------------------- MODULE DiskImage -----------------------------
(***************************************************************************)
(* The host tool (src/disk_image.rs, fat_fs.rs, gpt_part.rs, file_data.rs, *)
(* uefi.rs, main.rs): it copies kernel, loader and other files into a FAT  *)
(* file system in a temporary file, that file into a GPT disk image, and   *)
(* starts the emulator on the image.  Every operation of the host may      *)
(* fail, the tool may be killed at any step and started again, and a       *)
(* build may replace a source file while the tool runs.  Sizes are bytes.  *)
(***************************************************************************)
EXTENDS Integers, Sequences, FiniteSets, Functions

CONSTANTS
  None,            \* no value
  Destinations,    \* [path, spelling], in the order of a BTreeMap's keys
  KERNEL_FILE_NAME, BOOTLOADER_FILE_NAME, RAMDISK_FILE_NAME,
  nukleus, initium, OtherFiles,    \* files of the host
  Lengths,         \* of the host's files
  Contents,        \* lengths of contents given as bytes
  Overheads,       \* bytes a FAT volume needs for itself
  CLUSTER,         \* bytes in a cluster of the volume
  MaxFiles, MaxRuns, MaxRebuilds   \* bounds

KB == 1024
MB == 1024 * KB
BLOCK == 512

\* What a disk keeps at its two ends: the protective MBR, a header and 32
\* blocks of entries, and the backup of header and entries.
GPT_FRONT == 34 * BLOCK
GPT_BACK == 33 * BLOCK

HostFiles == {nukleus, initium} \cup OtherFiles

ASSUME SizesAssumption ==
  /\ Lengths \subseteq Nat /\ None \notin Lengths
  /\ Contents \subseteq Nat /\ Overheads \subseteq Nat
  /\ CLUSTER \in Nat \ {0} /\ MaxRuns \in Nat \ {0}

\* The keys of a BTreeMap are distinct and visited in their order.
index(d) == CHOOSE i \in DOMAIN Destinations : Destinations[i] = d

first(S) == CHOOSE d \in S : \A e \in S : index(d) <= index(e)

\* BOOTLOADER_FILE_NAME is in lower case, whose letters come last: no other
\* spelling of the same path follows it.
ASSUME DestinationsAssumption ==
  /\ Destinations \in Seq(Range(Destinations))
  /\ \A i, j \in 1 .. Len(Destinations) : Destinations[i] = Destinations[j] => i = j
  /\ {KERNEL_FILE_NAME, BOOTLOADER_FILE_NAME, RAMDISK_FILE_NAME} \subseteq Range(Destinations)
  /\ \A d \in Range(Destinations) :
       /\ d.path \in Seq(Range(d.path))
       /\ d.path = BOOTLOADER_FILE_NAME.path => index(d) <= index(BOOTLOADER_FILE_NAME)

VARIABLES
  host,         \* length of each file of the host, None if there is none
  files,        \* DiskImageBuilder: destination -> FileDataSource
  pc,           \* the step the tool is about to take
  needed_size,
  todo,         \* the destinations add_files_to_image has not come to
  temp,         \* the temporary file: [exists, len, overhead, fs]
  image,        \* uefi.img: None or [len, mbr, partition, fs, fs_at]
  result,       \* of create_disk_image: None or [status, cause, overhead]
  runs,         \* how often the tool was started
  rebuilt,      \* history: host files replaced in this run
  leaked        \* history: this run left its temporary file behind

vars == <<host, files, pc, needed_size, todo, temp, image, result, runs, rebuilt, leaked>>

outputs == <<needed_size, todo, temp, image>>
histories == <<runs, rebuilt, leaked>>

(***************************************************************************)
(* FileDataSource.                                                         *)
(***************************************************************************)
File(p) == [kind |-> "file", path |-> p, len |-> 0]
Data(n) == [kind |-> "data", path |-> None, len |-> n]

is_missing(source) == source.kind = "file" /\ host[source.path] = None

len(source) == IF source.kind = "file" THEN host[source.path] ELSE source.len

(***************************************************************************)
(* The builder.                                                            *)
(***************************************************************************)
set_file_source(destination, source) ==
  files' = [d \in DOMAIN files \cup {destination} |-> IF d = destination THEN source ELSE files[d]]

set_kernel(p) == set_file_source(KERNEL_FILE_NAME, File(p))
set_ramdisk(p) == set_file_source(RAMDISK_FILE_NAME, File(p))
set_file(d, p) == set_file_source(d, File(p))
set_file_contents(d, n) == set_file_source(d, Data(n))

new == [d \in {KERNEL_FILE_NAME} |-> File(nukleus)]

NoTemp == [exists |-> FALSE, len |-> 0, overhead |-> 0, fs |-> <<>>]

Init ==
  /\ host \in [HostFiles -> Lengths \cup {None}]
  /\ files = new
  /\ pc = "configure" /\ needed_size = 0 /\ todo = {}
  /\ temp = NoTemp /\ image = None /\ result = None
  /\ runs = 1 /\ rebuilt = {} /\ leaked = FALSE

Configure ==
  /\ pc = "configure"
  /\ \/ \E p \in OtherFiles : set_kernel(p) \/ set_ramdisk(p)
     \/ \E d \in Range(Destinations) : \E p \in OtherFiles : set_file(d, p)
     \/ \E d \in Range(Destinations) : \E n \in Contents : set_file_contents(d, n)
  /\ Cardinality(DOMAIN files') <= MaxFiles
  /\ UNCHANGED <<host, pc, result>> /\ UNCHANGED outputs /\ UNCHANGED histories

-----------------------------------------------------------------------------
(***************************************************************************)
(* create_disk_image returns, or panics: the temporary file is deleted, a  *)
(* failure to do so being ignored.                                         *)
(***************************************************************************)
Leave(status, cause) ==
  /\ result' = [status |-> status, cause |-> cause,
                overhead |-> IF cause = "no_space" THEN temp.overhead ELSE 0]
  /\ pc' = "returned"
  /\ temp' = NoTemp
  /\ leaked' \in {FALSE, temp.exists}

\* Where the code says unwrap instead of returning the error.
unwraps == {"open_fat"}

HostSteps ==
  {"create_temp", "measure", "open_fat", "format", "add_files", "open_image", "set_len", "mbr",
   "partition", "write_gpt", "copy"}

HostFails ==
  /\ pc \in HostSteps
  /\ \/ pc \notin unwraps /\ Leave("err", "host")
     \/ pc \in unwraps \cup {"add_files"} /\ Leave("panic", "host")
  /\ UNCHANGED <<host, files, needed_size, todo, image, runs, rebuilt>>

\* The step at pc succeeds.
Goes(from, to) ==
  /\ pc = from /\ pc' = to
  /\ UNCHANGED <<host, files, result>> /\ UNCHANGED histories

(***************************************************************************)
(* create_uefi_image, create_fat_filesystem_image.                         *)
(***************************************************************************)
internal_files == [d \in {BOOTLOADER_FILE_NAME} |-> File(initium)]

local_map ==
  [d \in DOMAIN internal_files \cup DOMAIN files |->
     IF d \in DOMAIN internal_files THEN internal_files[d] ELSE files[d]]

create_uefi_image_TruncatesFirst ==
  /\ pc = "create"
  /\ image' = [len |-> 0, mbr |-> FALSE, partition |-> None, fs |-> None, fs_at |-> None]
  /\ IF DOMAIN files \cap DOMAIN internal_files # {}
       THEN Leave("err", "overwrites_internal")
       ELSE pc' = "create_temp" /\ UNCHANGED <<temp, leaked, result>>
  /\ UNCHANGED <<host, files, needed_size, todo, runs, rebuilt>>

create_uefi_image ==
  /\ pc = "create"
  /\ IF DOMAIN files \cap DOMAIN internal_files # {}
       THEN Leave("err", "overwrites_internal")
       ELSE pc' = "create_temp" /\ UNCHANGED <<temp, leaked, result>>
  /\ UNCHANGED <<host, files, needed_size, todo, image, runs, rebuilt>>

CallCreate ==
  /\ Goes("configure", "create")
  /\ UNCHANGED outputs

CreateTemp ==
  /\ Goes("create_temp", "measure")
  /\ temp' = [NoTemp EXCEPT !.exists = TRUE]
  /\ UNCHANGED <<needed_size, todo, image>>

(***************************************************************************)
(* create_fat_filesystem: all sources are measured first.                  *)
(***************************************************************************)
Measure ==
  LET missing == \E d \in DOMAIN local_map : is_missing(local_map[d])
  IN  \/ /\ Goes("measure", "open_fat") /\ ~missing
         /\ needed_size' = SumFunction([d \in DOMAIN local_map |-> len(local_map[d])])
         /\ UNCHANGED <<todo, temp, image>>
      \/ /\ pc = "measure" /\ missing
         /\ Leave("err", "missing")
         /\ UNCHANGED <<host, files, needed_size, todo, image, runs, rebuilt>>

fat_size_padded_and_rounded_NoSlack == (needed_size \div MB + 1) * MB

fat_size_padded_and_rounded_Down == ((needed_size + 64 * KB - 1) \div MB) * MB

fat_size_padded_and_rounded == ((needed_size + 64 * KB - 1) \div MB + 1) * MB

OpenFat ==
  /\ Goes("open_fat", "format")
  /\ temp' = [temp EXCEPT !.len = fat_size_padded_and_rounded]
  /\ UNCHANGED <<needed_size, todo, image>>

\* format_volume writes an empty root directory, if its structures leave room.
FormatVolume ==
  /\ Goes("format", "add_files")
  /\ \E n \in Overheads : n < temp.len /\ temp' = [temp EXCEPT !.overhead = n]
  /\ todo' = DOMAIN local_map
  /\ UNCHANGED <<needed_size, image>>

(***************************************************************************)
(* add_files_to_image, for one destination.  Names on a FAT volume have no *)
(* case, so two destinations may be one file.  A directory and an empty    *)
(* file's entry are created where there is none; an old file is truncated. *)
(***************************************************************************)
ancestors(path) == {SubSeq(path, 1, k) : k \in 1 .. Len(path) - 1}

conflicts(fs, path) ==
  \/ \E a \in ancestors(path) \cap DOMAIN fs : fs[a].kind = "file"
  \/ path \in DOMAIN fs /\ fs[path].kind = "dir"

create_file(fs, path, source) ==
  [p \in {path} \cup DOMAIN fs \cup ancestors(path) |->
     IF p = path THEN [kind |-> "file", source |-> source, len |-> len(source)]
     ELSE IF p \in DOMAIN fs THEN fs[p]
     ELSE [kind |-> "dir", source |-> None, len |-> 1]]

clusters(fs) ==
  SumFunction([p \in DOMAIN fs |-> (fs[p].len + CLUSTER - 1) \div CLUSTER])

fits(fs) == clusters(fs) <= (temp.len - temp.overhead) \div CLUSTER

AddFile ==
  LET d      == first(todo)
      path   == d.path
      source == local_map[d]
      fs     == create_file(temp.fs, path, source)
      fails(cause) ==
        /\ Leave("err", cause)
        /\ UNCHANGED <<host, files, needed_size, todo, image, runs, rebuilt>>
  IN  /\ pc = "add_files" /\ todo # {}
      /\ CASE conflicts(temp.fs, path) -> fails("conflict")
           [] ~conflicts(temp.fs, path) /\ is_missing(source) -> fails("missing")
           [] ~conflicts(temp.fs, path) /\ ~is_missing(source) /\ ~fits(fs) -> fails("no_space")
           [] OTHER -> /\ temp' = [temp EXCEPT !.fs = fs]
                       /\ todo' = todo \ {d}
                       /\ UNCHANGED <<host, files, pc, needed_size, image, result>>
                       /\ UNCHANGED histories

FilesAdded ==
  /\ Goes("add_files", "open_image") /\ todo = {}
  /\ UNCHANGED outputs

(***************************************************************************)
(* create_gpt_disk.                                                        *)
(***************************************************************************)
OpenImage ==
  /\ Goes("open_image", "set_len")
  /\ image' = [len |-> 0, mbr |-> FALSE, partition |-> None, fs |-> None, fs_at |-> None]
  /\ UNCHANGED <<needed_size, todo, temp>>

disk_size == temp.len + 64 * KB

SetLen ==
  /\ Goes("set_len", "mbr")
  /\ image' = [image EXCEPT !.len = disk_size]
  /\ UNCHANGED <<needed_size, todo, temp>>

WriteMbr ==
  /\ Goes("mbr", "partition")
  /\ image' = [image EXCEPT !.mbr = TRUE]
  /\ UNCHANGED <<needed_size, todo, temp>>

\* add_partition takes the first free blocks, if there are enough.
AddPartition ==
  /\ pc = "partition"
  /\ IF GPT_FRONT + temp.len <= image.len - GPT_BACK
       THEN pc' = "write_gpt" /\ UNCHANGED <<temp, leaked, result>>
       ELSE Leave("err", "no_blocks")
  /\ UNCHANGED <<host, files, needed_size, todo, image, runs, rebuilt>>

WriteGpt ==
  /\ Goes("write_gpt", "copy")
  /\ image' = [image EXCEPT !.partition = [start |-> GPT_FRONT, len |-> temp.len]]
  /\ UNCHANGED <<needed_size, todo, temp>>

CopyFat_NoSeek ==
  /\ Goes("copy", "close")
  /\ image' = [image EXCEPT !.fs = temp.fs, !.fs_at = 0]
  /\ UNCHANGED <<needed_size, todo, temp>>

CopyFat ==
  /\ Goes("copy", "close")
  /\ image' = [image EXCEPT !.fs = temp.fs, !.fs_at = image.partition.start]
  /\ UNCHANGED <<needed_size, todo, temp>>

\* Here a failure to delete the temporary file is an error.
CloseTemp ==
  /\ pc = "close" /\ pc' = "returned" /\ temp' = NoTemp
  /\ \/ result' = [status |-> "ok", cause |-> "none", overhead |-> 0] /\ UNCHANGED leaked
     \/ result' = [status |-> "err", cause |-> "host", overhead |-> 0] /\ leaked' = TRUE
  /\ UNCHANGED <<host, files, needed_size, todo, image, runs, rebuilt>>

(***************************************************************************)
(* main unwraps the result and runs the emulator.                          *)
(***************************************************************************)
Unwrap ==
  /\ pc = "returned"
  /\ pc' = IF result.status = "ok" THEN "spawn" ELSE "exited"
  /\ UNCHANGED <<host, files, result>> /\ UNCHANGED outputs /\ UNCHANGED histories

SpawnEmulator ==
  /\ pc = "spawn" /\ pc' \in {"emulator", "exited"}
  /\ UNCHANGED <<host, files, result>> /\ UNCHANGED outputs /\ UNCHANGED histories

EmulatorExits ==
  /\ Goes("emulator", "exited")
  /\ UNCHANGED outputs

-----------------------------------------------------------------------------
(***************************************************************************)
(* The environment.  Destructors do not run in a process that is killed.   *)
(***************************************************************************)
Kill ==
  /\ pc \notin {"configure", "emulator", "exited"}
  /\ pc' = "exited" /\ temp' = NoTemp
  /\ leaked' = (leaked \/ temp.exists)
  /\ UNCHANGED <<host, files, needed_size, todo, image, result, runs, rebuilt>>

RunAgain ==
  /\ pc = "exited" /\ runs < MaxRuns
  /\ pc' = "create" /\ runs' = runs + 1
  /\ result' = None /\ rebuilt' = {} /\ leaked' = FALSE
  /\ UNCHANGED <<host, files>> /\ UNCHANGED outputs

\* A build writes or deletes a file of the host, between two runs or after
\* the files were measured; at other times nothing would tell.
Rebuild ==
  /\ pc \in {"open_fat", "format", "add_files", "exited"} /\ Cardinality(rebuilt) < MaxRebuilds
  /\ \E p \in HostFiles \ rebuilt : \E n \in Lengths \cup {None} :
       /\ host' = [host EXCEPT ![p] = n]
       /\ rebuilt' = rebuilt \cup {p}
  /\ UNCHANGED <<files, pc, result, runs, leaked>> /\ UNCHANGED outputs

Next ==
  \/ Configure \/ CallCreate \/ create_uefi_image
  \/ CreateTemp \/ Measure \/ OpenFat \/ FormatVolume \/ AddFile \/ FilesAdded
  \/ OpenImage \/ SetLen \/ WriteMbr \/ AddPartition \/ WriteGpt \/ CopyFat \/ CloseTemp
  \/ HostFails \/ Unwrap \/ SpawnEmulator \/ EmulatorExits
  \/ Kill \/ RunAgain \/ Rebuild

Spec == Init /\ [][Next]_vars

-----------------------------------------------------------------------------

TypeOK ==
  /\ host \in [HostFiles -> Lengths \cup {None}]
  /\ DOMAIN files \subseteq Range(Destinations) /\ KERNEL_FILE_NAME \in DOMAIN files
  /\ needed_size \in Nat
  /\ todo \subseteq DOMAIN local_map
  /\ temp.len % MB = 0 /\ (temp.fs # <<>> => temp.len >= needed_size)
  /\ image # None => image.len % BLOCK = 0 /\ image.mbr \in BOOLEAN
  /\ result # None => result.status \in {"ok", "err", "panic"}
  /\ runs \in 1 .. MaxRuns /\ rebuilt \subseteq HostFiles /\ leaked \in BOOLEAN

(***************************************************************************)
(* The emulator gets a whole image, made by this run from the files as     *)
(* they are: also after a run that failed or was killed half way, and if   *)
(* destinations coincide on the volume.  It has one partition, clear of    *)
(* both partition tables, with a volume in it that has the loader at the   *)
(* path the firmware looks for, whatever the builder was given, and every  *)
(* other destination unless one that differs in case only replaced it.     *)
(***************************************************************************)
SameFile(d, e) == d.path = e.path

HasFile(d) ==
  /\ d.path \in DOMAIN image.fs
  /\ \E e \in DOMAIN local_map :
       /\ SameFile(d, e)
       /\ image.fs[d.path].source = local_map[e]
       /\ local_map[e].path \notin rebuilt => image.fs[d.path].len = len(local_map[e])

BootsWholeImage ==
  pc = "emulator" =>
    /\ image.mbr
    /\ image.partition.start >= GPT_FRONT
    /\ image.partition.start + image.partition.len <= image.len - GPT_BACK
    /\ image.fs_at = image.partition.start
    /\ \A d \in DOMAIN local_map : HasFile(d)
    /\ image.fs[BOOTLOADER_FILE_NAME.path].source = File(initium)
    /\ \A p \in DOMAIN image.fs : image.fs[p].kind = "file" => ancestors(p) \subseteq DOMAIN image.fs

(***************************************************************************)
(* A failure leaves things in order.  The previous image is not touched    *)
(* before every file is on the volume: whatever is wrong with the input (a *)
(* file missing, a destination taken, too little space) leaves it whole.   *)
(* And when the tool returns or panics, no temporary file stays unless the *)
(* host refused to delete it.                                              *)
(***************************************************************************)
FailsCleanly ==
  [][/\ image' # image =>
          temp.exists /\ todo = {} /\ \A d \in DOMAIN local_map : d.path \in DOMAIN temp.fs
     /\ pc' = "returned" /\ pc # "returned" =>
          /\ temp' = NoTemp
          /\ result'.status = "ok" =>
               ~leaked' /\ \A d \in DOMAIN local_map : d.path \in DOMAIN image'.fs]_vars

(***************************************************************************)
(* The slack of 64 KiB: a volume is too small only if its own structures,  *)
(* the directories and the unused ends of clusters need more than that, or *)
(* a file was replaced after it was measured.  The GPT always fits.        *)
(***************************************************************************)
NoSpaceExplained ==
  /\ result # None => result.cause # "no_blocks"
  /\ result # None /\ result.cause = "no_space" =>
       \/ rebuilt # {}
       \/ LET dirs == UNION {ancestors(d.path) : d \in DOMAIN local_map}
          IN  result.overhead + CLUSTER * (Cardinality(DOMAIN local_map) + Cardinality(dirs)) > 64 * KB
=============================================================================
