---------------------------- MODULE MCDiskImage ----------------------------
(***************************************************************************)
(* Destinations that coincide with the loader on the volume, or with a     *)
(* directory that another one needs.  Upper-case letters come first in a    *)
(* BTreeMap.  File lengths lie about the point where the volume grows.     *)
(***************************************************************************)
EXTENDS DiskImage

Dest(path, spelling) == [path |-> path, spelling |-> spelling]

Boot == <<"efi", "boot", "bootx64.efi">>

EfiUpper == Dest(Boot, "upper")
Efi == Dest(<<"efi">>, "lower")
Bootloader == Dest(Boot, "lower")
Kernel == Dest(<<"kernel-x86_64">>, "lower")
Ramdisk == Dest(<<"ramdisk">>, "lower")
KernelUpperChild == Dest(<<"kernel-x86_64", "more">>, "upper")

SomeDestinations == <<EfiUpper, KernelUpperChild, Efi, Bootloader, Kernel, Ramdisk>>

\* Two files need all but the slack of one MiB (983040 bytes), or almost all of it.
SomeLengths == {491520, 557055}
=============================================================================
