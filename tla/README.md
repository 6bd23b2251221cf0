# Formal models of hazle-os

hazle-os is a 32-bit x86 kernel with a FAT32 driver over an ATA disk, a keyboard
and a shell that loads one program at a time. This directory holds TLA+ models of
the parts of it that keep state over time, the TLC configurations that check them
on small instances, and theorems about them that TLAPS checks for every value of
the constants. Paths below are relative to the repository.

    tlc -config FatCache.cfg MCFatCache.tla     one of the runs listed below
    tlapm FatCache_proofs.tla                   one of the proof modules

## Inventory

| Component | Source | State it keeps | Operations | Who it works with |
|---|---|---|---|---|
| FAT sector cache | `drivers/fat32/fat.c` 1-74, 144-151 | one sector buffer, its number, a dirty flag; the copies of the FAT on the disk | get, set, sync, invalidate | called by chains, files, directories; calls the block layer |
| FAT chains | `fat.c` 76-142 | the links of the FAT | find free, allocate, extend, free, count, length | called by files and directories |
| Open files | `drivers/fat32/file.c` | eight handles: position, current cluster, size, first cluster, dirty flag | open, read, write, seek, close, create, delete, rename, copy | chains, directories, clusters on the disk |
| Directories | `drivers/fat32/directory.c` | slots in the clusters of a directory | read, find, create, delete, update entries | files, mount |
| Mount, current directory | `drivers/fat32/mount.c` | geometry, path text and its cluster | init, mount, unmount, change_dir, free_space | shell, files |
| Boot sector, clusters | `drivers/fat32/bpb.c` | none but the geometry | parse, cluster to block, read and write a cluster | files, directories |
| ATA disk, block layer | `drivers/ata.c`, `block.c` | controller registers, presence flag | identify, read, write, flush by polling | everything on the disk |
| Keyboard | `drivers/keyboard.c` | a ring of 128 characters, shift | interrupt handler, has_input, getchar | interrupts; shell and system calls |
| Interrupts | `kernel/idt.c`, `interrupts.asm`, `gdt.c` | tables, the interrupt flag | gates for timer, keyboard, `int 0x80` | keyboard, timer, system calls |
| Timer | `drivers/timer.c` | tick count | handler, uptime | shell's shutdown, `uptime` |
| System calls | `kernel/syscall.c` | none | dispatch of 23 calls | programs |
| Loader | `kernel/exec.c`, `elf.c`, `heap.c` | heap top, the return point of the program | run, exit, load, alloc | shell, files |
| Shell | `shell/shell.c` | line buffer, running flag | read a line, built-ins, run a command | keyboard, loader, mount |
| Configuration | `kernel/sysconf.c` | settings with defaults | parse `/system/systemconf` | shell, display |
| Display | `drivers/display.c`, `vga.c`, `vesa.c`, `framebuffer.c`, `font_8x16.c` | cursor, colours, screen | put a character, scroll, clear | everyone who prints |
| Clock, speaker | `drivers/rtc.c`, `speaker.c` | the clock chip's registers, which go on by themselves | register reads, port writes | commands |
| Library, user library, commands | `lib/string.c`, `userlib/`, `system/commands/` | strtok's position | string functions; sequences of system calls | system calls |
| Start-up, build | `boot/boot.asm`, `kernel/kernel.c`, `linker.ld`, `Makefile` | none | order of initialisation, panic; the disk image | all |

The kernel has one thread. A system call runs with interrupts off, so nothing
interleaves with the file system except the failure of a transfer, the loss of
power and the reset line that the `reboot` command pulls. Interrupts interleave
only with the keyboard ring (and the tick counter). What makes the system hard is
therefore:

* **failure and crash in the middle of an operation** that takes several disk
  writes: the copies of the FAT, the links of a chain, chain against directory
  entry;
* **cached or cached-up state**: the single FAT sector, the size and first cluster
  in a handle, the cursor that should follow the position;
* **error values that look like data**: a failed FAT read answers
  `FAT32_BAD_CLUSTER`, a failed read in a copy ends it as the end of the file does;
* **boundaries**: a call that ends on a cluster boundary, a full ring, a full disk;
* **waiting**: `hlt` with or without interrupts.

What makes each component correct: the cache is a map whose acknowledged changes
reach the disk before it moves to another sector, and whose copies agree; chains
do not meet, do not run into free clusters and are not lost; an open file is a
string of bytes with a position; the keyboard is a queue; a directory has one
entry per name and each entry a chain of its own; the current path names the
current directory; a loaded segment lies in memory that is nobody else's; the
dispatch sends a descriptor to the file it was opened for; the time told is one the
clock has shown; the configuration is what its file says, wherever the blocks end in it;
the line on the screen is the line that is run, and its words are what the command
gets; a shutdown comes, and not before its time.

`PROJECT.json` lists, under `hazards`, every place of this kind with its line and
the properties that watch it.

## What is modelled

### `FatMap`, `FatCache`, `MCFatCache`, `FatCache_proofs`

`FatMap` is what the FAT layer promises: a map from cluster numbers to entries of
which some part is `durable`. A change is accepted only while nothing outside its
own sector is unwritten; sync answers "ok" only when all is durable; get answers
the map or, when a transfer failed, `Bad`; power loss falls back to what is
durable.

`FatCache` is `fat.c`: `buffer`, `cached`, `dirty` are `fat_sector_buffer`,
`cached_fat_sector`, `fat_cache_dirty`; `disk` has `NumFats` copies. One call is a
sequence of steps (`pc`): `CallEntry` or `CallFlush`, then `FlushCopy` for each
copy (line 16), `FlushEnd`, `ReadSector`, and `GetEntry` or `SetEntry`. `FlushFail`
and `ReadFail` are the early returns. `PowerLoss` starts the code again with what
is on the disk. `scars` is a history variable: sectors whose write-back was cut
short, by a power loss or because `fat32_invalidate_fat_cache` dropped them
(line 149 ignores the result). Only then may copies differ for good.

A sector transfer is atomic: it happens whole or not at all (`ata.c` reports
failure before its data phase). Entries are opaque values; the four reserved bits
that line 70 keeps are not modelled, as no code of the system sets them.

### `FatChain`, `FatChain_proofs`

The loops of `fat.c` 76-142, a turn per step, over `fat`, the map that `FatCache`
is shown to implement; a read answers the entry or `BadCluster`. `named` says how
entries and handles name a cluster as the first of a chain: `own`; `twin`, by two
entries after a rename that could not delete the old one (`Twin`); `astray`, by an
entry whose deletion failed when the chain had been freed. `place` is the moment
between `fat32_allocate_cluster` and what its callers do with the cluster: keep it
as a head (`Adopt`, file.c:204-212 and `fat32_create_dir`), append it to the chain
whose last entry they have just seen to be an end mark (`Extend`, file.c:244-250),
give it back (`GiveBack`, file.c:386), or lose it because they do not look at the
result (`Forget`).

A deletion has the order of file.c:406-410: `CallDelete`, `FreeOne` for each cluster
while the entry (`doomed`) still names the chain, and then `Unlink` or `UnlinkFail`.
After `UnlinkFail` the entry is on clusters that others take (`Adopt` on a cluster an
entry that went astray still names), and a second `rm` of it frees what they have
made of them: `refreed` is the history variable for that. Links, heads and chains
are in order until then (`NoCrossLink`, `NoDanglingLink`, `HeadsStartChains`,
`HeldChainsOnlyGrow`), and `FatChainAstray.cfg` shows what happens after it. `Lose` is a
close that cannot write the first cluster into the entry.

### `KeyFifo`, `Keyboard`, `Drivers_proofs`

`KeyFifo` is what the driver promises: of what is `typed` the next thing is queued
(`Put`), dropped if and only if the queue is full (`Drop`), or passed over if it is no
character (`Pass`), and what is queued is taken in order. The mapping takes `typed`
from the scancodes the controller holds, each with the shift that the ones before it
leave (`Typed`), so that a handler that drops a key while there is room, queues one
twice or looks at shift at the wrong moment does not implement it.
`Keyboard` is `keyboard.c` with interrupts between any two steps of
`keyboard_getchar`: the check, the `hlt`, the read of the slot (line 73) and the
store of the index (line 74) are separate steps. `enabled` is the interrupt flag: on
in the shell, off in a program's system call, since `int 0x80` goes through an
interrupt gate (idt.c:44). Characters are pairs of a key and shift.

### `ByteFile`, `FileCursor`, `FileCursor_proofs`

`ByteFile` is an open file as a program wants it, as far as `file.c` gives it: bytes, a
position, reads and writes that move on piece by piece and fall short only once a
transfer failed or the disk is full (`trouble`), and that even then leave alone the
bytes they are not writing. `doubt` is what it says of cluster boundaries. A call that
ends where a cluster (a `Cell`) does puts the next one in doubt (`edge`): if that is a
read, what it and the reads after it deliver need not be the file (`reads`), until
the next seek; if it is a write, no byte of the file is certain any more (`file`).
Positions, lengths and what calls return stay as promised.

`FileCursor` is one handle of `file.c`: a turn of the loops of `fat32_read` and
`fat32_write` is one step (`ReadOne`; `WriteLast`, `WriteOn`, `WriteExtend`,
`WriteShort`, `WriteFail` by how the turn ends), with `Open`, `Seek` and `Close`.
Allocation takes the first free cluster, or a later one or none after a failed
read, which is what the steps of `FatChain` do. The first state is any file another
system may have left on the disk.
A cursor can leave the clusters: `BadCluster` and `Eoc` are numbers `>= 2` that the
loops take. ata.c keeps 28 bits of a block address, and
`(0x0FFFFFF7 - 2) * 1` block is 11 blocks before the data area modulo 2^28, so
`data` has two places more than there are clusters, which lie in the last copy of
the FAT. This holds for one sector per cluster, as in the image the `Makefile`
makes; `SectorsPerCluster` is 2 in the runs so that half a cluster can be written.

`Next` lets any call follow any other. Neither loop goes to the next cluster when
nothing is left to move (file.c:175, 241), so that a handle whose last call ended on a
boundary is not `Settled`: its cluster is the one before its position, or after a
seek to the end of a file that fills its clusters the end mark (file.c:300-305).
Programs do go on from there: `sysconf_load` reads 512 bytes at a time (sysconf.c:99),
`cat` 256 (cat.c:17), `write` and `fat32_copy` write again and again (write.c:22-26,
file.c:458-459). `exec.c` reads a file in one call. `trouble` keeps what has gone wrong:
`failed` and `full` of transfers and the disk; `behind`, a call has begun unsettled since
the last seek or open; `damaged`, a write has. The mapping makes `trouble` and `doubt` of
these four.

### `FileCopy`, `FileCursor_proofs`

`fat32_copy` with two open files on one FAT and one disk: it extends `FileCursor`,
whose file is the source, and the target `Dst` is a second instance of it. There is
one step per call it makes, with the turns of the reads and writes in between, and
the three ways it fails (no entry, no handle, short write). `DeleteTarget` is
`fat32_delete` as a single step. `trouble` and `dstTrouble` keep apart which side
a transfer failed on: a read error cuts the copy off, but what it has is right.
The specification is `CopySpec`, as `Spec` is that of the one file; in the same way
`WorkDir` has `DirSpec` and `AtaPio` has `AtaSpec`, since each has its proofs in one
module with another's.

### `DirMap`, `Directory`, `MCDirectory`, `Directory_proofs`

`DirMap` is a directory as its users see it: a map from names to values, with
answers that tell what was done. After a failed transfer (`trouble`) all that is
left is that an operation on one name leaves the others alone.

`Directory` is the slots of one directory in order (`directory.c`): entries, free
and end marks, long-name slots and volume labels. Each function of `directory.c`
scans from the start and writes one slot, with nothing in between, so it is one
step; `reach` is how far its scan got before a transfer failed, and `Store` has the
write that fails before or after it reached the disk. `Find` is `fat32_find_entry`;
`FindAny` is the scan of `fat32_delete_entry` and `fat32_update_entry`, which does
not pass over labels; `FindFree` and `CreateEntry` are the creation. `Create`,
`Delete`, `Update` (the close) and the two halves of a rename are the callers in
`file.c`. A name is what is left after upper-casing; `Short` is
`string_to_short_name`. A directory never grows, as in the code.

### `Volume`, `MCVolume`, `Volume_proofs`

One directory and the FAT under the calls of `file.c`, with the FAT the driver sees
(`fat`) and the FAT on the disk (`durable`) apart: only the cached sector differs,
and `Load` brings it to the disk when another is wanted. Entries go to the disk at
once. An open file may be written to any number of times: a handle has its position
in clusters begun (`pos`), whether the last of them is full, and the cluster it is at.
A write from a cluster's end goes to that cluster once more while the size grows, so
that size and chain part: `behind` is the history variable for the names of such
files. Their chains are their own and in use like all others, but `ChainsAreOwn` and
`FilesSurvive` do not say how long they are (`VolumeSizes.cfg` shows why).

Every step between two changes of the disk or the cache is an action:
`Close` then `CloseSync`; `Delete`, `FreeOne` per cluster, `FreeEnd`, `Unlink`;
`Rename`, `Unlink`; `Mkdir`, `MkdirWrite`, `MkdirEntry`; `Write`, `WritePiece`,
`WriteNext`, `WriteAllocate`, `WriteExtend`. There is no action for a power loss: what it
leaves is `entry` and `durable`, and the properties speak of them in every state.
Transfers succeed here (`FatChain` and `Directory` have the failures), except the
cluster of a new directory, as `fat32_create_dir` frees it again. Sizes are in
clusters. `Chain` is the least set with the first cluster that is closed under the
links (`LinkClosed`), here as in `FatChain`.

### `WorkDir`, `MCWorkDir`, `Shell_proofs`

`fat32_change_dir` over a tree that stays as it is: `dir` is `fs.current_directory`,
`path` is `fs.current_path` as the sequence of its segments. `Step` is a turn of the
loop, `Walk` the loop, `ChangeRoot` and `ChangeBack` the special cases before it.
`Change` applies to every argument: `../` and `./`, which line 64 does not take for `..`
and `.`, go through the loop. A path that was emptied by a failed absolute call is
the text "" where one after `cd /` is "/"; both have no segments and lead to the root,
and the call is counted as `failed` either way.
`astray` is a history variable: the three reasons for which the path can have lost
its way (a call failed after it had touched the path, `..` took off a dot segment,
the text was full). `Parse` is `parse_path`, which makes the same lookups but does
not turn cluster 0 into the root. `Follow` and `Leads` are the reference: where a
path leads in the tree.

### `AtaPio`, `Drivers_proofs`

`ata_identify`, once at the start (`Identify`, then `IdentifyRead` or
`IdentifyFail`), and `ata_read_sectors`, `ata_write_sectors` and `ata_flush` of one
sector, as all callers of `block.c` ask, in steps: the address registers (`Start`),
the command register (`Issue`), and what `ata_poll` ends with (`PollRead`,
`PollWrite`, `PollFlush`, `PollError`, `PollTimeout`). Without a drive every call
fails (`Refuse`). The drive is external and works on its own (`DriveReady`,
`DriveDone`, `DriveError`); while it is busy or wants data it ignores its registers.
`risk` is a history variable: a call found the drive busy, or a poll gave up while
it was.

### `Rtc`, `Sysconf`, `Program`, `MCProgram`, `Program_proofs`

`Program` is the machine from `shell_init` to one program after another. It extends
two modules whose state is small and their own:

* `Sysconf`, the reading of the configuration (sysconf.c): `TakeBlock` takes a block
  of the file character by character into `line` and `bin_path`, `ParseLine` is
  `parse_line` for the key `bin` (`GivesBin`, `BinOf`), `LastLine` is what is done after the loop,
  which may come early, as a read can fail. Blocks are of `BufferSize` (512) and a cluster
  is a number of them, so that each read that ends a cluster leaves the handle on it
  (file.c:175): `ReadBlock` reads the first cluster over and over. `Configured` is the
  reference: the last line of the text that gives the key. `ConfigIsRight` is about
  files of at most one cluster; `ProgramDeviations.cfg` shows that it is not so of others.
* `Rtc`, the reading of the clock (rtc.c): `Poll`, `ReadRegister` for each register,
  `ReadEnd` with the conversion. The chip is external: `ChipWarn` raises UIP,
  `ChipUpdate` changes the registers. After UIP has been seen low no update is due
  for `Window` accesses (244 microseconds; a port access takes about one).

`Program` itself has the table of open files as all of them share it. `Exec` and
`Load` are `exec_run` up to the validated file, `MapSegment` a turn of the loop of
`elf_load`, `Call` the jump to the program. Memory (`mem`) is the one area for which
all programs are linked; what a program writes to it (`Scribble`) stays. `LaidOut`
is what `userlib/command.ld` makes of a program: its sections lie one after another. `write`,
`cat`, `cp` and `date` are modelled call by call, any other program as one that opens and
closes what it likes (`OpenAny`, `CloseAny`) and returns or calls `exit`, which
spins for ever since SYS_EXIT returns (userlib/hazle.c:4). `left` counts what
programs have not closed. `went` is where a program's words went or came from:
`Source` and `Sink` are `sys_read` and `sys_write` with their special numbers.

### `Screen`, `Shell`, `MCShell`, `Shell_proofs`

`Screen` is the text screen (display.c over framebuffer.c) as a function: `Put` is
`display_putchar` on a record of a grid and a cursor.

`Shell` is `shell_run`: `TypeKey`, `TypeBackspace` and `TypeEnter` are the three
branches of its loop, `Strtok` one `strtok` with the turn around it, over places in
the buffer as the code has pointers into it; `save` is `strtok_saveptr`, which
outlives the line. `RunCd`, `RunProgram`, `RunEnd`, `RunShutdown` are what a line
can run, as far as the screen and the timer go. The wait
of shutdown is three steps: `wait` before the test (`Look`), `hlt` between the test and
the `hlt`, `asleep` in it; `Tick` is `timer_handler` with a counter of `Turn` numbers for
2^32, and one that comes between test and `hlt` does not end the `hlt`. `slipped` is a history variable: a backspace was
taken at the left edge, or a tab typed. `waited` counts ticks since the command, `begun`
is the counter when it was given.

## Runs

| Run | Bounds | Shows |
|---|---|---|
| `FatCache` | 2 sectors of 2 entries, 2 copies, 2 values, one power loss | `CleanBufferMatchesDisk`, `MirrorsAgree`, and that the cache implements `FatMap` |
| `FatChain` | 4 clusters, any set of them bad, any transfer failing | chains stay apart, run into nothing free and keep their clusters until `refreed`, none is lost without a failure; calls return |
| `Keyboard` | ring of 3, 2 keys with and without shift, 2 scancodes held back | every key typed is queued or the ring is full, the reader's slot is its own, the shell sleeps through no key |
| `KeyboardProgram` | the same | **violated**: a program's getchar never returns |
| `FileCursor` | 2 clusters of 2 sectors of 1 byte, files up to 3 bytes, calls of up to 2 | the handle implements `ByteFile`; the FAT's copies are left alone until a transfer fails or a write begins where a cluster ended |
| `FileCopySmall` | files of up to one cluster of 4 bytes, buffer of half of one | copies are faithful, or a beginning of the source if that could not be read; failed ones leave nothing |
| `Directory` | 3 clusters of 1 slot, 2 names, 2 values, no labels, renames to free names | names are unique, nothing stands behind the end, the directory implements `DirMap` |
| `Volume` | 3 clusters, 2 FAT entries per sector, 3 names, 2 entries, files of up to 3 clusters, any number of writes | chains are whole (unless `behind`) and apart in the cache, files that no call is changing are whole on the disk at every step, links on the disk lead somewhere, no cluster is lost but a failed mkdir's, a directory's cluster is on the disk after the next close or delete |
| `WorkDir` | 4 directories (one with a `..` of 0, one two levels down), arguments of up to 3 segments, paths of up to 3 | the path leads to the current directory unless `astray`; `cd` leads where its argument does; no file is looked up in a wrong directory |
| `AtaPio` | 2 sectors, 2 versions of each | sectors go where they were meant and are read back until `risk` |
| `Program` | 4 handles, 2 files, 11 programs on 6 addresses, 8 configuration files, blocks of 3, clusters of 12, a clock of 3 registers, 2 updates a call, `Window` 3 | handles are their owner's, only what programs leave open stays, `write` writes to its file as long as nothing was left open, segments hold the file's bytes and zeros, the time is one shown, the configuration is the last line's for files of one cluster |
| `Shell` | screen of 2 rows of 4, lines of 5 characters, 2 keys with blank and tab, 2 places for words, a counter of 8 numbers | the echo is the line until `slipped`, commands get the words of the line, the halt is not early unless the target runs over, and comes unless the target is the largest number |

Why the bounds are enough. Two sectors and two copies are the least in which the
cache must change sector and a write-back can be cut in two; with one power loss
there is a history before and after it. Four clusters hold the root and
three more, of which one can be named, one follow it and one belong to another, so
that every operation meets a neighbour and a freed cluster is taken by someone else. A ring of three holds two
characters and wraps; two scancodes wait so that one is stored while the next is
pending. Files of three bytes on two-byte clusters cross one boundary and end
inside a cluster and on its edge; two clusters are what such a file takes, and with
one of them in use by others the disk is full. Three clusters of a slot give a directory every
order of entries, free slots, long names and ends, with a failed read between any
two. Three clusters over two sectors of the FAT are the least in which a file spans
sectors while another's cluster shares one with it, and three names for two entries
make the directory full while a name is free; with three units of size a file of one
cluster is written to twice from its end. Paths of three segments have a dot
segment in every place. Four handles hold the descriptors 0, 1 and 2 that have a
meaning of their own and one that has not. The programs of `MCProgram` differ in
what can be wrong with them: empty, too big, no ELF file, a header or a segment that
is not in the file, no entry; their segments overlap those of others in file
bytes and in zeros. The configuration files have a line on each side of a block's
end, long lines, comments, keys that do not end and both line ends, and one is longer
than a cluster. A window of as
many accesses as there are registers is the least the chip grants. A line of five
characters wraps on a row of four and scrolls a screen of two; three words of one
character are more than two places. With a counter of 8 and a factor of 3 times the
frequency some delays run over, some end on the largest number and some do neither. Bytes are told apart by where they came
from, so that one byte in a wrong place shows; the code never looks at their values.

`CHECK_DEADLOCK` is off where the system may stop: the keyboard halts the machine
in a program's getchar, and the shell is over after `exit` or a shutdown.

### The violation

* **getchar in a program** (keyboard.c:70). The `hlt` runs with interrupts off
  because the call came through an interrupt gate. A key typed before the call is
  returned; otherwise nothing wakes the processor. README.md:101 lists "Read
  keyboard input" among what the system can do.

## Known deviations beside the runs

These configurations each check one property that the code does not keep; TLC
answers with the shortest behaviour that breaks it. Where one configuration stands
for several properties, it names the others in a comment: TLC stops at the first. They are kept apart from the
runs above, whose properties name the conditions under which the code is right.

| Configuration (module) | Property | What the code does |
|---|---|---|
| `FileCopyLarge` (`FileCopy`) | `CopyIsFaithful` | a call that ends on a cluster boundary does not move the cursor (file.c:175, 241), and the next call works on the old cluster again. `fat32_copy` moves 512 bytes at a time, the cluster size of the image: every file longer than one comes out wrong, and true is returned, where docs/FILESYSTEM.md:78 says "Copy file" |
| `FileCursorDeviations` (`FileCursor`) | `ReadsDeliver` | a read that ends where a cluster does leaves the handle on it, and the next delivers its bytes again (file.c:175). `cat` reads 256 bytes at a time from clusters of 512: of a longer file it shows the first cluster over and over, where docs/FILESYSTEM.md:74 has "Display file contents" |
| `FileCursorDeviations` | `OnlyFailuresReachMirror` | a seek to the end of a file that fills its clusters takes the end mark for a cluster (file.c:300-305), and the next write goes to the last copy of the FAT |
| `FileCursorDeviations` | `OnlyEdgesReachMirror` | a failed FAT read inside `fat32_write` (file.c:251) is taken for a cluster number and the write goes on there, in the last copy of the FAT |
| `FatChainAstray` (`FatChain`) | `ChainsStayWhole` | `fat32_delete` frees the chain, then cannot delete the entry (file.c:406-410): another file takes the clusters, and a second `rm` frees the middle of its chain |
| `VolumeSizes` (`MCVolume`) | `SizesAreHeld` | writes that each begin on a cluster boundary stay on one cluster while the size grows (file.c:233-241): after `cp` of a file of two clusters the entry says two and the chain has one |
| `FileCopyFault` (`FileCopy`) | `SuccessMeansCopied` | a read error ends the loop of `fat32_copy` (file.c:458) like the end of the file, and a cut-off copy is reported as made |
| `DirectoryListing` (`MCDirectory`) | `ListingIsRight` | deletion leaves long-name slots behind and `fat32_read_dir` carries a collected name over a free slot (directory.c:115): the next entry is listed under the deleted file's name |
| `DirectoryLong` (`MCDirectory`) | `CreatedIsFound` | names are cut to 8.3 on creation (directory.c:282) and looked up in full (217); `/.systemconf` of the image, which `mcopy` gives a long name, is never found either |
| `DirectoryLabel` (`MCDirectory`) | `DeletedIsGone` | `fat32_delete_entry` does not pass over the label (directory.c:320), `fat32_find_entry` does (202): removing a file of the volume's name removes the label |
| `DirectoryRename` (`MCDirectory`) | `RenamedIsThere` | `fat32_rename` does not look whether the new name is taken (file.c:430) |
| `VolumeReboot` (`MCVolume`) | `MkdirIsDurable` | `fat32_create_dir` leaves the mark of its cluster in the cache and `reboot` (shell.c:16) does not sync |
| `WorkDirDeviations` (`MCWorkDir`) | `PwdAfterSuccess` | after `cd a/.` and `cd ..` the path has lost the dot, the directory its level (mount.c:72-83) |
| `WorkDirDeviations` (`MCWorkDir`) | `PwdAfterFailure` | a `cd` that fails half-way has changed the path (mount.c:100, 114) |
| `WorkDirDeviations` (`MCWorkDir`) | `ParseAgreesWithCd` | `parse_path` takes the 0 of a `..` entry for a cluster (file.c:68, 81) |
| `ProgramDeviations` (`MCProgram`) | `CatShowsFile` | the first file opened has descriptor 0, which `sys_read` takes for the keyboard (syscall.c:32): `cat` waits for keys, where its help says "display file" (system/commands/help.c) |
| `ProgramDeviations` (`MCProgram`) | `WordsAlwaysReachFile` | after a program that left a file open, `write` gets descriptor 1 and its words go to the screen (syscall.c:22) |
| `ProgramDeviations` (`MCProgram`) | `LongConfigIsRight` | of a configuration longer than a cluster `sysconf_load` reads the first cluster again (sysconf.c:99 with file.c:175) |
| `ShellEcho` (`MCShell`) | `EchoAlwaysRight` | a backspace at the left edge does not go back to the row above (display.c:64), and one backspace takes back one column of a tab |
| `ShellShutdown` (`MCShell`) | `ShutdownOnTime` | the wait is seconds times 1000 (shell.c:122) at 100 ticks a second: ten times as long as said, and after a sum that runs over it is no wait at all |

Three more come with the conditions in the runs. A call to the drive while it still
stores the last sector, or after a poll has given up, can read or write the wrong
sector (`risk`; ata.c:141, 157-168). `fat32_create_dir` in a full directory does not
give its cluster back (`orphans`; file.c:390). And a shutdown whose target is the
largest number waits on if its last tick comes between the test and the `hlt`
(`ShutdownComes`; shell.c:123-124), as the counter has started again by the next.

These exceptions are the hazards themselves: `PwdIsRight`, `WordsReachFile`, `NotEarly`,
`NoLostCluster`, `MkdirReachesDisk` and the three properties of `AtaPio` say that nothing
else goes wrong, and the configurations above show what does.

## Fairness

`FatChain`: a call that has started runs on (`WF` of the steps of the call), because
nothing else has the processor. Nothing is assumed of which way a transfer goes.
`Keyboard`: the processor executes, and each of the two interrupt lines is served
while the flag is on; the timer is programmed to fire for ever and the controller
holds its scancode until it is read. Users are not assumed to type. `Shell`: the
timer ticks and the processor executes (`WF` of `Look`, `Tick` or `Halt`); a tick that
finds the processor in `hlt` ends it and the loop looks at the counter before the
next, a hundredth of a second later. The others are checked for safety only.

## Proofs

Each theorem holds for every value of the constants, under the `ASSUME` of the
component's module; TLC evaluates these on every run. They say that sizes are
positive and that the values used as marks are not data (`LayoutAssumption`,
`NumClustersAssumption`, `SizeAssumption`, `VolumeAssumption` and those of
`Directory` and `AtaPio`), and five things that come from elsewhere: a disk has
fewer clusters than the numbers the FAT reserves; after UIP has been seen low there
is time for one access to each register (`RtcAssumption`, 244 microseconds for
six); the segments of a program do not overlap and lie in the programs' area
(`LaidOut`, from `userlib/command.ld`); no file is called what the models call the
loader's and the configuration's; directories are a tree, in which `..` names the
parent, or 0 for the root (`WorkDirAssumption`, what a file system without damage
has). `ShellAssumption` has the code's numbers: two words or more (`MAX_ARGS` is 16), a
timer that ticks no faster than shutdown takes it to (100 and 1000), keys that are
none of the control characters. Where a theorem needs more, it is in its statement.

* **FatCache_proofs.** `IInv` is `TypeOK`, `CleanBufferMatchesDisk`, `MirrorsAgree`
  and two facts the steps need: `FlushProgress` (copies below `copy` already have
  the buffer's sector, so the last step of the loop makes the copies agree) and
  `CallState` (between `read` and `access` the buffer holds the request's sector and
  nothing unwritten is dropped). `Invariance` proves it inductive, one step per
  action; the three invariants follow. `CacheImplementsMap` maps the logical FAT
  (the buffer over copy 0) and copy 0 to `FatMap`'s variables: `FlushCopy` of copy 0
  is a write-back, `GetEntry`, `SetEntry`, `FlushEnd` and the failures are answers
  or stutter.
* **FatChain_proofs.** `IInv` adds two parts to the three invariants on links. `CallState`:
  the cluster in the hands of a call is in use, nobody's successor and the head of
  nothing but what the call is deleting. That is why `Extend` ties no knot and `FreeOne`
  leaves no dangling link. `Faultless`: without a failure no entry is a twin or astray,
  so that no chain is freed twice. All but types hold until `refreed`; an entry that went
  astray does no harm before that, as `HeadsStartChains` does not count on it (`Owned`).
  The proof holds with any transfer failing. `HeldChainsGrow` and `NothingIsLost` speak
  of what can be reached along a chain. A chain is the least closed set with its
  head, so that a step is shown to keep what was on it by showing a set closed
  (`ChainIsLeast`): linking a cluster that ended its chain makes chains larger
  (`ChainGrows`), freeing a head takes nothing from the others (`ChainSurvives`).
* **Volume_proofs.** The inductive invariant is the long one here, as a directory,
  the FAT in the cache and the FAT on the disk have to fit at every step of every
  call. `CacheOK`: the two FATs differ in the cached sector only. `TablesOK`: both
  are linear (no two clusters have one successor) and lead (no link to a free
  cluster), and the disk has no link that the driver does not see, save those of the
  chain being freed. `HeadsOK`, `NamesOK`: the first clusters of entries and handles
  are apart and are nobody's successors. `PathsOK`: what an entry or a handle says
  of its size is the length of a path in the FAT, and for a file no call changes
  that path is in `durable` too, all its clusters marked; both but for files `behind`.
  `HandlesOK`: an open handle is at a cluster of its own chain, and unless it is behind
  at the one its position says. `CallOK`: what the running
  call has in its hands. `NoneLost`: every cluster in use is on a chain of somebody.
  `OnBoth` needs `DiskBehind`, and that needs that an end mark is in the sector that
  is written back before the link to it is in another. TLC checked all parts on the
  instance of the run before they were proved. `AlwaysIInv` proves it inductive; the
  five theorems follow. Chains of any length are handled by induction on the least
  index at which something would go wrong (`LeastElement`).
* **Directory_proofs.** `NothingBehindEnd` is inductive with the types alone, for
  any names, labels and failures. `NamesStayApart` needs that names are of 8.3 form
  and that no rename goes to a taken name (`~Overwrite`): with either dropped TLC
  breaks it (`DirectoryLong`, `DirectoryRename`). `DirectoryIsAMap` needs also that no
  label is a file's name (`Plain`; `DirectoryLabel`), as in the run that checks it.
  Its mapping takes a name to the value of its only entry, `OneEach` makes that
  unique; after `trouble` only the names an operation is not about are kept, which
  `Named` and `Stands` say slot by slot.
* **Program_proofs.** `HandlesInv` counts: handles in use are those left open, those of
  the running program, and the one of loader, configuration or command, in each
  `Phase` of the machine. `WordsOK` adds that with none left open that one is
  descriptor 0. `Mapped` has the segments before the next one in place, which the
  next does not disturb since they do not overlap. `RtcInv` has the sample as a part
  of one time for as long as the window lasts. `ConfInv` has the reading of the
  configuration at any place of the file: the line buffer is what is kept of the line
  from its beginning on (`Begun`, `Stored`), and the path is what the last of the lines
  before it says (`Tells`), for files of at most one cluster, as of a longer one the
  characters read are not those of the file. A character takes it one place on (`TakeReads`), a block any
  number of places (`BlockReads`), wherever it is cut, and at the end it says what the
  text says (`EndTells`).
* **Drivers_proofs.** For the drive, `InStep` is what driver and drive know of each
  other while `risk` is empty: during `poll` the drive's registers are those of the
  call, and it is never busy when a call begins. `NothingForgotten` has `latest` as
  the disk with the write under way laid over it. For the keyboard, `Inv` is
  `TypeOK` and `ReaderOwnsSlot`; the refinement needs arithmetic on the ring, in
  lemmas of its own: storing appends to the queue, moving `buffer_start` takes its
  head, and a full ring has `BufferSize - 1` characters.
* **Shell_proofs.** Four arguments, for lines, words, screens and trees of any size.
  *The echo*: `Echoed` says that each character of the line stands in the cell that
  is as many places before the cursor as it is before the line's end, counted along
  the rows. Every character drawn shifts all the others by one place (`Shifts`), by a
  whole row less when the screen scrolls (`ScrollShifts`), so the two counts stay
  equal until a tab or a backspace at the left edge.
  *The words*: between two turns of `strtok`, `Found` has the words so far, in order,
  each cut off in the buffer, and `Ahead` the rest of the line, which `save` points
  to, still whole; `OneMore` is one turn. That there are as many words as places
  where one begins needs the beginnings counted (`NthIs`). What is past
  `MaxArgs` is dropped, and the theorem says so.
  *The wait*: `Timed` relates the counter, its target, where it began and the ticks that
  have gone by, whether a tick was seen at once or missed in front of `hlt`; a sum that
  runs over is what `NotEarly` exempts.
  *The path*: a walk is a function of the turns made (`Passage`), and the path that
  `pwd` shows leads to the directory of each turn (`WalkKeepsPath`). `..` needs that a
  directory hangs in one place only (`HangsInOne`), which is what a tree is, and `.`
  that it changes nothing. `ChangesAreRight` compares the walk with the way the
  argument leads (`Track`), `NamesAreNeverTakenWrong` does it for `parse_path`.
* **FileCursor_proofs.** `IInv` relates the cursor to the file. `FileOK`: the FAT is
  linear and leads, and the file's first cluster begins a chain. `WholeOK`: as long as
  all went `Well` (no transfer failed, no write went to a wrong cluster) that chain is as
  long as the file. `CursorOK`: the cursor is on the cluster of its position and on no
  other of the file (`Stands`); after a call that ended on a cluster boundary it is still
  on the one before. Once a transfer has failed it may have left the chain, but it never
  gets to another place of it, and so a later write can spoil its own bytes only. Once
  calls have gone on from such a boundary (`Astray`) nothing is known of the cursor until
  a seek finds its way from the first cluster again (`Resettle`); what is left then is
  what does not depend on it: positions, lengths, the chain, and after a write that went
  wrong only those. `EntryOK`: the directory entry has a beginning of the file, which is
  what a close that cannot write the entry leaves. TLC checked `IInv` on the instance of
  the run. No condition on callers is assumed.
  `HandleIsAByteFile` then has one lemma per action: an open is a stutter, a turn of
  a loop moves `Piece` bytes, and the bytes of a piece are exactly those of the file
  at the position (`BytesGotRight`, `InsideWritten`) and no others (`OutsideStays`).
  `\div` and `%` are unfolded by the existence and uniqueness of quotient and
  remainder (`Splits`, `UniqueSplit`), chains and seeks by the least step at which
  two walks would differ (`WalksAgree`, `SkippedIs`).

  The same module has the copy, which uses two handles on one FAT, so `IInv`, which is
  about one, is not used for it. `TargetInv`, for copies of
  any size: the clusters of the target are a `Row`, each linked to the next, that were
  free when the copy began, and nothing else of the FAT has changed (`Taken`); the
  handle has the ends of the row until it is closed, the entry its beginning after
  that (`Held`). A row has no more clusters than the disk (`RowFits`), so the loop
  that frees a chain gets to all of it (`ChainOfRow`), and `FailedCopiesLeaveNothing`
  follows. `CopyInv` has the bytes: `Origin`, the source is as it was; `Reader` and
  `Writer`, both cursors are at one position; `InRead`, `HasCarried` and `InWrite`, what is in
  the buffer is what lies there in the source. It is for sources of one cluster,
  and so is `SmallCopiesAreFaithful`: this is no convenience of the proof, as for longer
  ones `fat32_copy` is wrong (`FileCopyLarge`).
Only model-checked: the liveness properties (`CallsReturn`, `ShellGetsKeys`,
`ShutdownComes`), as the provers do not reason about fairness here. Every other
property of a run is stated by a theorem.

The loops over a line, a block or a path are recursive functions over its places
here, not the folds of the community modules: a theorem about a recursive function
needs first that it exists (`RecursionExists`), and then goes from place to place
(`AllPlaces`), which both come down to the least place at which something is wrong.

The inductive invariants are no invariants of a run; TLC agreed to them on the
runs' instances before they were proved.

## Not modelled

Pixels, fonts, colours, ports of the speaker, the descriptor tables and the boot
code keep no state that several steps could bring out of order. Never called, and
left out for that: unmount, `rtc_get_*`, `vga.c`, lines and rectangles of
`framebuffer.c`, `setup_stack_and_call`, and the functions of `directory.c` from line
352 to 457. Left out of what is modelled: the 12-hour mode of the clock, which
`rtc.c` does not look at; the year beyond the carry from one register to the next; the keys of the
configuration that only colour or name something; the 16 characters `parse_time` has
for its number; sums of offset and size in an ELF file that pass 2^32; `bin` set to
another directory (`Program` runs programs from the default only, with any other
none is found); two handles on one file, and the removal of an open file or of a
directory that is not empty; what the calls of `syscall.c` answer that only fill a
record. The disk is taken as smaller
than 2^28 blocks and the FAT as ending before the entries of the reserved numbers,
so that asking for the entry of `BadCluster` or `Eoc` fails; for the image of 64 MB
both hold. The compiler is taken to read `buffer_start` and `buffer_end` again
after each `hlt`, as the statement is a volatile asm in a loop with calls the
compiler cannot see through being absent only for static data; gcc at the
optimisation of the `Makefile` does. Everything else that is missing is in the plan.

## Plan

Done: the FAT (`FatMap`, `FatCache`, `FatChain`) with its proofs, the keyboard with
its proofs, open files (`ByteFile`, `FileCursor` with its proofs, `FileCopy`), directories (`DirMap`,
`Directory`) with their proofs, the FAT and a directory on one disk (`Volume`) with
its proofs, the current directory (`WorkDir`), the drive (`AtaPio`) with its proofs,
programs with the loader, the configuration and the clock (`Program`, `Sysconf`,
`Rtc`) with their proofs, the shell with screen and timer (`Shell`, `Screen`), with the
proofs of shell, paths and copies. Left:

* `Volume` with two handles on one file, the removal of an open file or of a
  directory that is not empty, and failed transfers.
