------------------------------- MODULE Program -------------------------------
(***************************************************************************)
(* From start to programs: shell_init reads the configuration file         *)
(* (Sysconf), exec_run and elf_load (src/kernel/exec.c, elf.c) bring a     *)
(* program into the one area of memory that all programs are linked for,   *)
(* and the program makes its system calls (kernel/syscall.c).  All three   *)
(* share the table of open files (drivers/fat32/file.c).                   *)
(*                                                                         *)
(* The programs are those of src/system/commands that have files open or   *)
(* ask for the time, and one that calls what it likes.                     *)
(***************************************************************************)
EXTENDS Rtc, Sysconf, FiniteSets

CONSTANTS
    MaxOpen,        \* FAT32_MAX_OPEN_FILES
    File,           \* the files programs use
    Image,          \* the programs on the disk, as records
    HeapSize,
    Area,           \* the addresses from 0x500000 on
    None

\* The addresses of a segment that come from the file, and those that are zeroed
FromFile(s) == s.vaddr .. s.vaddr + s.filesz - 1
Zeroed(s) == s.vaddr + s.filesz .. s.vaddr + s.memsz - 1

\* elf32_phdr_t
Phdr == [end : Nat, load : BOOLEAN, offset : Nat, filesz : Nat, vaddr : Nat, memsz : Nat]

\* command.ld lays the sections of a program one after another.
LaidOut(p) ==
    /\ p.headers \in Seq(Phdr)
    /\ \A n, k \in DOMAIN p.headers : n # k /\ p.headers[n].load /\ p.headers[k].load =>
          (FromFile(p.headers[n]) \cup Zeroed(p.headers[n]))
             \cap (FromFile(p.headers[k]) \cup Zeroed(p.headers[k])) = {}
    /\ \A n \in DOMAIN p.headers : p.headers[n].load =>
          FromFile(p.headers[n]) \cup Zeroed(p.headers[n]) \subseteq Area

ASSUME ProgramAssumption ==
    /\ MaxOpen \in Nat \ {0}
    /\ File \cap {"program", "config", None} = {} /\ None \notin {"program", "config"}
    /\ None \notin Image
    /\ \A p \in Image : p.size = Len(p.bytes) /\ LaidOut(p)

Fd == 0 .. MaxOpen - 1
NoFd == -1
Keyboard == "keyboard"
Screen == "screen"
Dirt == -1

VARIABLES
    table,      \* open_files: the file each handle is on, or None
    pc,         \* where the machine is
    image,      \* the program that is loaded or runs
    segment,    \* the program header that is next
    mem,        \* the programs' memory
    fd,         \* the descriptor of who has one: sysconf_load, exec_run, cat or write
    name,       \* the file that cat or write was asked for
    exists,     \* the files there are
    went,       \* where the words of write, or those cat shows, went to or came from
    held,       \* the files the other program has open, by the numbers it was given
    left        \* history: files left open by programs that have returned

own == <<table, pc, image, segment, mem, fd, name, exists, went, held, left>>
vars == <<own, clock, config>>

Init ==
    /\ table = [d \in Fd |-> None]
    /\ pc = "start" /\ image = None /\ segment = 0
    /\ mem \in [Area -> {Dirt}]
    /\ fd = NoFd /\ name = None
    /\ exists \in SUBSET File
    /\ went = {}
    /\ held = table
    /\ left = 0
    /\ RtcIdle
    /\ ConfInit

\* Mutant: the last handle is taken when none is free.
FindLast == IF \E d \in Fd : table[d] = None
            THEN CHOOSE d \in Fd : table[d] = None /\ \A e \in 0 .. d - 1 : table[e] # None
            ELSE MaxOpen - 1

\* find_free_fd: the first one.
FindFree == IF \E d \in Fd : table[d] = None
            THEN CHOOSE d \in Fd : table[d] = None /\ \A e \in 0 .. d - 1 : table[e] # None
            ELSE NoFd

\* fat32_open that succeeds, and fat32_close
Take(f) == FindFree # NoFd /\ table' = [table EXCEPT ![FindFree] = f]
Clear(d) == table' = [table EXCEPT ![d] = None]

\* sys_read and sys_write: descriptor 0 is the keyboard, 1 and 2 are the screen.
Source(d) == IF d = 0 THEN Keyboard ELSE table[d]
Sink(d) == IF d \in {1, 2} THEN Screen ELSE table[d]

\* Back to the shell; nothing is left of the program but its memory.
ToShell ==
    /\ pc' = "shell"
    /\ image' = None /\ segment' = 0 /\ fd' = NoFd /\ name' = None /\ went' = {}

-----------------------------------------------------------------------------
\* sysconf_load: without the file, or without a disk, the defaults stay.
OpenConf ==
    /\ pc = "start"
    /\ \/ /\ Take("config")
          /\ fd' = FindFree /\ pc' = "boot"
          /\ UNCHANGED <<image, segment, name, went, config>>
       \/ /\ ToShell
          /\ conf' = <<>>
          /\ UNCHANGED <<table, pos, line, bin_path>>
    /\ UNCHANGED <<mem, exists, held, left, clock>>

ReadConf ==
    /\ pc = "boot"
    /\ ReadBlock
    /\ UNCHANGED <<own, clock>>

CloseConf ==
    /\ pc = "boot"
    /\ LastLine
    /\ Clear(fd)
    /\ ToShell
    /\ UNCHANGED <<mem, exists, held, left, clock>>

-----------------------------------------------------------------------------
\* build_path and exec_run: the programs are in one directory.
Exec(p) ==
    /\ pc = "shell"
    /\ bin_path = DefaultBin
    /\ Take("program")
    /\ fd' = FindFree /\ image' = p /\ pc' = "load"
    /\ UNCHANGED <<segment, mem, name, exists, went, held, left, clock, config>>

\* There is no such file, or no handle.
NotFound ==
    /\ pc = "shell"
    /\ UNCHANGED vars

\* Mutant: the handle stays open when the program is empty or too big.
LoadKept ==
    /\ pc = "load"
    /\ IF image.size = 0 \/ image.size > HeapSize
       THEN ToShell /\ UNCHANGED table
       ELSE /\ Clear(fd)
            /\ \/ ToShell
               \/ /\ image.valid /\ pc' = "map" /\ segment' = 1 /\ fd' = NoFd
                  /\ UNCHANGED <<image, name, went>>
    /\ UNCHANGED <<mem, exists, held, left, clock, config>>

\* The whole file is read and its handle closed.  It may be empty, too big for
\* the heap, not all of it readable, or no ELF file.
Load ==
    /\ pc = "load"
    /\ Clear(fd)
    /\ \/ ToShell
       \/ /\ image.size # 0 /\ image.size <= HeapSize /\ image.valid
          /\ pc' = "map" /\ segment' = 1 /\ fd' = NoFd
          /\ UNCHANGED <<image, name, went>>
    /\ UNCHANGED <<mem, exists, held, left, clock, config>>

\* Mutant: what the file does not give is left as it is.
CopyOnly(s, a) == IF a \in FromFile(s) THEN image.bytes[s.offset + (a - s.vaddr) + 1] ELSE mem[a]

\* memcpy, memset
Fill(s, a) ==
    IF a \in FromFile(s) THEN image.bytes[s.offset + (a - s.vaddr) + 1]
    ELSE IF a \in Zeroed(s) THEN 0 ELSE mem[a]

\* One turn of elf_load: a header or a segment that is not in the file ends it.
MapSegment ==
    /\ pc = "map" /\ segment <= Len(image.headers)
    /\ LET s == image.headers[segment] IN
       \/ /\ s.end > image.size \/ (s.load /\ s.offset + s.filesz > image.size)
          /\ ToShell
          /\ UNCHANGED mem
       \/ /\ s.end <= image.size /\ (s.load => s.offset + s.filesz <= image.size)
          /\ mem' = IF s.load THEN [a \in Area |-> Fill(s, a)] ELSE mem
          /\ segment' = segment + 1
          /\ UNCHANGED <<pc, image, fd, name, went>>
    /\ UNCHANGED <<table, exists, held, left, clock, config>>

\* The program is called; a file it is to use is named on the command line.
Call ==
    /\ pc = "map" /\ segment > Len(image.headers)
    /\ IF image.entry = 0
       THEN ToShell
       ELSE /\ pc' = "main" /\ segment' = 0
            /\ name' \in IF image.main \in {"cat", "write"} THEN File ELSE {None}
            /\ UNCHANGED <<image, fd, went>>
    /\ UNCHANGED <<table, mem, exists, held, left, clock, config>>

-----------------------------------------------------------------------------
\* A program writes to its memory and to no other.
Scribble ==
    /\ pc = "main" /\ at = 0
    /\ mem' = [a \in Area |->
                 IF \E n \in DOMAIN image.headers : LET s == image.headers[n] IN
                      s.load /\ a \in FromFile(s) \cup Zeroed(s)
                 THEN Dirt ELSE mem[a]]
    /\ UNCHANGED <<table, pc, image, segment, fd, name, exists, went, held, left, clock, config>>

\* open in cat and in write: -1 without the file, without a handle, or if the
\* directory cannot be read.  Only write goes on then.
OpenNamed ==
    /\ pc = "main" /\ image.main \in {"cat", "write"}
    /\ \/ /\ name \in exists /\ Take(name)
          /\ fd' = FindFree /\ pc' = "io"
          /\ UNCHANGED <<image, segment, name, went>>
       \/ IF image.main = "write"
          THEN pc' = "create" /\ UNCHANGED <<table, image, segment, fd, name, went>>
          ELSE ToShell /\ UNCHANGED table
    /\ UNCHANGED <<mem, exists, held, left, clock, config>>

\* create in write, and the second open
CreateNamed ==
    /\ pc = "create"
    /\ \/ name \notin exists /\ exists' = exists \cup {name} /\ pc' = "open"
          /\ UNCHANGED <<image, segment, fd, name, went>>
       \/ ToShell /\ UNCHANGED exists
    /\ UNCHANGED <<table, mem, held, left, clock, config>>

OpenCreated ==
    /\ pc = "open"
    /\ \/ /\ Take(name) /\ fd' = FindFree /\ pc' = "io"
          /\ UNCHANGED <<image, segment, name, went>>
       \/ ToShell /\ UNCHANGED table
    /\ UNCHANGED <<mem, exists, held, left, clock, config>>

\* A block of cat, or a word of write.  A read from the keyboard gives what has
\* been typed ahead and then waits for a key that does not come (see Keyboard).
InOut ==
    /\ pc = "io"
    /\ IF image.main = "cat"
       THEN /\ went' = went \cup {Source(fd)}
            /\ pc' \in IF Source(fd) = Keyboard THEN {"io", "stopped"} ELSE {"io"}
       ELSE /\ went' = went \cup {Sink(fd)}
            /\ UNCHANGED pc
    /\ UNCHANGED <<table, image, segment, mem, fd, name, exists, held, left, clock, config>>

\* write has no more words; cat has read 0 bytes, which the keyboard never gives.
CloseNamed ==
    /\ pc = "io"
    /\ IF image.main = "cat" THEN Source(fd) # Keyboard ELSE went # {}
    /\ Clear(fd)
    /\ ToShell
    /\ UNCHANGED <<mem, exists, held, left, clock, config>>

\* cp: SYS_COPY has two files open while it runs.
Copy ==
    /\ pc = "main" /\ image.main = "cp"
    /\ \/ /\ \E d, e \in Fd : d # e /\ table[d] = None /\ table[e] = None
          /\ \E f \in exists, g \in File \ exists : exists' = exists \cup {g}
       \/ UNCHANGED exists
    /\ ToShell
    /\ UNCHANGED <<table, mem, held, left, clock, config>>

\* date
GetTime ==
    /\ pc = "main" /\ image.main = "date"
    /\ RtcNext
    /\ UNCHANGED <<own, config>>

DateReturn ==
    /\ pc = "main" /\ image.main = "date" /\ at = 0
    /\ ToShell
    /\ UNCHANGED <<table, mem, exists, held, left, clock, config>>

-----------------------------------------------------------------------------
\* Any other program may open files and need not close them.
OpenAny(f) ==
    /\ pc = "main" /\ image.main = "any"
    /\ f \in exists
    /\ Take(f)
    /\ held' = [held EXCEPT ![FindFree] = f]
    /\ UNCHANGED <<pc, image, segment, mem, fd, name, exists, went, left, clock, config>>

CloseAny(d) ==
    /\ pc = "main" /\ image.main = "any"
    /\ held[d] # None
    /\ Clear(d)
    /\ held' = [held EXCEPT ![d] = None]
    /\ UNCHANGED <<pc, image, segment, mem, fd, name, exists, went, left, clock, config>>

\* main returns; nobody closes what it left open.
ReturnAny ==
    /\ pc = "main" /\ image.main = "any"
    /\ left' = left + Cardinality({d \in Fd : held[d] # None})
    /\ held' = [d \in Fd |-> None]
    /\ ToShell
    /\ UNCHANGED <<table, mem, exists, clock, config>>

\* exit in userlib/hazle.c: SYS_EXIT does return, and then there is while (1).
ExitAny ==
    /\ pc = "main" /\ image.main = "any"
    /\ pc' = "stopped"
    /\ UNCHANGED <<table, image, segment, mem, fd, name, exists, went, held, left, clock, config>>

Stopped ==
    /\ pc = "stopped"
    /\ UNCHANGED vars

Next ==
    \/ OpenConf \/ ReadConf \/ CloseConf
    \/ NotFound \/ Load \/ MapSegment \/ Call
    \/ Scribble \/ OpenNamed \/ CreateNamed \/ OpenCreated \/ InOut \/ CloseNamed
    \/ Copy \/ GetTime \/ DateReturn
    \/ ReturnAny \/ ExitAny \/ Stopped
    \/ \E p \in Image : Exec(p)
    \/ \E f \in File : OpenAny(f)
    \/ \E d \in Fd : CloseAny(d)

Spec == Init /\ [][Next]_vars

-----------------------------------------------------------------------------
\* A descriptor stands for the file it was opened on until it is closed, also
\* when programs before left theirs open: open never gives out a number that is
\* in use, nor one that exec_run or the running command has.
HandlesAreOwn ==
    [][/\ \A d \in Fd : held[d] # None =>
            table[d] = held[d] /\ d # fd /\ held'[d] \in {held[d], None}
       /\ fd # NoFd => table[fd] \in {name, "program", "config"}]_vars

\* Back in the shell the handles in use are those that programs have left open:
\* neither reading the configuration, nor a program that cannot be run, nor a
\* command, however it ends, keeps one.  The table fills up by no other way.
NothingLeftOpen ==
    pc = "shell" => Cardinality({d \in Fd : table[d] # None}) = left

\* When a program is called, each of its segments holds the bytes of its file and
\* then zeros, whatever ran before it and however elf_load was left then.
StartsClean ==
    [][pc = "map" /\ pc' = "main" =>
        \A n \in DOMAIN image.headers : LET s == image.headers[n] IN
          s.load => /\ \A a \in FromFile(s) : mem[a] = image.bytes[s.offset + (a - s.vaddr) + 1]
                    /\ \A a \in Zeroed(s) : mem[a] = 0]_vars

\* The words of `write' are in the file it was given, as long as every program
\* before it closed what it opened: descriptor 0 is then free for it.
WordsReachFile == image # None /\ image.main = "write" /\ left = 0 => went \subseteq {name}

\* The configuration that is in force is what the last line for it says, wherever
\* the blocks of the file ended, for a file of at most one cluster; the defaults if
\* there is no such line.
ConfigIsRight ==
    [][pc = "boot" /\ pc' # "boot" /\ pos = Len(conf) /\ Len(conf) =< ClusterSize =>
         bin_path' = Configured(conf)]_vars

-----------------------------------------------------------------------------
\* Not so: a file of more than a cluster is the configuration (ProgramDeviations.cfg).
LongConfigIsRight ==
    [][pc = "boot" /\ pc' # "boot" /\ pos = Len(conf) => bin_path' = Configured(conf)]_vars

\* Not so: what `cat' shows comes from the file (ProgramDeviations.cfg).
CatShowsFile == image # None /\ image.main = "cat" => went \subseteq {name}

\* Not so: write puts its words into the file also when a program before it has
\* left a file open (ProgramDeviations.cfg).
WordsAlwaysReachFile == image # None /\ image.main = "write" => went \subseteq {name}
=============================================================================
