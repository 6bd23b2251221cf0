------------------------------- MODULE Sysconf -------------------------------
(***************************************************************************)
(* The configuration file, read at start by sysconf_load                   *)
(* (src/kernel/sysconf.c): in blocks of BufferSize characters, from which  *)
(* lines "key = value" are put together one character at a time.  Of the   *)
(* keys, Bin is the one that has an effect: where the shell looks for      *)
(* programs.  A file of more than a cluster is not read as it stands.      *)
(***************************************************************************)
EXTENDS Integers, Sequences

CONSTANTS
    ConfFile,       \* contents the file may have
    Bin, DefaultBin,\* the key, and the value if there is no such line
    BufferSize,     \* of a read
    ClusterSize,    \* of the disk
    LineSize,       \* of the line that is put together
    KeySize         \* of a key and of a value

ASSUME SysconfAssumption ==
    /\ ConfFile \subseteq Seq(STRING)
    /\ Bin \in Seq(STRING) /\ DefaultBin \in Seq(STRING)
    /\ BufferSize \in Nat \ {0} /\ ClusterSize \in Nat \ {0} /\ ClusterSize % BufferSize = 0
    /\ LineSize \in Nat \ {0} /\ KeySize \in Nat \ {0}

VARIABLES
    conf,       \* the file
    pos,        \* how far it has been read
    line,       \* line[0 .. line_pos - 1]
    bin_path    \* config.bin_path

config == <<conf, pos, line, bin_path>>

Break == {"nl", "cr"}

Minimum(a, b) == IF a < b THEN a ELSE b
Cut(s, n) == SubSeq(s, 1, Minimum(Len(s), n))

\* trim; a line has no line ends in it, so that only blanks go.
Trim(s) ==
    LET Kept == {i \in DOMAIN s : s[i] # "sp"}
    IN  IF Kept = {} THEN <<>>
        ELSE SubSeq(s, CHOOSE i \in Kept : \A j \in Kept : i <= j,
                       CHOOSE i \in Kept : \A j \in Kept : i >= j)

\* Where parse_line finds the end of the key; it looks no further than KeySize.
KeyEnds(l) == {i \in DOMAIN l : l[i] = "=" /\ i <= KeySize}
KeyEnd(l) == CHOOSE i \in KeyEnds(l) : \A j \in KeyEnds(l) : i <= j

\* parse_line for the one key: whether l is a line for it, and the value
GivesBin(l) ==
    /\ l # <<>> /\ l[1] \notin {"#", "["}
    /\ KeyEnds(l) # {} /\ Trim(SubSeq(l, 1, KeyEnd(l) - 1)) = Bin
BinOf(l) == Trim(Cut(SubSeq(l, KeyEnd(l) + 1, Len(l)), KeySize - 1))

ParseLine(l, path) == IF GivesBin(l) THEN BinOf(l) ELSE path

\* One character of a block
TakeChar(c, s) ==
    IF c \in Break
    THEN [line |-> <<>>, path |-> IF s.line # <<>> THEN ParseLine(s.line, s.path) ELSE s.path]
    ELSE IF Len(s.line) < LineSize - 1 THEN [s EXCEPT !.line = Append(@, c)]
    ELSE s

\* Mutant: every block begins a line.
TakeBlockFresh(block) ==
    LET after[k \in 0 .. Len(block)] ==
          IF k = 0 THEN [line |-> <<>>, path |-> bin_path] ELSE TakeChar(block[k], after[k - 1])
    IN  after[Len(block)]

\* The loop over the characters of a block
TakeBlock(block) ==
    LET after[k \in 0 .. Len(block)] ==
          IF k = 0 THEN [line |-> line, path |-> bin_path] ELSE TakeChar(block[k], after[k - 1])
    IN  after[Len(block)]

ConfInit ==
    /\ conf \in ConfFile /\ pos = 0
    /\ line = <<>>
    /\ bin_path = DefaultBin

\* One turn of the loop over blocks.  A cluster is a number of blocks (512 bytes and
\* a power of two times as many), so that no read goes over the end of one; and
\* fat32_read goes on to the next cluster only inside a read (file.c:175).  The handle
\* therefore stays on the first cluster, and its blocks come over and over.
ReadBlock ==
    /\ pos < Len(conf)
    /\ LET place == pos % ClusterSize
           size == Minimum(BufferSize, Len(conf) - pos)
           s == TakeBlock(SubSeq(conf, place + 1, place + size))
       IN  pos' = pos + size /\ line' = s.line /\ bin_path' = s.path
    /\ UNCHANGED conf

\* Nothing more can be read, or the cluster cannot; what there is of a line is
\* parsed.  The file is not looked at again.
LastLine ==
    /\ bin_path' = IF line # <<>> THEN ParseLine(line, bin_path) ELSE bin_path
    /\ line' = <<>> /\ conf' = <<>> /\ pos' = 0

-----------------------------------------------------------------------------
\* The lines of a text, and what the last of them that gives Bin says, wherever
\* the blocks end.
LineAt(t, i, j) ==
    /\ \A k \in i .. j : t[k] \notin Break
    /\ i > 1 => t[i - 1] \in Break
    /\ j < Len(t) => t[j + 1] \in Break

\* A line as it is kept, and the lines that give Bin
Stored(t, r) == Cut(SubSeq(t, r[1], r[2]), LineSize - 1)
Saying(t) ==
    {r \in (1 .. Len(t)) \X (1 .. Len(t)) :
        r[1] <= r[2] /\ LineAt(t, r[1], r[2]) /\ GivesBin(Stored(t, r))}

Configured(t) ==
    IF Saying(t) = {} THEN DefaultBin
    ELSE BinOf(Stored(t, CHOOSE r \in Saying(t) : \A q \in Saying(t) : q[1] <= r[1]))
=============================================================================
