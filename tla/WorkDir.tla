------------------------------- MODULE WorkDir -------------------------------
(***************************************************************************)
(* The current directory: fat32_change_dir (src/drivers/fat32/mount.c),    *)
(* which keeps a cluster and a path name side by side, and parse_path      *)
(* (file.c), which finds the directory of the files named relative to it.  *)
(* The tree does not change here; a path is the sequence of its segments.  *)
(***************************************************************************)
EXTENDS Integers, SequencesExt

CONSTANTS
    Dir,            \* directories, by their first clusters
    Root,           \* fs.root_cluster
    Seg,            \* names of 8.3 form
    Child,          \* what a name stands for in a directory
    Up,             \* the cluster in a directory's ".." entry; other systems
                    \* write 0 for the root there
    NoDir,          \* the value of Child for a file or for nothing
    MaxSegs,        \* bound: segments in an argument
    MaxDepth        \* segments that fit in current_path (FAT32_MAX_PATH)

ASSUME WorkDirAssumption ==
    /\ Root \in Dir /\ 0 \notin Dir /\ NoDir \notin Dir
    /\ Seg \cap {".", ".."} = {}
    /\ Child \in [Dir -> [Seg -> (Dir \ {Root}) \cup {NoDir}]]
    /\ \A d \in Dir \ {Root} :
         \E p \in Dir, s \in Seg :
           /\ Child[p][s] = d
           /\ \A q \in Dir, t \in Seg : Child[q][t] = d => q = p /\ t = s
           /\ Up[d] \in IF p = Root THEN {0, Root} ELSE {p}
    /\ MaxSegs \in Nat /\ MaxDepth \in Nat

Here == "."
Back == ".."
Segment == Seg \cup {Here, Back}
PathArg == [abs : BOOLEAN, segs : UNION {[1 .. k -> Segment] : k \in 0 .. MaxSegs}]

VARIABLES
    dir,        \* fs.current_directory
    path,       \* fs.current_path; <<>> is "/", or "" after an absolute argument
                \* has failed, from which the next call goes on as from "/"
    astray      \* history: why path may have lost its way since it was last set

dirVars == <<dir, path, astray>>

Reason == {"failed", "dots", "depth"}
TypeOK ==
    /\ dir \in Dir
    /\ path \in Seq(Segment) /\ Len(path) =< MaxDepth
    /\ astray \subseteq Reason

\* fat32_mount
DirInit == dir = Root /\ path = <<>> /\ astray = {}

-----------------------------------------------------------------------------
\* fat32_find_entry for a directory: the root has no dot entries, and nothing is
\* found in cluster 0.
Lookup(d, s) ==
    IF d \notin Dir THEN NoDir
    ELSE CASE s \in Seg -> Child[d][s]
           [] s = Here /\ d # Root -> d
           [] s = Back /\ d # Root -> Up[d]
           [] OTHER -> NoDir

\* Mutant: the 0 of a ".." entry is taken for a cluster.
ClusterAsIs(c) == c

\* fat32_change_dir takes a 0 for the root.
ClusterOf(c) == IF c = 0 THEN Root ELSE c

\* A turn of its loop: the segment is looked up, then appended if it fits.
Step(w, s) ==
    LET d == Lookup(w.dir, s)
    IN  IF ~w.ok THEN w
        ELSE IF d = NoDir THEN [w EXCEPT !.ok = FALSE]
        ELSE [w EXCEPT !.dir = ClusterOf(d),
                       !.path = IF Len(w.path) < MaxDepth THEN Append(w.path, s) ELSE w.path,
                       !.over = w.over \/ Len(w.path) = MaxDepth]

Begin(arg) ==
    [dir |-> IF arg.abs THEN Root ELSE dir, path |-> IF arg.abs THEN <<>> ELSE path,
     ok |-> TRUE, over |-> FALSE]

Walk(arg) ==
    LET at[k \in 0 .. Len(arg.segs)] ==
          IF k = 0 THEN Begin(arg) ELSE Step(at[k - 1], arg.segs[k])
    IN  at[Len(arg.segs)]

Alone(arg, s) == ~arg.abs /\ arg.segs = <<s>>

\* "/", and the shell's `cd' without an argument.
ChangeRoot(arg) ==
    /\ arg.abs /\ arg.segs = <<>>
    /\ dir' = Root /\ path' = <<>> /\ astray' = {}

\* Mutant: ".." leaves the path alone.
ChangeBackOnly(arg) ==
    /\ Alone(arg, Back)
    /\ Lookup(dir, Back) # NoDir
    /\ dir' = ClusterOf(Lookup(dir, Back))
    /\ UNCHANGED <<path, astray>>

\* "..": the last segment of the path is taken off, whatever it is.
ChangeBack(arg) ==
    /\ Alone(arg, Back)
    /\ Lookup(dir, Back) # NoDir
    /\ dir' = ClusterOf(Lookup(dir, Back))
    /\ path' = IF path = <<>> THEN <<>> ELSE Front(path)
    /\ astray' = IF path # <<>> /\ Last(path) \notin Seg THEN astray \cup {"dots"} ELSE astray

\* Any other argument, "../" and "./" among them; on failure the directory stays and
\* the path does not: an absolute argument has emptied it before anything is looked up.
Change(arg) ==
    LET w == Walk(arg)
    IN  /\ dir' = IF w.ok THEN w.dir ELSE dir
        /\ path' = w.path
        /\ astray' = (IF arg.abs /\ w.ok THEN {} ELSE astray)
                       \cup (IF w.over THEN {"depth"} ELSE {})
                       \cup (IF w.ok \/ (~arg.abs /\ w.path = path) THEN {} ELSE {"failed"})

DirNext == \E arg \in PathArg : ChangeRoot(arg) \/ ChangeBack(arg) \/ Change(arg)

DirSpec == DirInit /\ [][DirNext]_dirVars

-----------------------------------------------------------------------------
\* Where a path leads in the tree, dots and all.
Parent(d) == IF d = Root \/ Up[d] = 0 THEN Root ELSE Up[d]
Follow(d, s) == IF d = NoDir \/ s = Here THEN d
                ELSE IF s = Back THEN Parent(d) ELSE Child[d][s]
Leads(d, segs) ==
    LET at[k \in 0 .. Len(segs)] == IF k = 0 THEN d ELSE Follow(at[k - 1], segs[k])
    IN  at[Len(segs)]

\* What `pwd' shows leads to the current directory, through all calls that
\* succeed and through those that fail before the path is touched: until a `..'
\* takes off a dot segment, a call fails half-way, or the path is cut.
PwdIsRight == astray = {} => Leads(Root, path) = dir

\* The same after calls that succeed only.
PwdAfterSuccess == astray \cap {"failed", "depth"} = {} => Leads(Root, path) = dir

\* The same with failed calls, but without dots and over-long paths.
PwdAfterFailure == astray \cap {"dots", "depth"} = {} => Leads(Root, path) = dir

\* A call that succeeds leads where its argument does, however much the path
\* is off: in particular never to cluster 0, and through dots as without.
ChangeIsRight ==
    \A arg \in PathArg :
        LET w == Walk(arg)
        IN  w.ok => w.dir = Leads(IF arg.abs THEN Root ELSE dir, arg.segs)

-----------------------------------------------------------------------------
\* Mutant: a relative name is looked up from the root.
ParseFromRoot(arg) ==
    LET at[k \in 0 .. Len(arg.segs) - 1] ==
          IF k = 0 THEN Root ELSE Lookup(at[k - 1], arg.segs[k])
    IN  at[Len(arg.segs) - 1]

\* parse_path: the directory of the last segment, by the same lookups but with
\* the clusters as they are; NoDir if a segment before it is not there.
Parse(arg) ==
    LET at[k \in 0 .. Len(arg.segs) - 1] ==
          IF k = 0 THEN (IF arg.abs THEN Root ELSE dir) ELSE Lookup(at[k - 1], arg.segs[k])
    IN  at[Len(arg.segs) - 1]

\* A file name is never looked up, nor a file created, in a wrong directory:
\* parse_path finds the one the name leads to, or one in which nothing is found.
NamedFile == {arg \in PathArg : arg.segs # <<>>}
ParsedDir(arg) == Leads(IF arg.abs THEN Root ELSE dir, Front(arg.segs))
ParseNeverWrong == \A arg \in NamedFile : Parse(arg) \in {ParsedDir(arg), 0, NoDir}

\* The commands that take a file find the directory `cd' finds.
ParseAgreesWithCd ==
    \A arg \in NamedFile :
        LET w == Walk([arg EXCEPT !.segs = Front(arg.segs)])
        IN  w.ok => Parse(arg) = w.dir
=============================================================================
