------------------------------ MODULE Discovery ------------------------------
(***************************************************************************)
(* Which files a run looks at: the walk of the directories it was given,   *)
(* the filters, and the identity that tells two ways to a file from two    *)
(* files.                                                                  *)
(*                                                                         *)
(* A path is absolute and clean, a sequence of names.  A file system holds *)
(* directories, files and links at real paths (no link on the way), and    *)
(* the real path behind every path that a run may mention.  Names          *)
(* are ordered by the sequence NameOrder; the code orders paths bytewise,  *)
(* which differs where a name continues another.                           *)
(***************************************************************************)
EXTENDS Naturals, Sequences, SequencesExt, FiniteSets, Ordering

CONSTANTS
    NameOrder,    \* the names, in order
    Hidden,       \* names that begin with a dot or an underscore
    Extension,    \* Extension[n]: the suffix of the name
    Tests,        \* names that end in _test.go
    Foreign       \* names of files of other systems or architectures

ASSUME NamesAssumption == IsSequence(NameOrder)

Names == Range(NameOrder)

Rank(n) == CHOOSE i \in DOMAIN NameOrder : NameOrder[i] = n

\* Name by name; a path comes before the paths that continue it.
PathLess(p, q) ==
    \E i \in DOMAIN q :
        /\ i - 1 <= Len(p)
        /\ \A j \in 1 .. i - 1 : p[j] = q[j]
        /\ i \in DOMAIN p => Rank(p[i]) < Rank(q[i])

Sorted(paths) == Ranked(paths, {e \in paths \X paths : PathLess(e[1], e[2])})

\* Every path with its links followed, as EvalSymlinks returns it.
RealPaths(node, paths) ==
    LET real[p \in paths] ==
            IF p = <<>> THEN <<>>
            ELSE LET q == Append(real[Front(p)], Last(p))
                 IN  IF q \in DOMAIN node /\ node[q].type = "link" THEN real[node[q].to] ELSE q
    IN  real

RealPath(fs, p) == fs.real[p]
At(fs, p) == fs.node[RealPath(fs, p)]

Exists(fs, p) == RealPath(fs, p) \in DOMAIN fs.node
IsDirectory(fs, p) == Exists(fs, p) /\ At(fs, p).type = "dir"

\* A file that is there to be read and that the parser takes.
Parses(fs, p) == Exists(fs, p) /\ At(fs, p).type = "file" /\ At(fs, p).parses

\* A path with three dots at its end names the directory before them.
DiscoveryRoot(p) == IF Last(p) = "..." THEN Front(p) ELSE p

SkippedDirectory(n) == n \in Hidden \cup {"vendor", "node_modules", "testdata"}

\* A file of another system, by its name or by its header, is out of the build.
InBuildContext(fs, p) ==
    Extension[Last(p)] = "go" /\ Exists(fs, p) =>
        Last(p) \notin Foreign /\ At(fs, p).builds

\* Patterns and substrings are taken as whole names.
Within(part, p) == \E i \in DOMAIN p : IsPrefix(part, SubSeq(p, i, Len(p)))

Included(p, filter) ==
    /\ Extension[Last(p)] \in filter.suffixes
    /\ filter.ignoreTests => Last(p) \notin Tests
    /\ \A part \in filter.exclude \cup filter.patterns : ~ Within(part, p)

\* The files a walk of the directory root hands on, in the order of the walk.
WalkDir(fs, root, filter) ==
    Sorted({p \in DOMAIN fs.node :
              /\ IsStrictPrefix(root, p)
              /\ fs.node[p].type # "dir"
              /\ \A i \in Len(root) + 1 .. Len(p) - 1 : ~ SkippedDirectory(p[i])
              /\ Last(p) \notin Hidden
              /\ InBuildContext(fs, p)
              /\ Included(p, filter)})

\* The files behind one path argument that exists.
Sources(fs, arg, filter) ==
    LET root == DiscoveryRoot(arg)
    IN  IF IsDirectory(fs, root) THEN WalkDir(fs, RealPath(fs, root), filter)
        ELSE IF Included(root, filter) THEN <<root>> ELSE <<>>

\* Mutation: two ways to a file are two files.
TextualIdentity(fs, p) == p

Identity(fs, p) == RealPath(fs, p)

\* A file is added under the first name it is met by.
AddSource(fs, out, p) ==
    IF \E i \in DOMAIN out : Identity(fs, out[i]) = Identity(fs, p) THEN out
    ELSE Append(out, p)

AddSources(fs, out, new) ==
    LET added[n \in 0 .. Len(new)] ==
            IF n = 0 THEN out ELSE AddSource(fs, added[n - 1], new[n])
    IN  added[Len(new)]

\* Mutation: the directory as it was written.
TextualKey(fs, p, name) == [dir |-> Front(p), name |-> name]

\* The directory and the name of the package a file belongs to.
PackageKey(fs, p, name) == [dir |-> RealPath(fs, Front(p)), name |-> name]
=============================================================================
