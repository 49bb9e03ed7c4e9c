-------------------------- MODULE RunPipeline_proof --------------------------
(***************************************************************************)
(* What one run of messgo guarantees, for every tree of files, every list  *)
(* of arguments, and every set of rules.                                   *)
(***************************************************************************)
EXTENDS RunPipeline, SequenceFacts_proof

Path == Seq(Names)

-----------------------------------------------------------------------------
(* The order of paths *)

LEMMA RankType ==
    ASSUME NEW n \in Names
    PROVE  Rank(n) \in Nat /\ NameOrder[Rank(n)] = n
<1>1. DOMAIN NameOrder \subseteq Nat
  BY NamesAssumption DEF IsSequence
<1>2. \E i \in DOMAIN NameOrder : NameOrder[i] = n
  BY DEF Names, Range
<1> QED BY <1>1, <1>2 DEF Rank

LEMMA PathLessIrreflexive ==
    ASSUME NEW p \in Path
    PROVE  ~ PathLess(p, p)
<1>1. \A i \in DOMAIN p : Rank(p[i]) \in Nat
  BY RankType DEF Path
<1> QED BY <1>1 DEF PathLess

LEMMA PathLessTransitive ==
    ASSUME NEW p \in Path, NEW q \in Path, NEW r \in Path, PathLess(p, q), PathLess(q, r)
    PROVE  PathLess(p, r)
<1>1. PICK i \in DOMAIN q : /\ i - 1 <= Len(p)
                            /\ \A k \in 1 .. i - 1 : p[k] = q[k]
                            /\ i \in DOMAIN p => Rank(p[i]) < Rank(q[i])
  BY DEF PathLess
<1>2. PICK j \in DOMAIN r : /\ j - 1 <= Len(q)
                            /\ \A k \in 1 .. j - 1 : q[k] = r[k]
                            /\ j \in DOMAIN q => Rank(q[j]) < Rank(r[j])
  BY DEF PathLess
<1>3. /\ DOMAIN p = 1 .. Len(p) /\ DOMAIN q = 1 .. Len(q) /\ DOMAIN r = 1 .. Len(r)
      /\ Len(p) \in Nat /\ Len(q) \in Nat /\ Len(r) \in Nat
  BY DEF Path
<1>4. /\ \A k \in DOMAIN p : Rank(p[k]) \in Nat
      /\ \A k \in DOMAIN q : Rank(q[k]) \in Nat
      /\ \A k \in DOMAIN r : Rank(r[k]) \in Nat
  BY RankType DEF Path
<1>5. CASE i < j
  <2>1. q[i] = r[i] /\ i \in DOMAIN r /\ \A k \in 1 .. i - 1 : q[k] = r[k]
    BY <1>2, <1>3, <1>5
  <2>2. /\ i - 1 <= Len(p) /\ \A k \in 1 .. i - 1 : p[k] = r[k]
        /\ i \in DOMAIN p => Rank(p[i]) < Rank(r[i])
    BY <1>1, <2>1
  <2> QED BY <2>1, <2>2 DEF PathLess
<1>6. CASE j <= i
  <2>1. \A k \in 1 .. j - 1 : p[k] = q[k] /\ k \in DOMAIN q
    BY <1>1, <1>3, <1>6
  <2>2. j - 1 <= Len(p) /\ j \in DOMAIN q /\ Rank(q[j]) < Rank(r[j])
    BY <1>1, <1>2, <1>3, <1>6
  <2>3. ASSUME j \in DOMAIN p PROVE Rank(p[j]) < Rank(r[j])
    <3>1. CASE j = i
      BY <1>1, <1>3, <1>4, <2>2, <2>3, <3>1
    <3>2. CASE j < i
      <4>1. p[j] = q[j]
        BY <1>1, <1>3, <3>2, <2>3
      <4> QED BY <4>1, <2>2
    <3> QED BY <1>3, <1>6, <3>1, <3>2
  <2> QED BY <1>2, <2>1, <2>2, <2>3 DEF PathLess
<1> QED BY <1>3, <1>5, <1>6

LEMMA PathLessTotal ==
    ASSUME NEW p \in Path, NEW q \in Path, p # q
    PROVE  PathLess(p, q) \/ PathLess(q, p)
<1> DEFINE Same(i) == i \in DOMAIN p /\ i \in DOMAIN q /\ p[i] = q[i]
           D == {i \in Nat \ {0} : ~ Same(i)}
<1>1. /\ DOMAIN p = 1 .. Len(p) /\ DOMAIN q = 1 .. Len(q)
      /\ Len(p) \in Nat /\ Len(q) \in Nat
  BY DEF Path
<1>2. PICK m \in D : \A i \in D : m <= i
  <2>1. Len(p) + 1 \in D
    BY <1>1
  <2>2. D \subseteq Nat
    OBVIOUS
  <2> HIDE DEF D
  <2> QED BY <2>1, <2>2, LeastNatural
<1>3. m \in Nat \ {0} /\ ~ Same(m)
  OBVIOUS
<1>4. \A k \in 1 .. m - 1 : Same(k)
  <2>1. \A k \in 1 .. m - 1 : k \in Nat \ {0} /\ ~ (m <= k)
    BY <1>3
  <2> QED BY <1>2, <2>1
<1>5. m - 1 <= Len(p) /\ m - 1 <= Len(q)
  <2>1. CASE m = 1
    BY <1>1, <2>1
  <2>2. CASE m # 1
    <3>1. m - 1 \in 1 .. m - 1
      BY <1>3, <2>2
    <3> QED BY <1>1, <1>4, <3>1
  <2> QED BY <2>1, <2>2
<1>6. CASE m \in DOMAIN p /\ m \in DOMAIN q
  <2>1. p[m] \in Names /\ q[m] \in Names /\ p[m] # q[m]
    BY <1>3, <1>6 DEF Path
  <2>2. Rank(p[m]) \in Nat /\ Rank(q[m]) \in Nat /\ Rank(p[m]) # Rank(q[m])
    BY <2>1, RankType
  <2>3. Rank(p[m]) < Rank(q[m]) \/ Rank(q[m]) < Rank(p[m])
    BY <2>2
  <2> QED BY <1>4, <1>5, <1>6, <2>3 DEF PathLess
<1>7. CASE m \notin DOMAIN p /\ m \in DOMAIN q
  BY <1>4, <1>5, <1>7 DEF PathLess
<1>8. CASE m \in DOMAIN p /\ m \notin DOMAIN q
  BY <1>4, <1>5, <1>8 DEF PathLess
<1>9. CASE m \notin DOMAIN p /\ m \notin DOMAIN q
  <2>1. Len(p) = m - 1 /\ Len(q) = m - 1
    BY <1>1, <1>3, <1>5, <1>9
  <2>2. \A k \in 1 .. Len(p) : p[k] = q[k]
    BY <1>4, <2>1
  <2>3. p = q
    BY <2>1, <2>2, SeqEqual DEF Path
  <2> QED BY <2>3
<1> QED BY <1>6, <1>7, <1>8, <1>9

\* Sorting a finite set of paths lists each of them once, in order.
LEMMA SortedPaths ==
    ASSUME NEW S, IsFiniteSet(S), S \subseteq Path
    PROVE  /\ Sorted(S) \in Seq(S) /\ Range(Sorted(S)) = S
           /\ \A i, j \in DOMAIN Sorted(S) : i < j => PathLess(Sorted(S)[i], Sorted(S)[j])
<1> DEFINE R == {e \in S \X S : PathLess(e[1], e[2])}
<1>1. \A x, y \in S : <<x, y>> \in R <=> PathLess(x, y)
  OBVIOUS
<1>2. Sorted(S) = Ranked(S, R)
  BY DEF Sorted
<1> HIDE DEF R
<1>3. StrictOrder(S, R)
  <2>1. \A x \in S : x \in Path
    OBVIOUS
  <2> QED BY <1>1, <2>1, PathLessIrreflexive, PathLessTransitive, PathLessTotal DEF StrictOrder
<1>4. /\ Sorted(S) \in Seq(S) /\ Range(Sorted(S)) = S
      /\ \A i, j \in DOMAIN Sorted(S) : i < j => <<Sorted(S)[i], Sorted(S)[j]>> \in R
  BY <1>2, <1>3, RankedEnumerates
<1>5. \A i \in DOMAIN Sorted(S) : Sorted(S)[i] \in S
  BY <1>4
<1> QED BY <1>1, <1>4, <1>5

-----------------------------------------------------------------------------
(* Finding files *)

\* What one path argument stands for is a list of paths.
LEMMA SourcesType ==
    ASSUME NEW tree \in FileSystems, NEW p \in Path, NEW filter
    PROVE  Sources(tree, p, filter) \in Seq(Path)
<1>1. IsFiniteSet(DOMAIN tree.node) /\ DOMAIN tree.node \subseteq Path
  BY TreesAssumption DEF Path
<1>2. ASSUME NEW root PROVE WalkDir(tree, root, filter) \in Seq(Path)
  <2> DEFINE S == {q \in DOMAIN tree.node :
              /\ IsStrictPrefix(root, q)
              /\ tree.node[q].type # "dir"
              /\ \A i \in Len(root) + 1 .. Len(q) - 1 : ~ SkippedDirectory(q[i])
              /\ Last(q) \notin Hidden
              /\ InBuildContext(tree, q)
              /\ Included(q, filter)}
  <2>1. WalkDir(tree, root, filter) = Sorted(S)
    BY DEF WalkDir
  <2>2. S \in SUBSET DOMAIN tree.node
    OBVIOUS
  <2> HIDE DEF S
  <2>3. IsFiniteSet(S) /\ S \subseteq Path
    BY <1>1, <2>2, FS_Subset
  <2> QED BY <2>1, <2>3, SortedPaths, SeqMonotonic
<1>3. DiscoveryRoot(p) \in Path
  <2>1. Front(p) \in Path
    <3>1. \A i \in 1 .. Len(p) - 1 : p[i] \in Names
      BY DEF Path
    <3>2. Len(p) - 1 \in Int /\ 1 \in Int
      BY DEF Path
    <3> QED BY <3>1, <3>2, SubSeqProperties DEF Front, Path
  <2> QED BY <2>1 DEF DiscoveryRoot
<1>4. <<DiscoveryRoot(p)>> \in Seq(Path) /\ <<>> \in Seq(Path)
  <2> HIDE DEF Path
  <2> QED BY <1>3
<1> QED BY <1>2, <1>4 DEF Sources

RealOf(tree, P) == {RealPath(tree, p) : p \in P}
Apart(tree, s) == \A i, j \in DOMAIN s : i # j => RealPath(tree, s[i]) # RealPath(tree, s[j])

LEMMA AddSourceApart ==
    ASSUME NEW tree, NEW P, NEW out \in Seq(P), NEW p \in P, Apart(tree, out)
    PROVE  /\ AddSource(tree, out, p) \in Seq(P) /\ Apart(tree, AddSource(tree, out, p))
           /\ RealOf(tree, Range(AddSource(tree, out, p)))
                = RealOf(tree, Range(out)) \cup {RealPath(tree, p)}
<1>1. CASE \E i \in DOMAIN out : RealPath(tree, out[i]) = RealPath(tree, p)
  BY <1>1 DEF AddSource, Identity, RealOf, Range
<1>2. CASE ~ \E i \in DOMAIN out : RealPath(tree, out[i]) = RealPath(tree, p)
  <2>1. AddSource(tree, out, p) = Append(out, p)
    BY <1>2 DEF AddSource, Identity
  <2>2. /\ Append(out, p) \in Seq(P) /\ Len(out) \in Nat
        /\ DOMAIN out = 1 .. Len(out) /\ DOMAIN Append(out, p) = 1 .. Len(out) + 1
        /\ \A i \in 1 .. Len(out) : Append(out, p)[i] = out[i]
        /\ Append(out, p)[Len(out) + 1] = p
    BY AppendProperties
  <2>3. Apart(tree, Append(out, p))
    BY <1>2, <2>2 DEF Apart
  <2>4. Range(Append(out, p)) = Range(out) \cup {p}
    BY <2>2 DEF Range
  <2> QED BY <2>1, <2>2, <2>3, <2>4 DEF RealOf
<1> QED BY <1>1, <1>2

\* Adding files keeps every file under one name only and forgets none.
LEMMA AddSourcesApart ==
    ASSUME NEW tree, NEW P, NEW out \in Seq(P), NEW new \in Seq(P), Apart(tree, out)
    PROVE  /\ AddSources(tree, out, new) \in Seq(P) /\ Apart(tree, AddSources(tree, out, new))
           /\ RealOf(tree, Range(AddSources(tree, out, new)))
                = RealOf(tree, Range(out)) \cup RealOf(tree, Range(new))
<1> DEFINE n == Len(new)
           Is(f, m) == f = [k \in 0 .. m |->
                              IF k = 0 THEN out ELSE AddSource(tree, f[k - 1], new[k])]
           added == CHOOSE f : Is(f, n)
<1>1. n \in Nat /\ DOMAIN new = 1 .. n /\ \A k \in 1 .. n : new[k] \in P
  OBVIOUS
<1>2. AddSources(tree, out, new) = added[n]
  BY DEF AddSources
<1>3. \E f : Is(f, n)
  <2> DEFINE Built == {m \in 0 .. n : \E f : Is(f, m)}
  <2>1. 0 \in Built
    <3>1. Is([k \in 0 .. 0 |-> out], 0)
      OBVIOUS
    <3>2. 0 \in 0 .. n
      BY <1>1
    <3> HIDE DEF Is, n
    <3> QED BY <3>1, <3>2
  <2>2. ASSUME NEW m \in 0 .. n - 1, m \in Built PROVE m + 1 \in Built
    <3>1. PICK f : Is(f, m)
      BY <2>2
    <3> DEFINE g == [k \in 0 .. m + 1 |->
                        IF k = 0 THEN out ELSE AddSource(tree, f[k - 1], new[k])]
    <3>2. \A k \in 0 .. m : f[k] = IF k = 0 THEN out ELSE AddSource(tree, f[k - 1], new[k])
      BY <3>1
    <3>3. \A k \in 0 .. m : g[k] = f[k]
      BY <3>2
    <3>4. \A k \in 0 .. m + 1 : k = 0 \/ k - 1 \in 0 .. m
      OBVIOUS
    <3>5. Is(g, m + 1)
      BY <3>3, <3>4
    <3>6. m + 1 \in 0 .. n
      BY <1>1
    <3> HIDE DEF Is, g, n
    <3> QED BY <3>5, <3>6
  <2>3. \A m \in 0 .. n : m \in Built
    <3> HIDE DEF Built, n
    <3> QED BY <1>1, <2>1, <2>2, Inductive
  <2>4. n \in 0 .. n
    BY <1>1
  <2> HIDE DEF Is, n
  <2> QED BY <2>3, <2>4
<1>4. Is(added, n)
  BY <1>3
<1> HIDE DEF added
<1>5. /\ added[0] = out
      /\ \A k \in 0 .. n - 1 : added[k + 1] = AddSource(tree, added[k], new[k + 1])
  <2>1. \A k \in 0 .. n : added[k] = IF k = 0 THEN out ELSE AddSource(tree, added[k - 1], new[k])
    BY <1>4
  <2>2. \A k \in 0 .. n - 1 : k + 1 \in 0 .. n /\ k + 1 # 0 /\ (k + 1) - 1 = k
    BY <1>1
  <2>3. 0 \in 0 .. n
    BY <1>1
  <2> HIDE DEF Is, n
  <2> QED BY <2>1, <2>2, <2>3
<1> DEFINE First(k) == {new[i] : i \in 1 .. k}
           Good == {k \in 0 .. n :
               /\ added[k] \in Seq(P) /\ Apart(tree, added[k])
               /\ RealOf(tree, Range(added[k])) = RealOf(tree, Range(out)) \cup RealOf(tree, First(k))}
<1>6. 0 \in Good
  <2>1. RealOf(tree, First(0)) = {} /\ 0 \in 0 .. n
    BY <1>1 DEF RealOf
  <2> HIDE DEF n, First
  <2> QED BY <1>5, <2>1
<1>7. ASSUME NEW k \in 0 .. n - 1, k \in Good PROVE k + 1 \in Good
  <2>1. k + 1 \in 0 .. n /\ new[k + 1] \in P
    BY <1>1
  <2>2. First(k + 1) = First(k) \cup {new[k + 1]}
    OBVIOUS
  <2>3. RealOf(tree, First(k + 1)) = RealOf(tree, First(k)) \cup {RealPath(tree, new[k + 1])}
    <3> HIDE DEF First
    <3> QED BY <2>2 DEF RealOf
  <2>4. added[k] \in Seq(P) /\ Apart(tree, added[k])
    BY <1>7
  <2>5. added[k + 1] = AddSource(tree, added[k], new[k + 1])
    BY <1>5
  <2>6. /\ added[k + 1] \in Seq(P) /\ Apart(tree, added[k + 1])
        /\ RealOf(tree, Range(added[k + 1]))
             = RealOf(tree, Range(added[k])) \cup {RealPath(tree, new[k + 1])}
    <3>1. \A s \in Seq(P), p \in P : Apart(tree, s) =>
             /\ AddSource(tree, s, p) \in Seq(P) /\ Apart(tree, AddSource(tree, s, p))
             /\ RealOf(tree, Range(AddSource(tree, s, p)))
                  = RealOf(tree, Range(s)) \cup {RealPath(tree, p)}
      BY AddSourceApart
    <3> HIDE DEF n, Good, Is, First
    <3> QED BY <2>1, <2>4, <2>5, <3>1
  <2>7. RealOf(tree, Range(added[k])) = RealOf(tree, Range(out)) \cup RealOf(tree, First(k))
    BY <1>7
  <2> HIDE DEF First, n
  <2> QED BY <2>1, <2>3, <2>6, <2>7
<1>8. n \in Good
  <2>1. n \in 0 .. n
    BY <1>1
  <2> HIDE DEF Good, n
  <2> QED BY <1>1, <1>6, <1>7, <2>1, Inductive
<1>9. First(n) = Range(new)
  BY <1>1 DEF Range
<1> HIDE DEF n, First
<1> QED BY <1>2, <1>8, <1>9

-----------------------------------------------------------------------------
(* What every variable holds *)

\* The phases that are entered with three positional arguments at hand.
Running == Stages \ {"start", "options", "done"}

ArgumentsInv ==
    /\ args \in ArgVectors /\ fs \in FileSystems
    /\ at \in Nat \ {0}
    /\ positionals \in Seq({args[i] : i \in DOMAIN args})
    /\ phase \in Running => Len(positionals) = 3

FilesInv ==
    /\ found \in Seq(Path)
    /\ unread \in Seq(Range(found)) /\ parsed \in Seq(Range(found))
    /\ phase \in {"start", "options", "renderer", "rulesets"} => found = <<>>
    /\ phase \in {"start", "options", "renderer", "rulesets", "discover"} =>
          unread = <<>> /\ parsed = <<>> /\ failed = {}
    /\ phase = "discover" => Apart(fs, found)

TypeInv == ArgumentsInv /\ FilesInv /\ TypeOK

LEMMA PathsType ==
    ASSUME ArgumentsInv, phase \in Running
    PROVE  /\ Paths \in Seq({Paths[i] : i \in DOMAIN Paths})
           /\ \A i \in DOMAIN Paths : PathOf(Paths[i]) \in Path
<1>1. PICK i \in DOMAIN args : positionals[1] = args[i]
  BY DEF ArgumentsInv
<1>2. Paths = Items(args[i])
  BY <1>1 DEF Paths
<1>3. args \in ArgVectors
  BY DEF ArgumentsInv
<1>4. IsSequence(Items(args[i]))
  BY <1>3, CommandAssumption
<1>5. \A n \in DOMAIN Items(args[i]) : PathOf(Items(args[i])[n]) \in Path
  BY <1>3, PathsAssumption DEF Path
<1> QED BY <1>2, <1>4, <1>5 DEF IsSequence

\* The files of a package are the parsed files with its key.
LEMMA GroupMembers ==
    ASSUME NEW S, parsed \in Seq(S), NEW k
    PROVE  /\ Group(k) \in Seq(Range(parsed))
           /\ Range(Group(k)) = {p \in Range(parsed) : KeyOf(p) = k}
<1> DEFINE I == {i \in DOMAIN parsed : KeyOf(parsed[i]) = k}
           members == Ascending(I)
<1>1. I \in SUBSET (1 .. Len(parsed)) /\ 1 .. Len(parsed) \subseteq Nat /\ Len(parsed) \in Int
  OBVIOUS
<1>2. IsFiniteSet(I) /\ I \subseteq Nat
  <2> HIDE DEF I
  <2>1. IsFiniteSet(1 .. Len(parsed))
    BY <1>1, FS_Interval
  <2> QED BY <1>1, <2>1, FS_Subset
<1>3. members \in Seq(I) /\ Range(members) = I
  <2> HIDE DEF I
  <2> QED BY <1>2, AscendingEnumerates
<1>4. Group(k) = [n \in DOMAIN members |-> parsed[members[n]]]
  BY DEF Group
<1> HIDE DEF members
<1>5. \A i \in I : parsed[i] \in Range(parsed)
  BY DEF Range
<1>6. Group(k) \in Seq(Range(parsed))
  <2> HIDE DEF I
  <2> QED BY <1>3, <1>4, <1>5
<1>7. Range(Group(k)) = {parsed[i] : i \in I}
  <2> HIDE DEF I
  <2> QED BY <1>3, <1>4 DEF Range
<1> QED BY <1>6, <1>7 DEF Range

LEMMA TypeStart == Init => TypeInv
<1> SUFFICES ASSUME Init PROVE TypeInv
  OBVIOUS
<1> USE DEF Init, CommandInit
<1>1. ArgumentsInv
  BY DEF ArgumentsInv, Running
<1>2. FilesInv
  BY DEF FilesInv
<1>3. phase = "start" /\ exit = NoExit
  OBVIOUS
<1>4. Range(parsed) = {} /\ DOMAIN facts = {} /\ Len(parsed) = 0
  BY DEF Range
<1>5. checked = 0 /\ failed = {} /\ writeError = FALSE
  OBVIOUS
<1>6. TypeOK
  <2>1. phase \in Stages /\ exit \in {NoExit, 0, 1, 2, 3} /\ (phase = "done") = (exit # NoExit)
    BY ONLY <1>3 DEF Stages
  <2>2. /\ Range(parsed) \cup failed \subseteq Range(found)
        /\ DOMAIN facts \subseteq Range(parsed) /\ writeError \in BOOLEAN
    BY ONLY <1>4, <1>5
  <2>3. checked \in 0 .. Len(parsed)
    BY ONLY <1>4, <1>5
  <2> QED BY ONLY <2>1, <2>2, <2>3 DEF TypeOK
<1> QED BY <1>1, <1>2, <1>6 DEF TypeInv

LEMMA ReadCommandType == TypeInv /\ ReadCommand => TypeInv'
<1> SUFFICES ASSUME TypeInv, ReadCommand PROVE TypeInv'
  OBVIOUS
<1> USE DEF TypeInv
<1>1. /\ FilesInv' /\ TypeOK' /\ args' = args /\ fs' = fs
      /\ at' \in Nat \ {0}
  <2> USE CommandAssumption DEF FilesInv, TypeOK, ArgumentsInv, Stages, ReadCommand, runVars, optionVars
  <2>1. CASE Start
    BY <2>1 DEF Start, Return
  <2>2. CASE EndOptions
    BY <2>2 DEF EndOptions, Return
  <2>3. ASSUME NEW a, Switch(a) \/ TakeValue(a) \/ RejectOption(a) \/ Positional(a)
        PROVE  /\ FilesInv' /\ TypeOK' /\ args' = args /\ fs' = fs
               /\ at' \in Nat \ {0}
    BY <2>3 DEF Switch, TakeValue, RejectOption, Positional, Reading, Return
  <2> QED BY <2>1, <2>2, <2>3 DEF ReadArguments
<1>2. positionals' \in Seq({args[i] : i \in DOMAIN args})
  <2> DEFINE A == {args[i] : i \in DOMAIN args}
  <2>1. positionals \in Seq(A)
    BY DEF ArgumentsInv
  <2>2. CASE UNCHANGED positionals
    BY <2>1, <2>2
  <2>3. ASSUME NEW a, Positional(a) PROVE positionals' \in Seq(A)
    <3>1. a \in A /\ positionals' = Append(positionals, a)
      BY <2>3 DEF Positional, Reading
    <3> HIDE DEF A
    <3> QED BY <2>1, <3>1
  <2> QED BY <2>1, <2>2, <2>3
          DEF ReadCommand, ReadArguments, Start, EndOptions, Switch, TakeValue, RejectOption, optionVars
<1>3. phase' \in Running => Len(positionals') = 3
  <2> USE DEF ReadCommand, Running, Stages, Return
  <2>1. CASE EndOptions
    BY <2>1 DEF EndOptions, ThreePositionals, optionVars
  <2>2. CASE Start
    BY <2>2 DEF Start
  <2>3. ASSUME NEW a, Switch(a) \/ TakeValue(a) \/ RejectOption(a) \/ Positional(a)
        PROVE  phase' \notin Running
    BY <2>3 DEF Switch, TakeValue, RejectOption, Positional, Reading
  <2> QED BY <2>1, <2>2, <2>3 DEF ReadArguments
<1> QED BY <1>1, <1>2, <1>3 DEF ArgumentsInv

LEMMA TypeStep == TypeInv /\ [Next \/ Exited]_vars => TypeInv'
<1> SUFFICES ASSUME TypeInv, Next \/ UNCHANGED vars PROVE TypeInv'
  BY DEF Exited
<1> USE CommandAssumption DEF TypeInv, ArgumentsInv, FilesInv, TypeOK, Stages, Running, Return,
        optionVars, runVars
<1>1. CASE ReadCommand
  BY <1>1, ReadCommandType
<1>2. CASE SelectRenderer
  BY <1>2 DEF SelectRenderer
<1>3. CASE LoadRuleSets
  BY <1>3 DEF LoadRuleSets, Apart
<1>4. CASE Discover
  <2> DEFINE next == AddSources(fs, found, Sources(fs, PathOf(Paths[at]), Filter))
  <2>1. next \in Seq(Path) /\ Apart(fs, next)
    <3>1. PathOf(Paths[at]) \in Path
      BY <1>4, PathsType DEF Discover
    <3>2. Sources(fs, PathOf(Paths[at]), Filter) \in Seq(Path)
      BY <3>1, SourcesType
    <3>3. found \in Seq(Path) /\ Apart(fs, found)
      BY <1>4 DEF Discover
    <3> HIDE DEF TypeInv
    <3> QED BY <3>2, <3>3, AddSourcesApart
  <2>2. found' = found \/ found' = next
    BY <1>4 DEF Discover
  <2> HIDE DEF next
  <2>3. /\ fs' = fs /\ phase' \in {"discover", "done"} /\ phase = "discover"
        /\ parsed' = parsed /\ unread' = unread /\ failed' = failed
    BY <1>4 DEF Discover
  <2>4. FilesInv'
    <3>1. \A S : <<>> \in Seq(S)
      OBVIOUS
    <3> QED BY <2>1, <2>2, <2>3, <3>1 DEF Apart
  <2>5. Range(<<>>) = {}
    BY DEF Range
  <2> QED BY <1>4, <2>3, <2>4, <2>5 DEF Discover
<1>5. CASE SortSources
  <2>1. Sorted(Range(found)) \in Seq(Path)
    <3>1. IsFiniteSet(Range(found)) /\ Range(found) \subseteq Path
      <4>1. found \in Surjection(1 .. Len(found), Range(found)) /\ Len(found) \in Nat
        BY DEF Surjection, Range
      <4>2. IsFiniteSet(1 .. Len(found))
        BY <4>1, FS_Interval
      <4> HIDE DEF TypeInv
      <4>3. found \in Seq(Path)
        BY DEF TypeInv
      <4> QED BY <4>1, <4>2, <4>3, FS_Surjection, RangeOfSeq
    <3> QED BY <3>1, SortedPaths, SeqMonotonic
  <2>2. found' \in Seq(Range(found'))
    BY <1>5, <2>1, SeqOfRange DEF SortSources
  <2>3. Range(<<>>) = {} /\ <<>> \in Seq(Range(found'))
    BY DEF Range
  <2> QED BY <1>5, <2>1, <2>2, <2>3 DEF SortSources
<1>6. CASE ParseFile
  <2>1. /\ Head(unread) \in Range(found) /\ Tail(unread) \in Seq(Range(found))
        /\ Append(parsed, Head(unread)) \in Seq(Range(found))
        /\ Range(parsed) \subseteq Range(Append(parsed, Head(unread)))
        /\ Len(Append(parsed, Head(unread))) = Len(parsed) + 1 /\ Len(parsed) \in Nat
    <3>1. unread # <<>> /\ unread \in Seq(Range(found)) /\ parsed \in Seq(Range(found))
      BY <1>6 DEF ParseFile
    <3>2. Range(unread) \subseteq Range(found)
      BY <3>1, RangeOfSeq
    <3> HIDE DEF TypeInv
    <3> QED BY <3>1, <3>2, HeadTailRange, AppendRange
  <2>2. Range(Append(parsed, Head(unread))) \subseteq Range(found)
    <3> HIDE DEF TypeInv
    <3> QED BY <2>1, RangeOfSeq
  <2>3. /\ unread' = Tail(unread) /\ found' = found /\ phase = "parse"
        /\ \/ parsed' = parsed /\ failed' = failed \cup {Head(unread)}
           \/ parsed' = Append(parsed, Head(unread)) /\ failed' = failed
        /\ UNCHANGED <<args, at, optionVars, phase, exit, fs, facts, checked, writeError>>
    BY <1>6 DEF ParseFile
  <2>4. ArgumentsInv'
    BY <2>3
  <2>5. FilesInv'
    BY <2>1, <2>3
  <2>6. TypeOK'
    <3>1. checked' \in 0 .. Len(parsed')
      <4>1. checked' = checked /\ checked \in 0 .. Len(parsed)
        BY <2>3
      <4>2. Len(parsed') = Len(parsed) \/ Len(parsed') = Len(parsed) + 1
        BY <2>1, <2>3
      <4> QED BY ONLY <2>1, <4>1, <4>2
    <3>2. /\ Range(parsed') \cup failed' \subseteq Range(found')
          /\ DOMAIN facts' \subseteq Range(parsed')
      BY <2>1, <2>2, <2>3
    <3> QED BY <2>3, <3>1, <3>2
  <2> QED BY <2>4, <2>5, <2>6
<1>7. CASE GroupPackages
  BY <1>7 DEF GroupPackages
<1>8. CASE AnnotatePackage
  <2>1. \A k : Range(Group(k)) \subseteq Range(parsed)
    BY GroupMembers
  <2>2. DOMAIN facts' \subseteq Range(parsed)
    BY <1>8, <2>1 DEF AnnotatePackage
  <2> QED BY <1>8, <2>2 DEF AnnotatePackage
<1>9. CASE EndAnnotation
  BY <1>9 DEF EndAnnotation
<1>10. CASE AnalyzeFile
  BY <1>10 DEF AnalyzeFile
<1>11. CASE OpenReport
  BY <1>11 DEF OpenReport
<1>12. CASE WritePiece
  BY <1>12, WriterAssumption DEF WritePiece
<1>13. CASE EndReport
  BY <1>13 DEF EndReport, ExitCodeFor
<1>14. CASE UNCHANGED vars
  BY <1>14 DEF vars, commandVars
<1> QED BY <1>1, <1>2, <1>3, <1>4, <1>5, <1>6, <1>7, <1>8, <1>9, <1>10, <1>11, <1>12, <1>13,
           <1>14 DEF Next
\* Whatever the arguments, the tree and the rules, a run ends with one of the
\* four exit codes, once, parses and fails only on files that it found, and
\* analyses no file twice (Main, Run).
THEOREM TypeCorrect == Spec => []TypeOK
<1>1. Spec => []TypeInv
  BY TypeStart, TypeStep, PTL DEF Spec
<1>2. TypeInv => TypeOK
  BY DEF TypeInv
<1> QED BY <1>1, <1>2, PTL

-----------------------------------------------------------------------------
(* Every selected file, once *)

\* The files that the first n path arguments select.
Selected(n) == UNION {Range(Sources(fs, PathOf(Paths[i]), Filter)) : i \in 1 .. n}

FoundInv ==
    /\ phase = "discover" =>
          at - 1 <= Len(Paths) /\ RealOf(fs, Selected(at - 1)) = RealOf(fs, Range(found))
    /\ FoundOnce

AfterDiscovery == {"parse", "annotate", "analyze", "write"}

\* What the arguments say and what was found is settled before files are parsed.
LEMMA FoundSettled ==
    ASSUME FoundInv, UNCHANGED <<optionVars, fs, sets, found>>,
           phase \in AfterDiscovery, phase' \in AfterDiscovery \cup {"done"}
    PROVE  FoundInv'
<1>1. Filter' = Filter /\ Paths' = Paths
  BY DEF Filter, ItemsOf, Value, Given, Paths, optionVars
<1>2. CASE phase' = "done"
  BY <1>2 DEF FoundInv, FoundOnce
<1>3. CASE phase' \in AfterDiscovery
  BY <1>1, <1>3 DEF FoundInv, FoundOnce, AfterDiscovery
<1> QED BY <1>2, <1>3

LEMMA DiscoverFinds == TypeInv /\ FoundInv /\ Discover => FoundInv'
<1> SUFFICES ASSUME TypeInv, FoundInv, Discover PROVE FoundInv'
  OBVIOUS
<1>1. phase = "discover" /\ at \in DOMAIN Paths /\ UNCHANGED <<optionVars, fs, sets>>
  BY DEF Discover
<1>2. Filter' = Filter /\ Paths' = Paths
  BY <1>1 DEF Filter, ItemsOf, Value, Given, Paths, optionVars
<1>3. CASE phase' = "done"
  BY <1>3 DEF FoundInv, FoundOnce
<1>4. CASE phase' # "done"
  <2> DEFINE new == Sources(fs, PathOf(Paths[at]), Filter)
  <2>1. phase' = "discover" /\ at' = at + 1 /\ found' = AddSources(fs, found, new)
    BY <1>1, <1>4 DEF Discover, Return
  <2>2. Paths \in Seq({Paths[i] : i \in DOMAIN Paths}) /\ PathOf(Paths[at]) \in Path
    BY <1>1, PathsType DEF TypeInv, Running, Stages
  <2>3. fs \in FileSystems /\ found \in Seq(Path) /\ Apart(fs, found)
    BY <1>1 DEF TypeInv, ArgumentsInv, FilesInv
  <2>4. new \in Seq(Path)
    BY <2>2, <2>3, SourcesType
  <2> HIDE DEF new
  <2>5. RealOf(fs, Range(found')) = RealOf(fs, Range(found)) \cup RealOf(fs, Range(new))
    BY <2>1, <2>3, <2>4, AddSourcesApart
  <2>6. at \in Nat \ {0} /\ at <= Len(Paths) /\ Len(Paths) \in Nat
    BY <1>1, <2>2
  <2>7. Selected(at) = Selected(at - 1) \cup Range(new)
    <3>1. \A i : i \in 1 .. at <=> i \in 1 .. at - 1 \/ i = at
      BY <2>6
    <3> QED BY <3>1 DEF Selected, new
  <2>8. RealOf(fs, Selected(at)) = RealOf(fs, Selected(at - 1)) \cup RealOf(fs, Range(new))
    BY <2>7 DEF RealOf
  <2>9. RealOf(fs, Selected(at)) = RealOf(fs, Range(found'))
    BY <1>1, <2>5, <2>8 DEF FoundInv
  <2>10. at' - 1 = at /\ fs' = fs
    BY <1>1, <2>1, <2>6
  <2>11. Selected(at)' = UNION {Range(Sources(fs', PathOf(Paths'[i]), Filter')) : i \in 1 .. at'}
    BY DEF Selected
  <2>12. (RealOf(fs, Selected(at - 1)))' = RealOf(fs, Selected(at))
    BY <1>2, <2>10 DEF Selected
  <2> QED BY <1>2, <2>1, <2>6, <2>9, <2>10, <2>12 DEF FoundInv, FoundOnce
<1> QED BY <1>3, <1>4

LEMMA SortSourcesFinds == TypeInv /\ FoundInv /\ SortSources => FoundInv'
<1> SUFFICES ASSUME TypeInv, FoundInv, SortSources PROVE FoundInv'
  OBVIOUS
<1>1. /\ phase = "discover" /\ at > Len(Paths) /\ phase' = "parse"
      /\ found' = Sorted(Range(found)) /\ UNCHANGED <<optionVars, fs, sets>>
  BY DEF SortSources
<1>2. Filter' = Filter /\ Paths' = Paths
  BY <1>1 DEF Filter, ItemsOf, Value, Given, Paths, optionVars
<1>3. found \in Seq(Path) /\ Apart(fs, found)
  BY <1>1 DEF TypeInv, FilesInv
<1>4. IsFiniteSet(Range(found)) /\ Range(found) \subseteq Path
  <2>1. found \in Surjection(1 .. Len(found), Range(found)) /\ Len(found) \in Nat
    BY <1>3 DEF Surjection, Range
  <2>2. IsFiniteSet(1 .. Len(found))
    BY <2>1, FS_Interval
  <2> QED BY <1>3, <2>1, <2>2, FS_Surjection, RangeOfSeq
<1>5. /\ found' \in Seq(Range(found)) /\ Range(found') = Range(found)
      /\ \A i, j \in DOMAIN found' : i < j => PathLess(found'[i], found'[j])
  BY <1>1, <1>4, SortedPaths
<1>6. \A p, q \in Range(found) : p # q => RealPath(fs, p) # RealPath(fs, q)
  BY <1>3 DEF Apart, Range
<1>7. \A i, j \in DOMAIN found' :
        i < j => PathLess(found'[i], found'[j]) /\ RealPath(fs, found'[i]) # RealPath(fs, found'[j])
  <2> SUFFICES ASSUME NEW i \in DOMAIN found', NEW j \in DOMAIN found', i < j
               PROVE  PathLess(found'[i], found'[j]) /\ RealPath(fs, found'[i]) # RealPath(fs, found'[j])
    OBVIOUS
  <2>1. found'[i] \in Range(found) /\ found'[j] \in Range(found)
    BY <1>5
  <2>2. PathLess(found'[i], found'[j])
    BY <1>5
  <2>3. found'[i] # found'[j]
    BY <1>4, <2>1, <2>2, PathLessIrreflexive
  <2> QED BY <1>6, <2>1, <2>2, <2>3
<1>8. Selected(at - 1) = UNION {Range(Sources(fs, PathOf(a), Filter)) : a \in Range(Paths)}
  <2>1. Paths \in Seq({Paths[i] : i \in DOMAIN Paths}) /\ at \in Nat
    BY <1>1, PathsType DEF TypeInv, Running, Stages, ArgumentsInv
  <2>2. DOMAIN Paths = 1 .. at - 1
    BY <1>1, <2>1 DEF FoundInv
  <2>3. Range(Paths) = {Paths[i] : i \in 1 .. at - 1}
    BY <2>2 DEF Range
  <2>4. {Range(Sources(fs, PathOf(a), Filter)) : a \in Range(Paths)}
          = {Range(Sources(fs, PathOf(Paths[i]), Filter)) : i \in 1 .. at - 1}
    BY <2>3
  <2> QED BY <2>4 DEF Selected
<1>9. RealOf(fs, Selected(at - 1)) = RealOf(fs, Range(found'))
  BY <1>1, <1>5 DEF FoundInv
<1>10. FoundOnce'
  <2> DEFINE selected == UNION {Range(Sources(fs, PathOf(a), Filter)) : a \in Range(Paths)}
  <2>1. {RealPath(fs, p) : p \in selected} = {RealPath(fs, p) : p \in Range(found')}
    BY <1>8, <1>9 DEF RealOf
  <2>2. selected' = selected
    BY <1>1, <1>2
  <2> HIDE DEF selected
  <2>3. {RealPath(fs', p) : p \in selected'} = {RealPath(fs', p) : p \in Range(found')}
    BY <1>1, <2>1, <2>2
  <2>4. \A i, j \in DOMAIN found' : i < j =>
            PathLess(found'[i], found'[j]) /\ RealPath(fs', found'[i]) # RealPath(fs', found'[j])
    BY <1>1, <1>7
  <2> QED BY <2>3, <2>4 DEF FoundOnce, selected
<1> QED BY <1>1, <1>10 DEF FoundInv

LEMMA FoundStep == TypeInv /\ FoundInv /\ [Next \/ Exited]_vars => FoundInv'
<1> SUFFICES ASSUME TypeInv, FoundInv, Next \/ UNCHANGED vars PROVE FoundInv'
  BY DEF Exited
<1> USE DEF AfterDiscovery, Return, runVars, commandVars, optionVars
<1>1. ASSUME phase' \notin AfterDiscovery, phase' # "discover" PROVE FoundInv'
  BY <1>1 DEF FoundInv, FoundOnce
<1>2. CASE ReadCommand
  BY <1>1, <1>2 DEF ReadCommand, ReadArguments, Start, EndOptions, Switch, TakeValue,
                    RejectOption, Positional, Reading
<1>3. CASE SelectRenderer
  BY <1>1, <1>3 DEF SelectRenderer
<1>4. CASE LoadRuleSets
  <2>1. CASE phase' = "done"
    BY <1>1, <2>1
  <2>2. CASE phase' # "done"
    <3>1. phase' = "discover" /\ at' = 1 /\ found' = <<>> /\ phase = "rulesets" /\ Paths' = Paths
      BY <1>4, <2>2 DEF LoadRuleSets, TypeInv, FilesInv, Paths
    <3>2. Selected(0)' = {} /\ Range(found') = {}
      BY <3>1 DEF Selected, Range
    <3>3. Len(Paths) \in Nat
      BY <3>1, PathsType DEF TypeInv, Running, Stages
    <3>4. (RealOf(fs, Selected(at - 1)))' = {} /\ (RealOf(fs, Range(found)))' = {}
      BY <3>1, <3>2 DEF RealOf, Selected
    <3>5. at' - 1 <= Len(Paths')
      BY <3>1, <3>3
    <3>6. FoundOnce'
      BY <3>1 DEF FoundOnce
    <3> QED BY <3>4, <3>5, <3>6 DEF FoundInv
  <2> QED BY <2>1, <2>2
<1>5. CASE Discover
  BY <1>5, DiscoverFinds
<1>6. CASE SortSources
  BY <1>6, SortSourcesFinds
<1>7. CASE ParseFile
  BY <1>7, FoundSettled DEF ParseFile
<1>8. CASE GroupPackages
  BY <1>8, FoundSettled DEF GroupPackages
<1>9. CASE AnnotatePackage
  BY <1>9, FoundSettled DEF AnnotatePackage
<1>10. CASE EndAnnotation
  BY <1>10, FoundSettled DEF EndAnnotation
<1>11. CASE AnalyzeFile
  BY <1>11, FoundSettled DEF AnalyzeFile
<1>12. CASE OpenReport
  BY <1>12, FoundSettled DEF OpenReport
<1>13. CASE WritePiece
  BY <1>13, FoundSettled DEF WritePiece
<1>14. CASE EndReport
  BY <1>14, FoundSettled DEF EndReport
<1>15. CASE UNCHANGED vars
  <2>1. Filter' = Filter /\ Paths' = Paths
    BY <1>15 DEF Filter, ItemsOf, Value, Given, Paths, vars
  <2>2. FoundOnce'
    BY <1>15, <2>1 DEF vars, FoundInv, FoundOnce
  <2>3. UNCHANGED <<phase, at, fs, found>>
    BY <1>15 DEF vars
  <2>4. (RealOf(fs, Selected(at - 1)))' = RealOf(fs, Selected(at - 1))
    BY <2>1, <2>3 DEF Selected
  <2> QED BY <2>1, <2>2, <2>3, <2>4 DEF FoundInv
<1> QED BY <1>2, <1>3, <1>4, <1>5, <1>6, <1>7, <1>8, <1>9, <1>10, <1>11, <1>12, <1>13, <1>14,
           <1>15 DEF Next

\* The report speaks of every file that some argument selects, under one name
\* and in order, for every tree of directories, files and links (DiscoverSources).
THEOREM FilesFoundOnce == Spec => []FoundOnce
<1>1. Init => FoundInv
  BY DEF Init, CommandInit, FoundInv, FoundOnce
<1>2. FoundInv => FoundOnce
  BY DEF FoundInv
<1> QED BY <1>1, <1>2, TypeStart, TypeStep, FoundStep, PTL DEF Spec
-----------------------------------------------------------------------------
(* Facts of whole packages *)

\* A parsed file lists what it declares.
LEMMA ParsedLists ==
    ASSUME TypeInv, NEW p, Parses(fs, p), NEW kind \in {"globals", "classes", "interfaces", "funcs"}
    PROVE  IsSequence(Source(p)[kind])
<1>1. fs \in FileSystems
  BY DEF TypeInv, ArgumentsInv
<1>2. RealPath(fs, p) \in DOMAIN fs.node /\ fs.node[RealPath(fs, p)].type = "file"
  BY DEF Parses, Exists, At
<1> QED BY <1>1, <1>2, TreesAssumption DEF Source, At

\* The places of the declarations of one kind in some files.
AllPlaces(src, kind, Q) == UNION {{<<q, n>> : n \in DOMAIN src[q][kind]} : q \in Q}

LEMMA AllPlacesMembers ==
    ASSUME NEW src, NEW kind, NEW Q, NEW x
    PROVE  x \in AllPlaces(src, kind, Q) <=> \E q \in Q : \E n \in DOMAIN src[q][kind] : x = <<q, n>>
BY DEF AllPlaces

\* The places of one kind of declaration in the files of a group: each once,
\* when no file is in the group twice.
LEMMA PlacesOf ==
    ASSUME NEW src, NEW S, NEW group \in Seq(S), NEW kind,
           \A q \in S : IsSequence(src[q][kind])
    PROVE  /\ Places(src, group, kind) \in Seq(S \X Nat)
           /\ Range(Places(src, group, kind)) = AllPlaces(src, kind, Range(group))
           /\ IsInjective(group) => IsInjective(Places(src, group, kind))
<1> DEFINE own == [q \in S |-> [n \in DOMAIN src[q][kind] |-> <<q, n>>]]
           ss == [i \in DOMAIN group |-> own[group[i]]]
           Same == {<<x, x>> : x \in S \X Nat}
<1>1. /\ DOMAIN group = 1 .. Len(group) /\ Len(group) \in Nat
      /\ \A i \in 1 .. Len(group) : group[i] \in S
  OBVIOUS
<1>2. Places(src, group, kind) = FlattenSeq(ss)
  <2>1. [i \in DOMAIN group |-> [n \in DOMAIN src[group[i]][kind] |-> <<group[i], n>>]] = ss
    BY <1>1
  <2> HIDE DEF ss
  <2> QED BY <2>1 DEF Places
<1>3. own \in [S -> Seq(S \X Nat)]
  <2> SUFFICES ASSUME NEW q \in S
               PROVE  [n \in DOMAIN src[q][kind] |-> <<q, n>>] \in Seq(S \X Nat)
    OBVIOUS
  <2>1. src[q][kind] \in Seq({src[q][kind][n] : n \in DOMAIN src[q][kind]})
    BY DEF IsSequence
  <2>2. PICK m \in Nat : DOMAIN src[q][kind] = 1 .. m
    BY <2>1
  <2> QED BY <2>2
<1>4. /\ \A q \in S : Range(own[q]) = {<<q, n>> : n \in DOMAIN src[q][kind]}
      /\ \A q \in S : \A n \in DOMAIN own[q] : own[q][n] = <<q, n>>
  BY DEF Range
<1> HIDE DEF own
<1>5. ss \in Seq(Seq(S \X Nat))
  <2> DEFINE T == Seq(S \X Nat)
  <2> HIDE DEF T
  <2>1. ss \in [1 .. Len(group) -> T]
    BY <1>1, <1>3 DEF T
  <2> HIDE DEF ss
  <2> QED BY <1>1, <2>1 DEF T
<1> DEFINE decl(q) == {<<q, n>> : n \in DOMAIN src[q][kind]}
<1>5a. \A q \in S : Range(own[q]) = decl(q)
  BY <1>4
<1> HIDE DEF decl
<1>6. {Range(ss[i]) : i \in DOMAIN ss} = {decl(q) : q \in Range(group)}
  <2>1. {Range(ss[i]) : i \in DOMAIN ss} = {decl(group[i]) : i \in DOMAIN group}
    BY <1>1, <1>5a
  <2>2. Range(group) = {group[i] : i \in DOMAIN group}
    BY DEF Range
  <2> HIDE DEF ss
  <2> QED BY <2>1, <2>2
<1>7. ASSUME IsInjective(group) PROVE IsInjective(Places(src, group, kind))
  <2>1. \A i \in DOMAIN ss : ss[i] = own[group[i]] /\ group[i] \in S
    BY <1>1
  <2>2. \A i \in DOMAIN ss : Pairwise(ss[i], Same)
    BY <1>4, <2>1 DEF Pairwise
  <2>3. \A i, j \in DOMAIN ss : i # j => group[i] # group[j]
    BY <1>7 DEF IsInjective
  <2>4. \A i \in DOMAIN ss : \A x \in Range(ss[i]) : x[1] = group[i]
    BY <1>4, <2>1
  <2> HIDE DEF ss
  <2>5. \A i, j \in DOMAIN ss : i # j =>
           \A x \in Range(ss[i]) : \A y \in Range(ss[j]) : <<x, y>> \notin Same
    <3> SUFFICES ASSUME NEW i \in DOMAIN ss, NEW j \in DOMAIN ss, i # j,
                        NEW x \in Range(ss[i]), NEW y \in Range(ss[j])
                 PROVE  <<x, y>> \notin Same
      OBVIOUS
    <3>1. x # y
      BY <2>3, <2>4
    <3> QED BY <3>1
  <2> HIDE DEF Same
  <2>6. Pairwise(FlattenSeq(ss), Same)
    BY <1>5, <2>2, <2>5, FlattenPairwise
  <2>7. FlattenSeq(ss) \in Seq(S \X Nat)
    BY <1>5, FlattenElements
  <2>8. \A i \in DOMAIN FlattenSeq(ss) : FlattenSeq(ss)[i] \in S \X Nat
    BY <2>7
  <2> QED BY <1>2, <2>6, <2>8 DEF Pairwise, IsInjective, Same
<1> HIDE DEF ss
<1>8. /\ FlattenSeq(ss) \in Seq(S \X Nat)
      /\ Range(FlattenSeq(ss)) = UNION {Range(ss[i]) : i \in DOMAIN ss}
  BY <1>5, FlattenElements
<1> QED BY <1>2, <1>6, <1>7, <1>8 DEF decl, AllPlaces

\* The declarations of one kind in a parsed file, and that they are a list.
Declared(kind, q) == {<<q, n>> : n \in DOMAIN Parsed[q][kind]}
AllDeclared(kind, Q) == UNION {Declared(kind, q) : q \in Q}
Listed(kind, q) == IsSequence(Parsed[q][kind])

LEMMA PlacesElements ==
    ASSUME NEW S, NEW group \in Seq(S), NEW kind, \A q \in S : Listed(kind, q)
    PROVE  /\ Places(Parsed, group, kind) \in Seq(S \X Nat)
           /\ Range(Places(Parsed, group, kind)) = AllDeclared(kind, Range(group))
<1>1. AllPlaces(Parsed, kind, Range(group)) = AllDeclared(kind, Range(group))
  BY DEF AllPlaces, AllDeclared, Declared
<1>2. \A q \in S : IsSequence(Parsed[q][kind])
  BY DEF Listed
<1> QED BY <1>1, <1>2, PlacesOf

\* From the grouping on, the files of every package that was annotated know
\* what all of its files say.
FactsInv ==
    /\ \A p \in Range(parsed) : Parses(fs, p)
    /\ phase \in {"annotate", "analyze", "write"} => \A p \in Range(parsed) :
          KeyOf(p) \notin unmarked =>
              p \in DOMAIN facts /\ facts[p] = GroupFacts(Parsed, Group(KeyOf(p)))
    /\ phase \in {"analyze", "write"} => unmarked = {}

LEMMA FactsSettled ==
    ASSUME FactsInv, UNCHANGED <<fs, parsed, facts, unmarked>>,
           phase' \in {"annotate", "analyze", "write"} => phase \in {"annotate", "analyze", "write"},
           phase' \in {"analyze", "write"} => unmarked = {}
    PROVE  FactsInv'
<1>1. /\ Parsed' = Parsed /\ \A k : Group(k)' = Group(k)
      /\ \A p : KeyOf(p)' = KeyOf(p)
  BY DEF Parsed, Source, KeyOf, Group
<1> QED BY <1>1 DEF FactsInv

LEMMA FactsStep == TypeInv /\ FactsInv /\ [Next \/ Exited]_vars => FactsInv'
<1> SUFFICES ASSUME TypeInv, FactsInv, Next \/ UNCHANGED vars PROVE FactsInv'
  BY DEF Exited
<1> USE DEF Return, runVars, commandVars, optionVars
<1>1. CASE ReadCommand
  BY <1>1, FactsSettled DEF ReadCommand, ReadArguments, Start, EndOptions, Switch, TakeValue,
                    RejectOption, Positional, Reading
<1>2. CASE SelectRenderer
  BY <1>2, FactsSettled DEF SelectRenderer
<1>3. CASE LoadRuleSets
  BY <1>3, FactsSettled DEF LoadRuleSets
<1>4. CASE Discover
  BY <1>4, FactsSettled DEF Discover
<1>5. CASE SortSources
  BY <1>5, FactsSettled DEF SortSources
<1>6. CASE ParseFile
  <2>1. unread \in Seq(Range(found)) /\ unread # <<>> /\ parsed \in Seq(Range(found))
    BY <1>6 DEF TypeInv, FilesInv, ParseFile
  <2>2. Head(unread) \in Range(found)
    <3>1. Range(unread) \subseteq Range(found)
      BY <2>1, RangeOfSeq
    <3> QED BY <2>1, <3>1, HeadTailRange
  <2>3. Range(Append(parsed, Head(unread))) = Range(parsed) \cup {Head(unread)}
    BY <2>1, <2>2, AppendRange
  <2> QED BY <1>6, <2>3 DEF ParseFile, FactsInv
<1>7. CASE GroupPackages
  <2>1. UNCHANGED <<fs, parsed>> /\ unmarked' = Keys /\ phase' = "annotate"
    BY <1>7 DEF GroupPackages
  <2>2. \A p : KeyOf(p)' = KeyOf(p)
    BY <2>1 DEF KeyOf, Source
  <2> QED BY <2>1, <2>2 DEF Keys, FactsInv
<1>8. CASE AnnotatePackage
  <2>1. phase = "annotate" /\ UNCHANGED <<fs, parsed, phase>>
    BY <1>8 DEF AnnotatePackage
  <2>2. PICK k \in unmarked :
          /\ unmarked' = unmarked \ {k}
          /\ facts' = [p \in DOMAIN facts \cup Range(Group(k)) |->
                IF p \in Range(Group(k)) THEN GroupFacts(Parsed, Group(k)) ELSE facts[p]]
    BY <1>8 DEF AnnotatePackage
  <2>3. Range(Group(k)) = {p \in Range(parsed) : KeyOf(p) = k}
    BY GroupMembers DEF TypeInv, FilesInv
  <2>4. /\ Parsed' = Parsed /\ \A j : Group(j)' = Group(j)
        /\ \A p : KeyOf(p)' = KeyOf(p)
    BY <2>1 DEF Parsed, Source, KeyOf, Group
  <2>5. ASSUME NEW p \in Range(parsed), KeyOf(p) \notin unmarked'
        PROVE  p \in DOMAIN facts' /\ facts'[p] = GroupFacts(Parsed, Group(KeyOf(p)))
    <3>1. CASE KeyOf(p) = k
      BY <2>2, <2>3, <3>1
    <3>2. CASE KeyOf(p) # k
      BY <2>1, <2>2, <2>3, <2>5, <3>2 DEF FactsInv
    <3> QED BY <3>1, <3>2
  <2> QED BY <2>1, <2>4, <2>5 DEF FactsInv
<1>9. CASE EndAnnotation
  BY <1>9, FactsSettled DEF EndAnnotation
<1>10. CASE AnalyzeFile
  BY <1>10, FactsSettled DEF AnalyzeFile, FactsInv
<1>11. CASE OpenReport
  BY <1>11, FactsSettled DEF OpenReport, FactsInv
<1>12. CASE WritePiece
  BY <1>12, FactsSettled DEF WritePiece, FactsInv
<1>13. CASE EndReport
  BY <1>13, FactsSettled DEF EndReport
<1>14. CASE UNCHANGED vars
  BY <1>14, FactsSettled DEF vars, FactsInv
<1> QED BY <1>1, <1>2, <1>3, <1>4, <1>5, <1>6, <1>7, <1>8, <1>9, <1>10, <1>11, <1>12, <1>13,
           <1>14 DEF Next

LEMMA GroupFactsFields ==
    ASSUME NEW src, NEW group
    PROVE  /\ GroupFacts(src, group).mutated = MutatedGlobals(src, group)
           /\ GroupFacts(src, group).classes = Places(src, group, "classes")
BY Zenon DEF GroupFacts

LEMMA FactsAreWhole == TypeInv /\ FactsInv => FactsOfWholePackage
<1> SUFFICES ASSUME TypeInv, FactsInv, phase = "analyze", NEW p \in Range(parsed)
    PROVE LET package == {q \in Range(parsed) : Together(p, q)}
              declared == {v.name : v \in UNION {Range(Source(q).globals) : q \in package}}
          IN  /\ facts[p].mutated = declared \cap UNION {Source(q).mutates : q \in package}
              /\ {c[1] : c \in Range(facts[p].classes)} = {q \in package : Source(q).classes # <<>>}
              /\ \A q \in package : facts[q] = facts[p]
  BY DEF FactsOfWholePackage
<1> DEFINE package == {q \in Range(parsed) : Together(p, q)}
           declared == {v.name : v \in UNION {Range(Source(q).globals) : q \in package}}
           group == Group(KeyOf(p))
<1>1. package = {q \in Range(parsed) : KeyOf(q) = KeyOf(p)}
  BY DEF Together, KeyOf, PackageKey
<1>2. Range(group) = package /\ group \in Seq(Range(parsed))
  BY <1>1, GroupMembers DEF TypeInv, FilesInv
<1>3. \A q \in package : facts[q] = GroupFacts(Parsed, group)
  BY <1>1 DEF FactsInv
<1>4. p \in package
  BY <1>1
<1>5. \A q \in package : Parsed[q] = Source(q)
  BY DEF Parsed
<1>6. \A q \in Range(parsed) : Listed("classes", q)
  BY ParsedLists DEF Parsed, FactsInv, Listed
<1> HIDE DEF group
<1>7. facts[p].mutated = declared \cap UNION {Source(q).mutates : q \in package}
  <2>1. facts[p].mutated = MutatedGlobals(Parsed, group)
    BY <1>3, <1>4, GroupFactsFields
  <2>2. UNION {Parsed[f].mutates : f \in package} = UNION {Source(q).mutates : q \in package}
    BY <1>5
  <2>3. UNION {{Parsed[f].globals[n].name : n \in DOMAIN Parsed[f].globals} : f \in package} = declared
    <3>1. {{Parsed[f].globals[n].name : n \in DOMAIN Parsed[f].globals} : f \in package}
            = {{v.name : v \in Range(Source(q).globals)} : q \in package}
      BY <1>5 DEF Range
    <3>2. UNION {{v.name : v \in Range(Source(q).globals)} : q \in package} = declared
      OBVIOUS
    <3> QED BY <3>1, <3>2
  <2> HIDE DEF declared, package
  <2>4. MutatedGlobals(Parsed, group) = declared \cap UNION {Source(q).mutates : q \in package}
    BY <1>2, <2>2, <2>3 DEF MutatedGlobals
  <2> QED BY <2>1, <2>4
<1>8. {c[1] : c \in Range(facts[p].classes)} = {q \in package : Source(q).classes # <<>>}
  <2>1. facts[p].classes = Places(Parsed, group, "classes")
    BY <1>3, <1>4, GroupFactsFields
  <2>2. Range(facts[p].classes) = AllDeclared("classes", package)
    <3> HIDE DEF package, declared
    <3> QED BY <1>2, <1>6, <2>1, PlacesElements
  <2>3. \A q \in package : Declared("classes", q) = {} <=> Source(q).classes = <<>>
    <3> SUFFICES ASSUME NEW q \in package
                 PROVE  Declared("classes", q) = {} <=> Source(q).classes = <<>>
      OBVIOUS
    <3>1. Parsed[q]["classes"] = Source(q).classes /\ IsSequence(Source(q).classes)
      BY <1>5, <1>6 DEF Listed
    <3>2. DOMAIN Source(q).classes = {} <=> Source(q).classes = <<>>
      BY <3>1 DEF IsSequence
    <3>3. Declared("classes", q) = {<<q, n>> : n \in DOMAIN Source(q).classes}
      BY <3>1 DEF Declared
    <3> QED BY <3>2, <3>3
  <2>4. \A q : \A c \in Declared("classes", q) : c[1] = q
    BY DEF Declared
  <2>5. {c[1] : c \in Range(facts[p].classes)} = {q \in package : Declared("classes", q) # {}}
    <3> HIDE DEF package, declared
    <3> QED BY <2>2, <2>4 DEF AllDeclared
  <2> QED BY <2>3, <2>5
<1> QED BY <1>3, <1>4, <1>7, <1>8

\* However the files of a package are spread, reached or ordered, each is
\* analysed with what all of them say together (annotatePackages).
THEOREM FactsWhole == Spec => []FactsOfWholePackage
<1>1. Init => FactsInv
  BY DEF Init, CommandInit, FactsInv, Range
<1> QED BY <1>1, TypeStart, TypeStep, FactsStep, FactsAreWhole, PTL DEF Spec
-----------------------------------------------------------------------------
(* No silent success *)

\* What a rule reports of the file p is a list of violations.
Reports(rule, p, Violation) ==
    /\ "file" \in rule.aware => Checks(rule, "file", p, Known(p)) \in Seq(Violation)
    /\ \A kind \in rule.aware \cap {"classes", "interfaces", "funcs"} :
          \A n \in DOMAIN Places(Parsed, <<p>>, kind) :
              Checks(rule, kind, Places(Parsed, <<p>>, kind)[n], Known(p)) \in Seq(Violation)

\* The rulesets are lists of rules, and a rule that looks at a file reports a
\* list: what the types of the source say of Load and Checks.
RulesReport(Violation) ==
    phase = "analyze" =>
        /\ IsSequence(sets) /\ \A i \in DOMAIN sets : IsSequence(sets[i].rules)
        /\ \A i \in DOMAIN sets : \A j \in DOMAIN sets[i].rules : \A p \in Range(parsed) :
              Reports(sets[i].rules[j], p, Violation)

LEMMA ApplyType ==
    ASSUME NEW Violation, TypeInv, FactsInv, NEW p \in Range(parsed), NEW rule,
           Reports(rule, p, Violation)
    PROVE  Apply(rule, p) \in Seq(Violation)
<1> DEFINE ids(kind) == IF kind \in rule.aware THEN Places(Parsed, <<p>>, kind) ELSE <<>>
           said(kind) == [i \in DOMAIN ids(kind) |-> Checks(rule, kind, ids(kind)[i], Known(p))]
           whole == IF "file" \in rule.aware THEN Checks(rule, "file", p, Known(p)) ELSE <<>>
<1>1. ASSUME NEW kind \in {"classes", "interfaces", "funcs"}, NEW i \in DOMAIN ids(kind)
      PROVE  Checks(rule, kind, ids(kind)[i], Known(p)) \in Seq(Violation)
  <2>1. CASE kind \in rule.aware
    BY <1>1, <2>1 DEF Reports
  <2>2. CASE kind \notin rule.aware
    BY <1>1, <2>2
  <2> QED BY <2>1, <2>2
<1>2. ASSUME NEW kind \in {"classes", "interfaces", "funcs"}
      PROVE  FlattenSeq(said(kind)) \in Seq(Violation)
  <2>1. \A q \in Range(parsed) : Listed(kind, q)
    BY ParsedLists DEF Parsed, FactsInv, Listed
  <2>2. <<p>> \in Seq(Range(parsed))
    OBVIOUS
  <2>3. Places(Parsed, <<p>>, kind) \in Seq(Range(parsed) \X Nat)
    BY <2>1, <2>2, PlacesElements
  <2>4. PICK n \in Nat : DOMAIN ids(kind) = 1 .. n
    BY <2>3
  <2> DEFINE T == Seq(Violation)
  <2>5. said(kind) \in Seq(T)
    <3>1. \A i \in DOMAIN ids(kind) : Checks(rule, kind, ids(kind)[i], Known(p)) \in T
      BY <1>1, <1>2 DEF T
    <3> HIDE DEF ids, T
    <3> QED BY <2>4, <3>1
  <2> HIDE DEF said
  <2> QED BY <2>5, FlattenElements
<1>3. whole \in Seq(Violation)
  BY DEF Reports
<1> HIDE DEF whole, said
<1>4. Apply(rule, p) = whole \o FlattenSeq(said("classes")) \o FlattenSeq(said("interfaces"))
                             \o FlattenSeq(said("funcs"))
  BY DEF Apply, said, whole
<1>5. /\ FlattenSeq(said("classes")) \in Seq(Violation)
      /\ FlattenSeq(said("interfaces")) \in Seq(Violation)
      /\ FlattenSeq(said("funcs")) \in Seq(Violation)
  BY <1>2
<1> QED BY <1>3, <1>4, <1>5, ConcatProperties

LEMMA AnalyzeType ==
    ASSUME NEW Violation, RulesReport(Violation), TypeInv, FactsInv, phase = "analyze",
           NEW p \in Range(parsed)
    PROVE  Analyze(p) \in Seq(Violation)
<1> DEFINE T == Seq(Violation)
           ofSet(i) == [j \in DOMAIN sets[i].rules |-> Apply(sets[i].rules[j], p)]
           all == [i \in DOMAIN sets |-> FlattenSeq(ofSet(i))]
<1>1. ASSUME NEW i \in DOMAIN sets PROVE FlattenSeq(ofSet(i)) \in T
  <2>1. \A j \in DOMAIN sets[i].rules : Reports(sets[i].rules[j], p, Violation)
    BY DEF RulesReport
  <2>2. \A j \in DOMAIN sets[i].rules : Apply(sets[i].rules[j], p) \in T
    BY <2>1, ApplyType
  <2>3. PICK n \in Nat : DOMAIN sets[i].rules = 1 .. n
    <3>1. IsSequence(sets[i].rules)
      BY DEF RulesReport
    <3> QED BY <3>1 DEF IsSequence
  <2> HIDE DEF T
  <2>4. ofSet(i) \in Seq(T)
    BY <2>2, <2>3
  <2> HIDE DEF ofSet
  <2> QED BY <2>4, FlattenElements DEF T
<1>2. PICK n \in Nat : DOMAIN sets = 1 .. n
  BY DEF RulesReport, IsSequence
<1> HIDE DEF T, ofSet
<1>3. all \in Seq(T)
  BY <1>1, <1>2
<1>4. Analyze(p) = FlattenSeq(all)
  BY DEF Analyze, ofSet
<1> HIDE DEF all
<1> QED BY <1>3, <1>4, FlattenElements DEF T

LEMMA AnalyzeSettled ==
    ASSUME UNCHANGED <<fs, sets, parsed, facts, methods>>, NEW p
    PROVE  Analyze(p)' = Analyze(p)
<1>1. Parsed' = Parsed /\ Known(p)' = Known(p)
  BY DEF Parsed, Known, Source
<1>2. \A rule : Apply(rule, p)' = Apply(rule, p)
  BY <1>1 DEF Apply
<1> QED BY <1>2 DEF Analyze
\* Every file that was found is still to be read, was parsed, or failed, and a
\* failure is recorded.
AccountInv ==
    /\ errors \in Seq(Path) /\ (failed # {} => errors # <<>>)
    /\ phase \in AfterDiscovery => Range(found) = Range(unread) \cup Range(parsed) \cup failed
    /\ phase \in AfterDiscovery \ {"parse"} => unread = <<>>

\* As long as there is no violation, the files analysed so far give none.
JudgedInv(Violation) ==
    /\ phase \notin {"analyze", "write", "done"} => checked = 0 /\ violations = <<>>
    /\ phase = "analyze" => violations \in Seq(Violation)
    /\ phase \in {"analyze", "write"} /\ violations = <<>> =>
          \A i \in 1 .. checked : Analyze(parsed[i]) = <<>>
    /\ phase = "write" => checked = Len(parsed)

LEMMA AccountStep == TypeInv /\ AccountInv /\ [Next \/ Exited]_vars => AccountInv'
<1> SUFFICES ASSUME TypeInv, AccountInv, Next \/ UNCHANGED vars PROVE AccountInv'
  BY DEF Exited
<1> USE DEF AccountInv, AfterDiscovery, Return, runVars, commandVars, optionVars
<1>1. CASE ReadCommand
  BY <1>1 DEF ReadCommand, ReadArguments, Start, EndOptions, Switch, TakeValue,
              RejectOption, Positional, Reading
<1>2. CASE SelectRenderer
  BY <1>2 DEF SelectRenderer
<1>3. CASE LoadRuleSets
  BY <1>3 DEF LoadRuleSets
<1>4. CASE Discover
  BY <1>4 DEF Discover
<1>5. CASE SortSources
  <2>1. parsed = <<>> /\ failed = {} /\ Range(<<>>) = {}
    BY <1>5 DEF SortSources, TypeInv, FilesInv, Range
  <2> QED BY <1>5, <2>1 DEF SortSources
<1>6. CASE ParseFile
  <2>1. /\ unread \in Seq(Range(found)) /\ unread # <<>> /\ parsed \in Seq(Range(found))
        /\ found \in Seq(Path)
    BY <1>6 DEF TypeInv, FilesInv, ParseFile
  <2>2. Head(unread) \in Range(found) /\ Head(unread) \in Path
    <3>1. Range(unread) \subseteq Range(found) /\ Range(found) \subseteq Path
      BY <2>1, RangeOfSeq
    <3> QED BY <2>1, <3>1, HeadTailRange
  <2>3. /\ Range(unread) = {Head(unread)} \cup Range(Tail(unread))
        /\ Range(Append(parsed, Head(unread))) = Range(parsed) \cup {Head(unread)}
        /\ Append(errors, Head(unread)) \in Seq(Path) /\ Append(errors, Head(unread)) # <<>>
    BY <2>1, <2>2, HeadTailRange, AppendRange, AppendProperties
  <2>4. /\ unread' = Tail(unread) /\ found' = found /\ phase = "parse" /\ phase' = phase
        /\ \/ /\ parsed' = parsed /\ failed' = failed \cup {Head(unread)}
              /\ errors' = Append(errors, Head(unread))
           \/ parsed' = Append(parsed, Head(unread)) /\ failed' = failed /\ errors' = errors
    BY <1>6 DEF ParseFile
  <2> QED BY <2>3, <2>4
<1>7. CASE GroupPackages
  BY <1>7 DEF GroupPackages
<1>8. CASE AnnotatePackage
  BY <1>8 DEF AnnotatePackage
<1>9. CASE EndAnnotation
  BY <1>9 DEF EndAnnotation
<1>10. CASE AnalyzeFile
  BY <1>10 DEF AnalyzeFile
<1>11. CASE OpenReport
  BY <1>11 DEF OpenReport
<1>12. CASE WritePiece
  BY <1>12 DEF WritePiece
<1>13. CASE EndReport
  BY <1>13 DEF EndReport
<1>14. CASE UNCHANGED vars
  BY <1>14 DEF vars
<1> QED BY <1>1, <1>2, <1>3, <1>4, <1>5, <1>6, <1>7, <1>8, <1>9, <1>10, <1>11, <1>12, <1>13,
           <1>14 DEF Next

\* Sorting keeps the number of violations.
LEMMA SortKeepsLength ==
    ASSUME NEW S, NEW vs \in Seq(S)
    PROVE  /\ IsSequence(SortViolations(vs)) /\ DOMAIN SortViolations(vs) = DOMAIN vs
           /\ SortViolations(vs) = <<>> <=> vs = <<>>
<1>1. DOMAIN SortViolations(vs) = 1 .. Len(vs) /\ Len(vs) \in Nat
  BY DEF SortViolations
<1>2. SortViolations(vs) = [n \in 1 .. Len(vs) |-> SortViolations(vs)[n]]
  BY DEF SortViolations
<1> QED BY <1>1, <1>2 DEF IsSequence

LEMMA JudgedStep ==
    ASSUME NEW Violation
    PROVE  RulesReport(Violation) /\ TypeInv /\ FactsInv /\ JudgedInv(Violation)
             /\ [Next \/ Exited]_vars => JudgedInv(Violation)'
<1> SUFFICES ASSUME RulesReport(Violation), TypeInv, FactsInv, JudgedInv(Violation),
                    Next \/ UNCHANGED vars
             PROVE  JudgedInv(Violation)'
  BY DEF Exited
<1> USE DEF JudgedInv, Return, runVars, commandVars, optionVars
<1>1. CASE ReadCommand
  BY <1>1 DEF ReadCommand, ReadArguments, Start, EndOptions, Switch, TakeValue,
              RejectOption, Positional, Reading
<1>2. CASE SelectRenderer
  BY <1>2 DEF SelectRenderer
<1>3. CASE LoadRuleSets
  BY <1>3 DEF LoadRuleSets
<1>4. CASE Discover
  BY <1>4 DEF Discover
<1>5. CASE SortSources
  BY <1>5 DEF SortSources
<1>6. CASE ParseFile
  BY <1>6 DEF ParseFile
<1>7. CASE GroupPackages
  BY <1>7 DEF GroupPackages
<1>8. CASE AnnotatePackage
  BY <1>8 DEF AnnotatePackage
<1>9. CASE EndAnnotation
  BY <1>9 DEF EndAnnotation
<1>10. CASE AnalyzeFile
  <2>1. /\ phase = "analyze" /\ phase' = phase /\ checked' = checked + 1 /\ checked < Len(parsed)
        /\ violations' = violations \o Analyze(parsed[checked + 1])
        /\ UNCHANGED <<fs, sets, parsed, facts, methods>>
    BY <1>10 DEF AnalyzeFile
  <2>2. checked \in Nat /\ Len(parsed) \in Nat /\ checked + 1 \in DOMAIN parsed
    BY <2>1 DEF TypeInv, FilesInv, TypeOK
  <2>3. parsed[checked + 1] \in Range(parsed)
    BY <2>2 DEF Range
  <2>4. Analyze(parsed[checked + 1]) \in Seq(Violation) /\ violations \in Seq(Violation)
    BY <2>1, <2>3, AnalyzeType
  <2>5. /\ violations' \in Seq(Violation)
        /\ violations' = <<>> => violations = <<>> /\ Analyze(parsed[checked + 1]) = <<>>
    BY <2>1, <2>4, ConcatProperties, ConcatEqualIffEmpty
  <2>6. \A i \in 1 .. checked + 1 : i \in 1 .. checked \/ i = checked + 1
    BY <2>2
  <2>7. violations' = <<>> => \A i \in 1 .. checked + 1 : Analyze(parsed[i]) = <<>>
    BY <2>1, <2>5, <2>6
  <2>8. \A i : Analyze(parsed[i])' = Analyze(parsed[i])
    <3>1. \A p : Analyze(p)' = Analyze(p)
      BY <2>1, AnalyzeSettled
    <3> QED BY <2>1, <3>1
  <2> QED BY <2>1, <2>5, <2>7, <2>8
<1>11. CASE OpenReport
  <2>1. /\ phase = "analyze" /\ checked = Len(parsed) /\ UNCHANGED <<fs, sets, parsed, facts, methods, checked>>
        /\ violations' = SortViolations(violations) /\ phase' \in {"write", "done"}
    BY <1>11 DEF OpenReport
  <2>2. violations' = <<>> <=> violations = <<>>
    BY <2>1, SortKeepsLength
  <2>3. \A i : Analyze(parsed[i])' = Analyze(parsed[i])
    <3>1. \A p : Analyze(p)' = Analyze(p)
      BY <2>1, AnalyzeSettled
    <3> QED BY <2>1, <3>1
  <2> QED BY <2>1, <2>2, <2>3
<1>12. CASE WritePiece
  <2>1. /\ UNCHANGED <<fs, sets, parsed, facts, methods, checked, violations, phase>>
        /\ phase = "write"
    BY <1>12 DEF WritePiece
  <2>2. \A i : Analyze(parsed[i])' = Analyze(parsed[i])
    <3>1. \A p : Analyze(p)' = Analyze(p)
      BY <2>1, AnalyzeSettled
    <3> QED BY <2>1, <3>1
  <2> QED BY <2>1, <2>2
<1>13. CASE EndReport
  BY <1>13 DEF EndReport
<1>14. CASE UNCHANGED vars
  <2>1. UNCHANGED <<fs, sets, parsed, facts, methods, checked, violations, phase>>
    BY <1>14 DEF vars
  <2>2. \A i : Analyze(parsed[i])' = Analyze(parsed[i])
    <3>1. \A p : Analyze(p)' = Analyze(p)
      BY <2>1, AnalyzeSettled
    <3> QED BY <2>1, <3>1
  <2> QED BY <2>1, <2>2
<1> QED BY <1>1, <1>2, <1>3, <1>4, <1>5, <1>6, <1>7, <1>8, <1>9, <1>10, <1>11, <1>12, <1>13,
           <1>14 DEF Next
\* Only an answer to a question and a written report end a run with 0.
LEMMA EndsWithZero ==
    ASSUME TypeInv, Next \/ UNCHANGED vars, exit' = 0
    PROVE  \/ UNCHANGED vars
           \/ AsksInformation /\ args' = args
           \/ EndReport
<1> USE DEF Return, runVars, commandVars, optionVars
<1>1. phase # "done" => exit = NoExit /\ NoExit # 0
  BY CommandAssumption DEF TypeInv, TypeOK
<1>2. CASE ReadCommand
  <2>1. CASE Start
    BY <1>1, <1>2, <2>1 DEF Start, ReadCommand
  <2>2. CASE EndOptions
    BY <1>1, <2>2 DEF EndOptions
  <2>3. ASSUME NEW a, Switch(a) \/ TakeValue(a) \/ RejectOption(a) \/ Positional(a) PROVE FALSE
    BY <1>1, <2>3 DEF Switch, TakeValue, RejectOption, Positional, Reading
  <2> QED BY <1>2, <2>1, <2>2, <2>3 DEF ReadCommand, ReadArguments
<1>3. CASE SelectRenderer
  BY <1>1, <1>3 DEF SelectRenderer
<1>4. CASE LoadRuleSets
  BY <1>1, <1>4 DEF LoadRuleSets
<1>5. CASE Discover
  BY <1>1, <1>5 DEF Discover
<1>6. CASE SortSources \/ ParseFile \/ GroupPackages \/ AnnotatePackage \/ EndAnnotation \/ AnalyzeFile
  BY <1>1, <1>6 DEF SortSources, ParseFile, GroupPackages, AnnotatePackage, EndAnnotation, AnalyzeFile
<1>7. CASE OpenReport
  BY <1>1, <1>7 DEF OpenReport
<1>8. CASE WritePiece
  BY <1>1, <1>8 DEF WritePiece
<1> QED BY <1>2, <1>3, <1>4, <1>5, <1>6, <1>7, <1>8 DEF Next

LEMMA SilentStep ==
    ASSUME NEW Violation
    PROVE  TypeInv /\ AccountInv /\ JudgedInv(Violation) /\ NoSilentSuccess
             /\ [Next \/ Exited]_vars => NoSilentSuccess'
<1> SUFFICES ASSUME TypeInv, AccountInv, JudgedInv(Violation), NoSilentSuccess,
                    Next \/ UNCHANGED vars, exit' = 0, ~ AsksInformation'
             PROVE  /\ ~ Given("--ignore-errors-on-exit")' => failed' = {} /\ Range(parsed') = Range(found')
                    /\ ~ Given("--ignore-violations-on-exit")' =>
                          \A p \in Range(parsed') : Analyze(p)' = <<>>
  BY DEF Exited, NoSilentSuccess
<1>1. CASE UNCHANGED vars
  <2>1. UNCHANGED <<args, switches, exit, fs, sets, found, parsed, failed, facts, methods>>
    BY <1>1 DEF vars, commandVars, runVars, optionVars
  <2>2. exit = 0 /\ ~ AsksInformation
    BY <2>1 DEF AsksInformation
  <2>3. \A p : Analyze(p)' = Analyze(p)
    BY <2>1, AnalyzeSettled
  <2> QED BY <2>1, <2>2, <2>3 DEF NoSilentSuccess, Given
<1>2. CASE AsksInformation /\ args' = args
  BY <1>2 DEF AsksInformation
<1>3. CASE EndReport
  <2>1. /\ phase = "write" /\ ExitCodeFor = 0
        /\ UNCHANGED <<switches, fs, sets, found, parsed, failed, facts, methods>>
    BY <1>3 DEF EndReport, Return, optionVars, runVars
  <2>2. /\ ~ Given("--ignore-errors-on-exit") => errors = <<>>
        /\ ~ Given("--ignore-violations-on-exit") => violations = <<>>
    BY <2>1 DEF ExitCodeFor
  <2>3. errors = <<>> => failed = {} /\ Range(parsed) = Range(found)
    <3>1. Range(<<>>) = {}
      BY DEF Range
    <3> QED BY <2>1, <3>1 DEF AccountInv, AfterDiscovery
  <2>4. violations = <<>> => \A p \in Range(parsed) : Analyze(p) = <<>>
    <3>1. DOMAIN parsed = 1 .. checked
      BY <2>1 DEF JudgedInv, TypeInv, FilesInv
    <3> QED BY <2>1, <3>1 DEF JudgedInv, Range
  <2>5. \A p : Analyze(p)' = Analyze(p)
    BY <2>1, AnalyzeSettled
  <2> QED BY <2>1, <2>2, <2>3, <2>4, <2>5 DEF Given
<1> QED BY <1>1, <1>2, <1>3, EndsWithZero

\* A run that ends with 0 and was not asked to forgive has read every file it
\* found and no rule reports anything of them, whatever the rules are, as long
\* as what a rule reports is a list (exitCodeFor).
THEOREM NeverSilent ==
    ASSUME NEW Violation
    PROVE  Spec /\ []RulesReport(Violation) => []NoSilentSuccess
<1>1. Init => FactsInv /\ AccountInv /\ JudgedInv(Violation) /\ NoSilentSuccess
  <2> SUFFICES ASSUME Init PROVE FactsInv /\ AccountInv /\ JudgedInv(Violation) /\ NoSilentSuccess
    OBVIOUS
  <2> USE DEF Init, CommandInit
  <2>1. FactsInv
    BY DEF FactsInv, Range
  <2>2. AccountInv
    BY DEF AccountInv, AfterDiscovery
  <2>3. JudgedInv(Violation)
    BY DEF JudgedInv
  <2>4. NoSilentSuccess
    BY CommandAssumption DEF NoSilentSuccess
  <2> QED BY <2>1, <2>2, <2>3, <2>4
<1>2. RulesReport(Violation) /\ TypeInv /\ FactsInv /\ JudgedInv(Violation) /\ [Next \/ Exited]_vars
        => JudgedInv(Violation)'
  BY JudgedStep
<1>3. TypeInv /\ AccountInv /\ JudgedInv(Violation) /\ NoSilentSuccess
        /\ [Next \/ Exited]_vars => NoSilentSuccess'
  BY SilentStep
<1> QED BY <1>1, <1>2, <1>3, TypeStart, TypeStep, FactsStep, AccountStep, PTL DEF Spec
-----------------------------------------------------------------------------
(* What the caller sees *)

\* A list of pieces none of which is what the report file held before.
Fresh(s) == IsSequence(s) /\ \A i \in DOMAIN s : s[i] # Piece("old", "")

LEMMA SeqIsSequence ==
    ASSUME NEW S, NEW s \in Seq(S)
    PROVE  IsSequence(s) /\ DOMAIN s = 1 .. Len(s) /\ Len(s) \in Nat
BY DEF IsSequence

LEMMA ListIsSequence ==
    ASSUME NEW n \in Nat, NEW s, s = [i \in 1 .. n |-> s[i]]
    PROVE  IsSequence(s) /\ DOMAIN s = 1 .. n /\ Len(s) = n
<1> DEFINE S == {s[i] : i \in DOMAIN s}
<1>1. DOMAIN s = 1 .. n
  OBVIOUS
<1>2. \A i \in 1 .. n : s[i] \in S
  BY <1>1
<1>3. IsSequence(s) = (s \in Seq(S))
  BY DEF IsSequence
<1> HIDE DEF S
<1>4. s \in [1 .. n -> S]
  BY <1>2
<1>5. s \in Seq(S)
  BY <1>4
<1>6. DOMAIN s = 1 .. Len(s) /\ Len(s) \in Nat
  BY <1>5
<1>7. Len(s) = n
  BY <1>1, <1>6
<1> QED BY <1>1, <1>3, <1>5, <1>7

LEMMA FreshPieces ==
    ASSUME NEW kind, kind # "old", NEW s, IsSequence(s)
    PROVE  Fresh(Pieces(kind, s))
<1>1. PICK n \in Nat : DOMAIN s = 1 .. n
  BY DEF IsSequence
<1>2. \A x : Piece(kind, x) # Piece("old", "")
  BY DEF Piece
<1>3. Pieces(kind, s) = [i \in 1 .. n |-> Piece(kind, s[i])]
  BY <1>1 DEF Pieces
<1>4. IsSequence(Pieces(kind, s))
  BY <1>3, ListIsSequence
<1> QED BY <1>2, <1>3, <1>4 DEF Fresh

LEMMA FreshPiece ==
    ASSUME NEW kind, kind # "old", NEW of
    PROVE  Fresh(<<Piece(kind, of)>>)
<1> DEFINE s == <<Piece(kind, of)>>
<1>1. Piece(kind, of) # Piece("old", "")
  BY DEF Piece
<1>2. DOMAIN s = 1 .. 1 /\ s[1] = Piece(kind, of)
  OBVIOUS
<1>3. s \in Seq({Piece(kind, of)})
  OBVIOUS
<1> HIDE DEF s
<1>4. IsSequence(s)
  BY <1>3, SeqIsSequence
<1>5. \A i \in DOMAIN s : i = 1
  BY <1>2
<1>6. \A i \in DOMAIN s : s[i] # Piece("old", "")
  BY <1>1, <1>2, <1>5
<1>7. Fresh(s)
  BY <1>4, <1>6 DEF Fresh
<1> QED BY <1>7 DEF s

LEMMA FreshConcat ==
    ASSUME NEW s, NEW t, Fresh(s), Fresh(t)
    PROVE  Fresh(s \o t)
<1> DEFINE S == {s[i] : i \in DOMAIN s} \cup {t[i] : i \in DOMAIN t}
<1>1. s \in Seq(S) /\ t \in Seq(S)
  <2> DEFINE A == {s[i] : i \in DOMAIN s}
             B == {t[i] : i \in DOMAIN t}
  <2>1. s \in Seq(A) /\ t \in Seq(B) /\ A \subseteq S /\ B \subseteq S
    BY DEF Fresh, IsSequence
  <2> HIDE DEF A, B, S
  <2> QED BY <2>1, SeqMonotonic
<1>2. \A x \in S : x # Piece("old", "")
  BY DEF Fresh
<1> HIDE DEF S
<1>3. s \o t \in Seq(S)
  BY <1>1
<1>4. \A i \in DOMAIN (s \o t) : (s \o t)[i] \in S
  BY <1>3
<1> QED BY <1>2, <1>3, <1>4, SeqIsSequence DEF Fresh

LEMMA FreshFlatten ==
    ASSUME NEW ss, IsSequence(ss), \A i \in DOMAIN ss : Fresh(ss[i])
    PROVE  Fresh(FlattenSeq(ss))
<1> DEFINE S == UNION {Range(ss[i]) : i \in DOMAIN ss}
           T == Seq(S)
<1>1. ASSUME NEW i \in DOMAIN ss PROVE ss[i] \in T
  <2> DEFINE A == {ss[i][k] : k \in DOMAIN ss[i]}
  <2>1. ss[i] \in Seq(A) /\ A \subseteq S
    BY DEF Fresh, IsSequence, Range
  <2> HIDE DEF A, S
  <2> QED BY <2>1, SeqMonotonic
<1>2. \A x \in S : x # Piece("old", "")
  BY DEF Fresh, Range
<1>3. PICK n \in Nat : DOMAIN ss = 1 .. n /\ ss = [i \in 1 .. n |-> ss[i]]
  BY DEF IsSequence
<1> HIDE DEF S, T
<1>4. ss \in Seq(T)
  BY <1>1, <1>3
<1>5. FlattenSeq(ss) \in Seq(S)
  BY <1>4, FlattenElements DEF T
<1>6. \A i \in DOMAIN FlattenSeq(ss) : FlattenSeq(ss)[i] \in S
  BY <1>5
<1> QED BY <1>2, <1>5, <1>6, SeqIsSequence DEF Fresh

\* The violations of a file stand together.
Contiguous(vs) ==
    \A i, j, k \in DOMAIN vs : i <= j /\ j <= k /\ vs[i].file = vs[k].file => vs[j].file = vs[i].file

\* A run reaches to the last violation before one of another file.
LEMMA RunEndLast ==
    ASSUME NEW vs, IsSequence(vs), NEW first \in 1 .. Len(vs)
    PROVE  /\ RunEnd(vs, first) \in first .. Len(vs)
           /\ \A i \in first .. RunEnd(vs, first) : vs[i].file = vs[first].file
           /\ RunEnd(vs, first) < Len(vs) => vs[RunEnd(vs, first) + 1].file # vs[first].file
<1> DEFINE others == {i \in first + 1 .. Len(vs) : vs[i].file # vs[first].file}
<1>1. Len(vs) \in Nat
  BY DEF IsSequence
<1>2. RunEnd(vs, first) = IF others = {} THEN Len(vs) ELSE Min(others) - 1
  BY DEF RunEnd
<1>3. others \subseteq first + 1 .. Len(vs) /\ others \subseteq Nat
  BY <1>1
<1>4. \A i \in first .. Len(vs) : i \notin others => vs[i].file = vs[first].file
  BY <1>1
<1>5. \A i \in others : vs[i].file # vs[first].file
  OBVIOUS
<1> HIDE DEF others
<1>6. CASE others = {}
  BY <1>1, <1>2, <1>4, <1>6
<1>7. CASE others # {}
  <2>1. \E m \in others : \A k \in others : m <= k
    BY <1>3, <1>7, LeastNatural
  <2>2. Min(others) \in others /\ \A k \in others : Min(others) <= k
    BY <2>1 DEF Min
  <2> DEFINE m == Min(others)
  <2> HIDE DEF m
  <2>3. m \in first + 1 .. Len(vs) /\ \A k \in others : m <= k
    BY <1>3, <2>2 DEF m
  <2>4. \A i \in first .. m - 1 : i \in first .. Len(vs) /\ i \notin others
    BY <1>1, <1>3, <2>3
  <2>5. RunEnd(vs, first) = m - 1 /\ (m - 1) + 1 = m /\ m \in others
    BY <1>2, <1>7, <2>2, <2>3 DEF m
  <2> QED BY <1>1, <1>4, <1>5, <2>3, <2>4, <2>5
<1> QED BY <1>6, <1>7

\* What is left to read begins with a violation of another file, or with the
\* first; what was read is in runs of one file each, and none of it is missing.
Handed(vs, turn) ==
    /\ turn \in Turns(vs) /\ (turn.pending => turn.read # 0)
    /\ RunStart(turn) \in 2 .. Len(vs) => vs[RunStart(turn)].file # vs[RunStart(turn) - 1].file
    /\ \A n \in DOMAIN turn.runs :
          /\ turn.runs[n] # <<>>
          /\ \A j \in DOMAIN turn.runs[n] : turn.runs[n][j].file = turn.runs[n][1].file
          /\ \E i \in 1 .. RunStart(turn) - 1 : turn.runs[n][1] = vs[i]
    /\ \A i \in 1 .. RunStart(turn) - 1 :
          \E n \in DOMAIN turn.runs : \E j \in DOMAIN turn.runs[n] : turn.runs[n][j] = vs[i]
    /\ Contiguous(vs) => \A n, m \in DOMAIN turn.runs :
                            n < m => turn.runs[n][1].file # turn.runs[m][1].file

LEMMA NextRunHanded ==
    ASSUME NEW vs, IsSequence(vs), NEW turn, Handed(vs, turn), ~ Exhausted(vs, turn)
    PROVE  Handed(vs, NextRun(vs, turn)) /\ RunStart(NextRun(vs, turn)) > RunStart(turn)
<1> DEFINE first == RunStart(turn)
           last == RunEnd(vs, first)
           run == SubSeq(vs, first, last)
           new == NextRun(vs, turn)
           V == Range(vs)
           R == Seq(V)
<1>1. /\ Len(vs) \in Nat /\ DOMAIN vs = 1 .. Len(vs) /\ \A i \in 1 .. Len(vs) : vs[i] \in V
  BY DEF IsSequence, Range
<1>2. /\ turn.runs \in Seq(R) /\ turn.read \in 0 .. Len(vs) /\ turn.pending \in BOOLEAN
      /\ turn.pending => turn.read # 0
  BY DEF Handed, Turns
<1>3. first \in 1 .. Len(vs)
  BY <1>1, <1>2 DEF RunStart, Exhausted
<1>4. /\ last \in first .. Len(vs) /\ \A i \in first .. last : vs[i].file = vs[first].file
      /\ last < Len(vs) => vs[last + 1].file # vs[first].file
  BY <1>3, RunEndLast
<1>5. /\ new.runs = Append(turn.runs, run)
      /\ new.read = IF last < Len(vs) THEN last + 1 ELSE last
      /\ new.pending = (last < Len(vs))
      /\ new = [runs |-> new.runs, read |-> new.read, pending |-> new.pending]
  BY DEF NextRun
<1>6. /\ (\A i \in 1 .. first - 1 :
            \E n \in DOMAIN turn.runs : \E j \in DOMAIN turn.runs[n] : turn.runs[n][j] = vs[i])
      /\ (\A n \in DOMAIN turn.runs :
            /\ turn.runs[n] # <<>>
            /\ \A j \in DOMAIN turn.runs[n] : turn.runs[n][j].file = turn.runs[n][1].file
            /\ \E i \in 1 .. first - 1 : turn.runs[n][1] = vs[i])
      /\ Contiguous(vs) => \A n, m \in DOMAIN turn.runs :
                            n < m => turn.runs[n][1].file # turn.runs[m][1].file
      /\ first \in 2 .. Len(vs) => vs[first].file # vs[first - 1].file
  BY DEF Handed
<1> HIDE DEF first, last, V
<1>7. /\ run \in Seq(V) /\ Len(run) = last - first + 1
      /\ \A j \in 1 .. last - first + 1 : run[j] = vs[first + j - 1]
  <2>1. \A i \in first .. last : vs[i] \in V
    BY <1>1, <1>3, <1>4
  <2>2. first \in Int /\ last \in Int /\ first <= last
    BY <1>3, <1>4
  <2> QED BY <2>1, <2>2, SubSeqProperties
<1>8. DOMAIN run = 1 .. last - first + 1 /\ 1 \in DOMAIN run /\ run # <<>> /\ run[1] = vs[first]
  BY <1>3, <1>4, <1>7
<1>9. \A j \in DOMAIN run : run[j].file = run[1].file
  <2>1. \A j \in 1 .. last - first + 1 : first + j - 1 \in first .. last
    BY <1>3, <1>4
  <2> SUFFICES ASSUME NEW j \in DOMAIN run PROVE run[j].file = run[1].file
    OBVIOUS
  <2>2. run[j] = vs[first + j - 1] /\ first + j - 1 \in first .. last
    BY <1>7, <1>8, <2>1
  <2>3. vs[first + j - 1].file = vs[first].file
    BY <1>4, <2>2
  <2> QED BY <1>8, <2>2, <2>3
<1>10. \A i \in first .. last : \E j \in DOMAIN run : run[j] = vs[i]
  <2>1. \A i \in first .. last : i - first + 1 \in 1 .. last - first + 1 /\ first + (i - first + 1) - 1 = i
    BY <1>3, <1>4
  <2> QED BY <1>7, <1>8, <2>1
<1> HIDE DEF run, R, new
<1> DEFINE runs == new.runs
           k == Len(turn.runs)
<1>11. /\ runs \in Seq(R) /\ DOMAIN runs = 1 .. k + 1 /\ k \in Nat /\ DOMAIN turn.runs = 1 .. k
       /\ \A n \in 1 .. k : runs[n] = turn.runs[n]
       /\ runs[k + 1] = run
  <2>1. run \in R
    BY <1>7 DEF R
  <2> QED BY <1>2, <1>5, <2>1, AppendProperties
<1> HIDE DEF k, runs
<1>12. RunStart(new) = last + 1
  BY <1>1, <1>3, <1>4, <1>5 DEF RunStart
<1>13. new \in Turns(vs) /\ (new.pending => new.read # 0)
  <2>1. new.read \in 0 .. Len(vs) /\ new.pending \in BOOLEAN /\ (new.pending => new.read # 0)
    BY <1>1, <1>3, <1>4, <1>5
  <2> QED BY <1>5, <1>11, <2>1 DEF Turns, R, V, runs
<1>14. RunStart(new) \in 2 .. Len(vs) => vs[RunStart(new)].file # vs[RunStart(new) - 1].file
  <2>1. last + 1 \in 2 .. Len(vs) => last < Len(vs)
    BY <1>1, <1>3, <1>4
  <2>2. last \in first .. last /\ (last + 1) - 1 = last
    BY <1>3, <1>4
  <2> QED BY <1>4, <1>12, <2>1, <2>2
<1>15. ASSUME NEW n \in DOMAIN runs
       PROVE  /\ runs[n] # <<>>
              /\ \A j \in DOMAIN runs[n] : runs[n][j].file = runs[n][1].file
              /\ \E i \in 1 .. RunStart(new) - 1 : runs[n][1] = vs[i]
  <2>1. CASE n = k + 1
    <3>1. first \in 1 .. RunStart(new) - 1
      BY <1>3, <1>4, <1>12
    <3> QED BY <1>8, <1>9, <1>11, <2>1, <3>1
  <2>2. CASE n \in 1 .. k
    <3>1. \A i \in 1 .. first - 1 : i \in 1 .. RunStart(new) - 1
      BY <1>3, <1>4, <1>12
    <3>2. runs[n] = turn.runs[n] /\ n \in DOMAIN turn.runs
      BY <1>11, <2>2
    <3> QED BY <1>6, <3>1, <3>2
  <2> QED BY <1>11, <2>1, <2>2
<1>16. ASSUME NEW i \in 1 .. RunStart(new) - 1
       PROVE  \E n \in DOMAIN runs : \E j \in DOMAIN runs[n] : runs[n][j] = vs[i]
  <2>1. i \in 1 .. first - 1 \/ i \in first .. last
    BY <1>3, <1>4, <1>12
  <2>2. CASE i \in 1 .. first - 1
    <3>1. PICK n \in DOMAIN turn.runs : \E j \in DOMAIN turn.runs[n] : turn.runs[n][j] = vs[i]
      BY <1>6, <2>2
    <3>2. n \in DOMAIN runs /\ runs[n] = turn.runs[n]
      BY <1>11, <3>1
    <3> QED BY <3>1, <3>2
  <2>3. CASE i \in first .. last
    <3>1. k + 1 \in DOMAIN runs
      BY <1>11
    <3> QED BY <1>10, <1>11, <2>3, <3>1
  <2> QED BY <2>1, <2>2, <2>3
<1>17. ASSUME Contiguous(vs), NEW n \in DOMAIN runs, NEW m \in DOMAIN runs, n < m
       PROVE  runs[n][1].file # runs[m][1].file
  <2>1. n \in 1 .. k /\ runs[n] = turn.runs[n]
    BY <1>11, <1>17
  <2>2. CASE m \in 1 .. k
    <3>1. runs[m] = turn.runs[m] /\ m \in DOMAIN turn.runs /\ n \in DOMAIN turn.runs
      BY <1>11, <2>1, <2>2
    <3> QED BY <1>6, <1>17, <2>1, <3>1
  <2>3. CASE m = k + 1
    <3>1. PICK i \in 1 .. first - 1 : turn.runs[n][1] = vs[i]
      BY <1>6, <1>11, <2>1
    <3>2. /\ first \in 2 .. Len(vs) /\ i \in DOMAIN vs /\ first - 1 \in DOMAIN vs /\ first \in DOMAIN vs
          /\ i <= first - 1 /\ first - 1 <= first
      BY <1>1, <1>3
    <3>3. vs[first].file # vs[first - 1].file
      BY <1>6, <3>2
    <3>4. vs[i].file # vs[first].file
      BY <1>17, <3>2, <3>3 DEF Contiguous
    <3> QED BY <1>8, <1>11, <2>1, <2>3, <3>1, <3>4
  <2> QED BY <1>11, <2>2, <2>3
<1>18. Handed(vs, new)
  BY <1>13, <1>14, <1>15, <1>16, <1>17 DEF Handed, runs
<1>19. RunStart(new) > first
  BY <1>3, <1>4, <1>12
<1> QED BY <1>18, <1>19 DEF new, first

\* The runs are of one file each, files of their own if the violations of a
\* file stand together, and together they hold every violation.
LEMMA FileRunsComplete ==
    ASSUME NEW vs, IsSequence(vs)
    PROVE  /\ FileRuns(vs) \in Seq(Seq(Range(vs)))
           /\ \A n \in DOMAIN FileRuns(vs) :
                 /\ FileRuns(vs)[n] # <<>>
                 /\ \A j \in DOMAIN FileRuns(vs)[n] : FileRuns(vs)[n][j].file = FileRuns(vs)[n][1].file
           /\ \A i \in DOMAIN vs :
                 \E n \in DOMAIN FileRuns(vs) : \E j \in DOMAIN FileRuns(vs)[n] : FileRuns(vs)[n][j] = vs[i]
           /\ Contiguous(vs) => \A n, m \in DOMAIN FileRuns(vs) :
                 n < m => FileRuns(vs)[n][1].file # FileRuns(vs)[m][1].file
<1> DEFINE T == Turns(vs)
           l == Len(vs)
           H == {t \in T : Handed(vs, t)}
           step(t) == IF Exhausted(vs, t) THEN t ELSE NextRun(vs, t)
           next == [t \in T |-> step(t)]
           Is(f) == f = [k \in 0 .. l |-> IF k = 0 THEN NoRuns ELSE next[f[k - 1]]]
           after == CHOOSE f : Is(f)
           G == [p \in (1 .. l) \X H |-> next[p[2]]]
<1>1. l \in Nat /\ DOMAIN vs = 1 .. l
  BY DEF IsSequence
<1>2. FileRuns(vs) = after[l].runs
  BY DEF FileRuns
<1>3. NoRuns \in H /\ RunStart(NoRuns) = 1
  <2>1. RunStart(NoRuns) = 1 /\ NoRuns.runs = <<>> /\ ~ NoRuns.pending
    BY DEF NoRuns, RunStart
  <2>2. NoRuns \in T
    BY <1>1 DEF NoRuns, Turns
  <2>3. Handed(vs, NoRuns)
    BY <2>1, <2>2 DEF Handed
  <2> QED BY <2>1, <2>2, <2>3
<1>4. ASSUME NEW t \in H
      PROVE  /\ t \in T /\ next[t] \in H
             /\ Exhausted(vs, t) \/ RunStart(next[t]) > RunStart(t)
             /\ Exhausted(vs, t) => next[t] = t
  <2>1. t \in T /\ Handed(vs, t)
    OBVIOUS
  <2>2. next[t] = step(t)
    BY <2>1
  <2> HIDE DEF next, T
  <2>3. CASE Exhausted(vs, t)
    BY <2>1, <2>2, <2>3
  <2>4. CASE ~ Exhausted(vs, t)
    <3>1. Handed(vs, NextRun(vs, t)) /\ RunStart(NextRun(vs, t)) > RunStart(t)
      BY <2>1, <2>4, NextRunHanded
    <3>2. NextRun(vs, t) \in T
      BY <3>1 DEF Handed, T
    <3> QED BY <2>1, <2>2, <2>4, <3>1, <3>2
  <2> QED BY <2>3, <2>4
<1> HIDE DEF H, next
<1>5. G \in [(1 .. l) \X H -> H]
  BY <1>4
<1>6. Is(after)
  <2>1. PICK f : Builds(l, H, NoRuns, G, f)
    <3> HIDE DEF G, l
    <3> QED BY <1>1, <1>3, <1>5, Recursion
  <2>2. f \in [0 .. l -> H] /\ f[0] = NoRuns /\ \A i \in 1 .. l : f[i] = G[<<i, f[i - 1]>>]
    BY <2>1 DEF Builds
  <2>3. \A i \in 1 .. l : i - 1 \in 0 .. l
    BY <1>1
  <2>4. \A i \in 1 .. l : f[i] = next[f[i - 1]]
    BY <2>2, <2>3
  <2>5. \A i \in 0 .. l : f[i] = IF i = 0 THEN NoRuns ELSE next[f[i - 1]]
    BY <1>1, <2>2, <2>4
  <2>6. Is(f)
    <3> HIDE DEF l, G
    <3> QED BY <2>2, <2>5
  <2> HIDE DEF Is
  <2> QED BY <2>6
<1> HIDE DEF after
<1>7. after[0] = NoRuns /\ \A i \in 1 .. l : after[i] = next[after[i - 1]]
  <2> HIDE DEF l
  <2> QED BY <1>1, <1>6
<1> DEFINE Good == {k \in 0 .. l : /\ after[k] \in H
                                   /\ Exhausted(vs, after[k]) \/ RunStart(after[k]) > k}
<1>8. 0 \in Good
  BY <1>1, <1>3, <1>7
<1>9. ASSUME NEW t \in H PROVE RunStart(t) \in Nat
  BY <1>1, <1>4, <1>9 DEF Turns, RunStart
<1>10. ASSUME NEW k \in 0 .. l - 1, k \in Good PROVE k + 1 \in Good
  <2>1. k + 1 \in 1 .. l /\ (k + 1) - 1 = k /\ k + 1 \in 0 .. l
    BY <1>1
  <2>2. after[k + 1] = next[after[k]]
    BY <1>7, <2>1
  <2>3. after[k + 1] \in H /\ after[k] \in H
    BY <1>4, <1>10, <2>2
  <2>4. CASE Exhausted(vs, after[k])
    BY <1>4, <2>1, <2>2, <2>3, <2>4
  <2>5. CASE ~ Exhausted(vs, after[k])
    <3>1. RunStart(after[k + 1]) > RunStart(after[k]) /\ RunStart(after[k]) > k
      BY <1>4, <1>10, <2>2, <2>3, <2>5
    <3>2. RunStart(after[k + 1]) > k + 1
      BY <1>9, <2>3, <3>1
    <3> QED BY <2>1, <2>3, <3>2
  <2> QED BY <2>4, <2>5
<1>11. l \in Good
  <2>1. l \in 0 .. l
    BY <1>1
  <2> HIDE DEF Good, l
  <2> QED BY <1>1, <1>8, <1>10, <2>1, Inductive
<1> DEFINE t == after[l]
<1>12. Handed(vs, t) /\ t \in T /\ (Exhausted(vs, t) \/ RunStart(t) > l)
  BY <1>11 DEF H
<1> HIDE DEF t
<1>13. RunStart(t) = l + 1
  <2>1. t.read \in 0 .. l /\ t.pending \in BOOLEAN
    BY <1>12 DEF Turns
  <2> QED BY <1>1, <1>12, <2>1 DEF RunStart, Exhausted
<1>14. \A i \in DOMAIN vs : i \in 1 .. RunStart(t) - 1
  BY <1>1, <1>13
<1>15. FileRuns(vs) = t.runs
  BY <1>2 DEF t
<1>16. t.runs \in Seq(Seq(Range(vs)))
  BY <1>12 DEF Turns
<1> QED BY <1>12, <1>14, <1>15, <1>16 DEF Handed

LEMMA FileRunsType ==
    ASSUME NEW vs, IsSequence(vs)
    PROVE  IsSequence(FileRuns(vs)) /\ \A n \in DOMAIN FileRuns(vs) : IsSequence(FileRuns(vs)[n])
<1> DEFINE runs == FileRuns(vs)
           T == Seq(Range(vs))
<1>1. runs \in Seq(T)
  BY FileRunsComplete
<1> HIDE DEF runs, T
<1>2. IsSequence(runs) /\ \A n \in DOMAIN runs : runs[n] \in T
  BY <1>1, SeqIsSequence
<1>3. \A r \in T : IsSequence(r)
  BY SeqIsSequence DEF T
<1> QED BY <1>2, <1>3 DEF runs

LEMMA ByFileFresh ==
    ASSUME NEW vs, IsSequence(vs)
    PROVE  Fresh(ByFile(vs))
<1> DEFINE runs == FileRuns(vs)
           ss == [n \in DOMAIN runs |-> Opened(runs[n])]
<1>1. IsSequence(runs) /\ \A n \in DOMAIN runs : IsSequence(runs[n])
  BY FileRunsType
<1>2. \A n \in DOMAIN runs : Fresh(Opened(runs[n]))
  BY <1>1, FreshPieces, FreshPiece, FreshConcat DEF Opened
<1>3. ByFile(vs) = FlattenSeq(ss)
  BY DEF ByFile
<1> HIDE DEF runs
<1>4. IsSequence(ss) /\ DOMAIN ss = DOMAIN runs /\ \A n \in DOMAIN ss : Fresh(ss[n])
  BY <1>1, <1>2 DEF IsSequence
<1> HIDE DEF ss
<1> QED BY <1>3, <1>4, FreshFlatten

\* Whatever the format, the report is a list of new pieces.
LEMMA RenderedFresh ==
    ASSUME NEW format \in Formats, NEW vs, IsSequence(vs), NEW es, IsSequence(es)
    PROVE  Fresh(Rendered(format, vs, es))
<1>1. \A kind : kind # "old" => Fresh(Pieces(kind, vs)) /\ Fresh(Pieces(kind, es))
  BY FreshPieces
<1>2. Fresh(ByFile(vs))
  BY ByFileFresh
<1>3. \A body : Fresh(body) => Fresh(Framed(body))
  BY FreshPiece, FreshConcat DEF Framed
<1>4. \A content : Fresh(Document(content))
  BY FreshPiece DEF Document
<1>5. CASE format \in {"text", "ansi", "github"}
  BY <1>1, <1>5, FreshConcat DEF Rendered, TextReport, GitHubReport
<1>6. CASE format \in {"xml", "checkstyle", "html"}
  BY <1>1, <1>2, <1>3, <1>6, FreshConcat DEF Rendered, XMLReport, CheckStyleReport, HTMLReport
<1>7. CASE format \in {"json", "gitlab", "sarif"}
  BY <1>4, <1>7 DEF Rendered, JSONReport, GitLabReport, SARIFReport
<1> QED BY <1>5, <1>6, <1>7 DEF Formats
Report == Rendered(Format, violations, errors)

\* The format is known before anything is done, the report is as it was until
\* it is opened, and then what is written and what is left make it up, unless
\* a write failed: then something is missing.
ContractInv ==
    /\ phase \in Running \ {"renderer"} => Format \in Formats
    /\ phase \notin {"write", "done"} => output = Old /\ writeError = FALSE
    /\ phase = "write" =>
          /\ Fresh(Report)
          /\ output \in Seq(Range(Report)) /\ pieces \in Seq(Range(Report))
          /\ writeError => Len(output) < Len(Report)
          /\ ~ writeError => output \o pieces = Report

LEMMA NotOld ==
    ASSUME NEW R, Fresh(R), NEW s \in Seq(Range(R))
    PROVE  s # Old
<1>1. Old[1] = Piece("old", "") /\ 1 \in DOMAIN Old
  BY DEF Old
<1>2. Piece("old", "") \notin Range(R)
  BY DEF Fresh, Range
<1>3. \A i \in DOMAIN s : s[i] \in Range(R)
  OBVIOUS
<1> HIDE DEF Old
<1> QED BY <1>1, <1>2, <1>3

LEMMA Written ==
    ASSUME NEW S, NEW s \in Seq(S), NEW t \in Seq(S), t # <<>>
    PROVE  /\ Append(s, Head(t)) \in Seq(S) /\ Tail(t) \in Seq(S)
           /\ Append(s, Head(t)) \o Tail(t) = s \o t
           /\ Len(s) < Len(s \o t)
<1>1. Head(t) \in S /\ Tail(t) \in Seq(S) /\ Len(t) \in Nat \ {0} /\ Len(Tail(t)) = Len(t) - 1
  BY EmptySeq, HeadTailProperties
<1>2. /\ Append(s, Head(t)) \in Seq(S) /\ Len(Append(s, Head(t))) = Len(s) + 1
      /\ \A i \in 1 .. Len(s) : Append(s, Head(t))[i] = s[i]
      /\ Append(s, Head(t))[Len(s) + 1] = Head(t)
  BY <1>1, AppendProperties
<1> DEFINE a == Append(s, Head(t)) \o Tail(t)
           b == s \o t
<1>3. a \in Seq(S) /\ b \in Seq(S) /\ Len(a) = Len(s) + Len(t) /\ Len(b) = Len(s) + Len(t)
  BY <1>1, <1>2, ConcatProperties
<1>4. ASSUME NEW i \in 1 .. Len(a) PROVE a[i] = b[i]
  <2>1. CASE i <= Len(s)
    BY <1>1, <1>2, <1>3, <2>1, ConcatProperties
  <2>2. CASE i = Len(s) + 1
    BY <1>1, <1>2, <1>3, <2>2, ConcatProperties, HeadTailProperties
  <2>3. CASE i > Len(s) + 1
    BY <1>1, <1>2, <1>3, <2>3, ConcatProperties, HeadTailProperties
  <2> QED BY <1>3, <2>1, <2>2, <2>3
<1>5. a = b
  BY <1>3, <1>4, SeqEqual
<1>6. Len(s) < Len(b)
  BY <1>1, <1>3
<1> HIDE DEF a, b
<1>7. a = b /\ Len(s) < Len(b)
  BY <1>5, <1>6
<1> QED BY <1>1, <1>2, <1>7 DEF a, b
LEMMA ContractStart == Init => ContractInv
<1> SUFFICES ASSUME Init PROVE ContractInv
  OBVIOUS
<1> QED BY DEF Init, CommandInit, ContractInv, Running, Stages

LEMMA ContractStep ==
    ASSUME NEW Violation
    PROVE  TypeInv /\ AccountInv /\ JudgedInv(Violation) /\ ContractInv /\ [Next \/ Exited]_vars
             => ContractInv'
<1> SUFFICES ASSUME TypeInv, AccountInv, JudgedInv(Violation), ContractInv,
                    Next \/ UNCHANGED vars
             PROVE  ContractInv'
  BY DEF Exited
<1>1. phase \in Stages /\ phase' \in Stages
  BY TypeStep DEF TypeInv, TypeOK
<1>2. CASE ReadCommand
  <2>1. phase \in {"start", "options"} /\ phase' \in {"start", "options", "renderer", "done"}
    BY <1>2 DEF ReadCommand, ReadArguments, Start, EndOptions, Switch, TakeValue,
                RejectOption, Positional, Reading, Return
  <2>2. UNCHANGED <<output, writeError>>
    BY <1>2 DEF ReadCommand, runVars
  <2> QED BY <2>1, <2>2 DEF ContractInv, Running, Old
<1>3. CASE SelectRenderer
  <2>1. /\ UNCHANGED <<positionals, switches, output, writeError>> /\ phase = "renderer"
        /\ phase' = "done" \/ (phase' = "rulesets" /\ Format \in Formats)
    BY <1>3 DEF SelectRenderer, Return, optionVars, runVars
  <2> QED BY <2>1 DEF ContractInv, Running, Old, Format, Given
<1>4. CASE LoadRuleSets \/ Discover \/ SortSources \/ ParseFile \/ GroupPackages \/ AnnotatePackage
             \/ EndAnnotation \/ AnalyzeFile
  <2>1. /\ UNCHANGED <<positionals, switches, output, writeError>>
        /\ phase \in Running \ {"renderer", "write"} /\ phase' # "write"
    BY <1>4 DEF LoadRuleSets, Discover, SortSources, ParseFile, GroupPackages, AnnotatePackage,
                EndAnnotation, AnalyzeFile, Running, Stages, Return, optionVars, runVars
  <2> QED BY <2>1 DEF ContractInv, Old, Format, Given, Running
<1>5. CASE OpenReport
  <2>1. /\ UNCHANGED <<positionals, switches, errors, writeError>> /\ phase = "analyze"
        /\ violations' = SortViolations(violations)
        /\ \/ phase' = "done" /\ output' = output
           \/ phase' = "write" /\ pieces' = Report' /\ output' = <<>>
    BY <1>5 DEF OpenReport, Return, optionVars, Report, Format, Given
  <2>2. Format \in Formats /\ Format' = Format /\ writeError = FALSE /\ output = Old
    BY <2>1 DEF ContractInv, Running, Stages, Format, Given
  <2>3. IsSequence(violations') /\ IsSequence(errors)
    BY <2>1, SortKeepsLength, SeqIsSequence DEF JudgedInv, AccountInv
  <2>4. Fresh(Report')
    BY <2>1, <2>2, <2>3, RenderedFresh DEF Report
  <2>5. Report' \in Seq(Range(Report'))
    BY <2>4 DEF Fresh, IsSequence, Range
  <2>6. <<>> \in Seq(Range(Report')) /\ <<>> \o Report' = Report'
    BY <2>5, ConcatEmptySeq
  <2>7. CASE phase' = "done"
    BY <2>7 DEF ContractInv, Running
  <2>8. CASE phase' = "write"
    BY <2>1, <2>2, <2>4, <2>5, <2>6, <2>8 DEF ContractInv
  <2> QED BY <2>1, <2>7, <2>8
<1>6. CASE WritePiece
  <2>1. /\ UNCHANGED <<positionals, switches, violations, errors, phase>>
        /\ phase = "write" /\ pieces # <<>> /\ pieces' = Tail(pieces)
    BY <1>6 DEF WritePiece, optionVars
  <2>2. PICK written \in BOOLEAN :
            /\ writeError => written = FALSE
            /\ output' = IF written THEN Append(output, Head(pieces)) ELSE output
            /\ writeError' = (writeError \/ ~ written)
    BY <1>6, WriterAssumption DEF WritePiece
  <2>3. Format' = Format /\ Report' = Report
    BY <2>1 DEF Report, Format, Given
  <2>4. /\ Fresh(Report) /\ output \in Seq(Range(Report)) /\ pieces \in Seq(Range(Report))
        /\ Format \in Formats /\ writeError \in BOOLEAN
        /\ writeError => Len(output) < Len(Report)
        /\ ~ writeError => output \o pieces = Report
    BY <2>1 DEF ContractInv, TypeInv, TypeOK, Running, Stages
  <2> DEFINE S == Range(Report)
  <2> HIDE DEF S
  <2>5. output \in Seq(S) /\ pieces \in Seq(S)
    BY <2>4 DEF S
  <2>6. /\ Append(output, Head(pieces)) \in Seq(S) /\ Tail(pieces) \in Seq(S)
        /\ Append(output, Head(pieces)) \o Tail(pieces) = output \o pieces
        /\ Len(output) < Len(output \o pieces)
    BY <2>1, <2>5, Written
  <2>7. /\ output' \in Seq(S) /\ pieces' \in Seq(S)
        /\ writeError' => Len(output') < Len(Report)
        /\ ~ writeError' => output' \o pieces' = Report
    BY <2>1, <2>2, <2>4, <2>5, <2>6
  <2> QED BY <2>1, <2>3, <2>4, <2>7 DEF ContractInv, S
<1>7. CASE EndReport
  BY <1>7 DEF EndReport, Return, ContractInv, Running
<1>8. CASE UNCHANGED vars
  <2>1. UNCHANGED <<positionals, switches, violations, errors, phase, output, pieces, writeError>>
    BY <1>8 DEF vars, commandVars, runVars, optionVars
  <2>2. Format' = Format /\ Report' = Report
    BY <2>1 DEF Report, Format, Given
  <2> QED BY <2>1, <2>2 DEF ContractInv
<1> QED BY <1>2, <1>3, <1>4, <1>5, <1>6, <1>7, <1>8 DEF Next

\* The stage of the run and what its report is, as the caller sees them.
Stage == IF phase = "done" THEN "returned" ELSE IF phase = "write" THEN "writing" ELSE "working"
Shown == IF output = Old THEN "old" ELSE IF output = Report THEN "whole" ELSE "partial"


\* What a step of the run is to its caller.
CallerSees ==
    \/ UNCHANGED <<Stage, Shown, exit>>
    \/ Stage = "working" /\ Stage' = "returned" /\ exit' \in {0, 1} /\ Shown' = Shown
    \/ Stage = "working" /\ Stage' = "writing" /\ Shown' \in {"partial", "whole"} /\ exit' = exit
    \/ /\ Stage = "writing" /\ Shown = "partial" /\ Shown' = "whole"
       /\ Stage' = Stage /\ exit' = exit
    \/ /\ Stage = "writing" /\ Stage' = "returned" /\ Shown = "partial" /\ exit' = 1
       /\ Shown' = Shown
    \/ /\ Stage = "writing" /\ Stage' = "returned" /\ Shown = "whole" /\ exit' \in {0, 2, 3}
       /\ Shown' = Shown

LEMMA CallerSteps == CallerSees => [Contract!Next]_(Contract!vars)
BY DEF CallerSees, Stage, Shown, Report, Contract!Next, Contract!vars, Contract!Refuse, Contract!Open,
       Contract!Complete, Contract!Fail, Contract!Judge

\* While it is written the report is not the old one, and it is whole exactly
\* if nothing is left and no write failed.
LEMMA ShownWhileWriting ==
    TypeInv /\ ContractInv /\ phase = "write" =>
        /\ Shown \in {"partial", "whole"}
        /\ pieces = <<>> => (Shown = "whole" <=> ~ writeError)
        /\ pieces # <<>> => Shown = "partial"
<1> SUFFICES ASSUME TypeInv, ContractInv, phase = "write"
             PROVE  /\ Shown \in {"partial", "whole"}
                    /\ pieces = <<>> => (Shown = "whole" <=> ~ writeError)
                    /\ pieces # <<>> => Shown = "partial"
  OBVIOUS
<1>1. /\ Fresh(Report) /\ output \in Seq(Range(Report)) /\ pieces \in Seq(Range(Report))
      /\ writeError => Len(output) < Len(Report)
      /\ ~ writeError => output \o pieces = Report
      /\ writeError \in BOOLEAN
  BY DEF ContractInv, TypeInv, TypeOK
<1>2. output # Old
  BY <1>1, NotOld
<1>3. writeError => output # Report
  BY <1>1
<1>4. pieces = <<>> /\ ~ writeError => output = Report
  <2> DEFINE S == Range(Report)
  <2> HIDE DEF S
  <2>1. output \in Seq(S)
    BY <1>1 DEF S
  <2> QED BY <1>1, <2>1, ConcatEmptySeq
<1>5. pieces # <<>> /\ ~ writeError => output # Report
  <2> DEFINE S == Range(Report)
  <2> HIDE DEF S
  <2>1. output \in Seq(S) /\ pieces \in Seq(S)
    BY <1>1 DEF S
  <2> QED BY <1>1, <2>1, Written
<1> QED BY <1>1, <1>2, <1>3, <1>4, <1>5 DEF Shown

LEMMA ShownOnceOpen ==
    (TypeInv /\ ContractInv /\ phase = "write")' => (Shown \in {"partial", "whole"})'
<1>1. TypeInv /\ ContractInv /\ phase = "write" => Shown \in {"partial", "whole"}
  BY ShownWhileWriting
<1> QED BY <1>1, PTL

LEMMA ContractMoves ==
    ASSUME TypeInv, ContractInv, ContractInv', TypeInv', Next \/ UNCHANGED vars
    PROVE  CallerSees
<1> USE DEF Return, runVars, commandVars, optionVars
<1>1. CASE UNCHANGED vars
  <2>1. UNCHANGED <<positionals, switches, violations, errors, phase, exit, output>>
    BY <1>1 DEF vars
  <2>2. UNCHANGED <<Stage, Shown, exit>>
    BY <2>1 DEF Stage, Shown, Report, Format, Given
  <2> QED BY <2>2 DEF CallerSees
\* Before the report is opened it is the old one, and the run goes on or ends.
<1>2. ASSUME Stage = "working", output' = output, phase' # "write",
             phase' = "done" => exit' \in {0, 1}, phase' # "done" => exit' = exit
      PROVE  CallerSees
  <2>1. output = Old
    BY <1>2 DEF Stage, ContractInv
  <2>2. Shown = "old" /\ Shown' = "old"
    BY <1>2, <2>1 DEF Shown, Old
  <2>3. Stage' \in {"working", "returned"}
    BY <1>2 DEF Stage
  <2>4. CASE phase' = "done"
    BY <1>2, <2>2, <2>4 DEF CallerSees, Stage
  <2>5. CASE phase' # "done"
    BY <1>2, <2>2, <2>5 DEF CallerSees, Stage
  <2> QED BY <2>4, <2>5
<1>3. CASE ReadCommand
  <2>1. /\ phase \in {"start", "options"} /\ phase' \in {"start", "options", "renderer", "done"}
        /\ phase' = "done" => exit' \in {0, 1}
        /\ phase' # "done" => exit' = exit
        /\ output' = output
    BY <1>3 DEF ReadCommand, ReadArguments, Start, EndOptions, Switch, TakeValue,
                RejectOption, Positional, Reading
  <2> QED BY <1>2, <2>1 DEF Stage
<1>4. CASE SelectRenderer \/ LoadRuleSets \/ Discover \/ SortSources \/ ParseFile \/ GroupPackages
             \/ AnnotatePackage \/ EndAnnotation \/ AnalyzeFile
  <2>1. /\ phase \notin {"write", "done"} /\ phase' # "write"
        /\ phase' = "done" => exit' \in {0, 1}
        /\ phase' # "done" => exit' = exit
        /\ output' = output
    BY <1>4 DEF SelectRenderer, LoadRuleSets, Discover, SortSources, ParseFile, GroupPackages,
                AnnotatePackage, EndAnnotation, AnalyzeFile
  <2> QED BY <1>2, <2>1 DEF Stage
<1>5. CASE OpenReport
  <2>1. /\ phase = "analyze"
        /\ \/ phase' = "write" /\ exit' = exit
           \/ phase' = "done" /\ exit' = 1 /\ output' = output
    BY <1>5 DEF OpenReport
  <2>2. CASE phase' = "done"
    BY <1>2, <2>1, <2>2 DEF Stage
  <2>3. CASE phase' = "write"
    <3>1. Shown' \in {"partial", "whole"}
      BY <2>3, ShownOnceOpen
    <3> QED BY <2>1, <2>3, <3>1 DEF CallerSees, Stage
  <2> QED BY <2>1, <2>2, <2>3
<1>6. CASE WritePiece
  <2>1. phase = "write" /\ phase' = "write" /\ exit' = exit /\ pieces # <<>>
    BY <1>6 DEF WritePiece
  <2>2. Shown = "partial"
    BY <2>1, ShownWhileWriting
  <2>3. Shown' \in {"partial", "whole"}
    BY <2>1, ShownOnceOpen
  <2>4. Stage = "writing" /\ Stage' = "writing"
    BY <2>1 DEF Stage
  <2> QED BY <2>1, <2>2, <2>3, <2>4 DEF CallerSees
<1>7. CASE EndReport
  <2>1. /\ phase = "write" /\ pieces = <<>> /\ phase' = "done"
        /\ exit' = IF writeError THEN 1 ELSE ExitCodeFor
        /\ UNCHANGED <<positionals, switches, violations, errors, output>>
    BY <1>7 DEF EndReport
  <2>2. Shown' = Shown
    BY <2>1 DEF Shown, Report, Format, Given, Old
  <2>3. ExitCodeFor \in {0, 2, 3}
    BY DEF ExitCodeFor
  <2>4. Shown \in {"partial", "whole"} /\ (Shown = "whole" <=> ~ writeError)
    BY <2>1, ShownWhileWriting
  <2>5. Stage = "writing" /\ Stage' = "returned"
    BY <2>1 DEF Stage
  <2> QED BY <2>1, <2>2, <2>3, <2>4, <2>5 DEF CallerSees
<1> QED BY <1>1, <1>3, <1>4, <1>5, <1>6, <1>7 DEF Next

\* Seen by its caller, a run either is refused with the report that was there
\* before, or ends with a whole report and a verdict, or ends with 1 and a part
\* of one: RunPipeline implements RunContract (Main, writeReport).
THEOREM KeepsContract ==
    ASSUME NEW Violation
    PROVE  Spec /\ []RulesReport(Violation) => ContractSpec
<1>1. Init => FactsInv /\ AccountInv /\ JudgedInv(Violation)
  <2> SUFFICES ASSUME Init PROVE FactsInv /\ AccountInv /\ JudgedInv(Violation)
    OBVIOUS
  <2> USE DEF Init, CommandInit
  <2>1. FactsInv
    BY DEF FactsInv, Range
  <2>2. AccountInv
    BY DEF AccountInv, AfterDiscovery
  <2>3. JudgedInv(Violation)
    BY DEF JudgedInv
  <2> QED BY <2>1, <2>2, <2>3
<1>2. RulesReport(Violation) /\ TypeInv /\ FactsInv /\ JudgedInv(Violation) /\ [Next \/ Exited]_vars
        => JudgedInv(Violation)'
  BY JudgedStep
<1>3. TypeInv /\ AccountInv /\ JudgedInv(Violation) /\ ContractInv /\ [Next \/ Exited]_vars
        => ContractInv'
  BY ContractStep
<1>4. Init => Contract!Init
  BY DEF Init, CommandInit, Contract!Init
<1>5. TypeInv /\ ContractInv /\ TypeInv' /\ ContractInv' /\ [Next \/ Exited]_vars
        => [Contract!Next]_(Contract!vars)
  BY ContractMoves, CallerSteps DEF Exited
<1> QED BY <1>1, <1>2, <1>3, <1>4, <1>5, ContractStart, TypeStart, TypeStep, FactsStep, AccountStep,
           PTL DEF Spec, ContractSpec, Contract!Spec
-----------------------------------------------------------------------------
(* Each file is opened once *)

\* The pieces s open no file twice.
Clash(S) == {e \in S \X S : e[1].kind = "open" /\ e[2].kind = "open" /\ e[1].of = e[2].of}
Opens(s) == IsSequence(s) /\ Pairwise(s, Clash(Range(s)))
NoOpens(s) == IsSequence(s) /\ \A i \in DOMAIN s : s[i].kind # "open"

Located(Violation) == \A v \in Violation : v.file \in Path /\ v.line \in Int

LEMMA BeforeOrders ==
    ASSUME NEW Violation, Located(Violation)
    PROVE  /\ \A v \in Violation : ~ Before(v, v)
           /\ \A u, v, w \in Violation : Before(u, v) /\ Before(v, w) => Before(u, w)
           /\ \A v, w \in Violation : ~ Before(v, w) /\ ~ Before(w, v) =>
                 v.file = w.file /\ v.line = w.line
<1>1. \A v \in Violation : v.file \in Path /\ v.line \in Int
  BY DEF Located
<1>2. \A p \in Path : ~ PathLess(p, p)
  BY PathLessIrreflexive
<1>3. \A p, q, r \in Path : PathLess(p, q) /\ PathLess(q, r) => PathLess(p, r)
  BY PathLessTransitive
<1>4. \A p, q \in Path : p = q \/ PathLess(p, q) \/ PathLess(q, p)
  BY PathLessTotal
<1>5. \A v \in Violation : ~ Before(v, v)
  BY <1>1, <1>2 DEF Before
<1>6. ASSUME NEW u \in Violation, NEW v \in Violation, NEW w \in Violation, Before(u, v), Before(v, w)
      PROVE  Before(u, w)
  BY <1>1, <1>3, <1>6 DEF Before
<1>7. ASSUME NEW v \in Violation, NEW w \in Violation, ~ Before(v, w), ~ Before(w, v)
      PROVE  v.file = w.file /\ v.line = w.line
  BY <1>1, <1>4, <1>7 DEF Before
<1> QED BY <1>5, <1>6, <1>7

\* After sorting, no violation stands before one of an earlier file.
LEMMA SortGroups ==
    ASSUME NEW Violation, Located(Violation), NEW vs \in Seq(Violation)
    PROVE  Contiguous(SortViolations(vs))
<1> DEFINE D == DOMAIN vs
           earlier(i, j) == Before(vs[i], vs[j]) \/ (~ Before(vs[j], vs[i]) /\ i < j)
           R == {e \in D \X D : earlier(e[1], e[2])}
           order == Ranked(D, R)
           s == SortViolations(vs)
<1>1. D = 1 .. Len(vs) /\ Len(vs) \in Nat /\ \A i \in D : vs[i] \in Violation
  OBVIOUS
<1>2. s = [n \in D |-> vs[order[n]]]
  BY DEF SortViolations
<1>3. \A i, j \in D : <<i, j>> \in R <=> earlier(i, j)
  OBVIOUS
<1>4. \A i \in D : i \in Int
  BY <1>1
<1>5. /\ \A v \in Violation : ~ Before(v, v)
      /\ \A u, v, w \in Violation : Before(u, v) /\ Before(v, w) => Before(u, w)
      /\ \A v, w \in Violation : ~ Before(v, w) /\ ~ Before(w, v) => v.file = w.file /\ v.line = w.line
  BY BeforeOrders
<1>6. IsFiniteSet(D)
  BY <1>1, FS_Interval
<1> HIDE DEF D, R
<1>7. StrictOrder(D, R)
  <2>1. \A i \in D : ~ earlier(i, i)
    BY <1>1, <1>4, <1>5
  <2>2. \A i, j \in D : i = j \/ earlier(i, j) \/ earlier(j, i)
    BY <1>1, <1>4, <1>5
  <2>3. ASSUME NEW i \in D, NEW j \in D, NEW k \in D, earlier(i, j), earlier(j, k) PROVE earlier(i, k)
    <3>1. vs[i] \in Violation /\ vs[j] \in Violation /\ vs[k] \in Violation
      BY <1>1
    <3>2. CASE Before(vs[i], vs[j]) /\ Before(vs[j], vs[k])
      BY <1>5, <3>1, <3>2
    <3>3. CASE Before(vs[i], vs[j]) /\ ~ Before(vs[j], vs[k])
      <4>1. vs[j].file = vs[k].file /\ vs[j].line = vs[k].line
        BY <1>5, <2>3, <3>1, <3>3
      <4> QED BY <3>3, <4>1 DEF Before
    <3>4. CASE ~ Before(vs[i], vs[j]) /\ Before(vs[j], vs[k])
      <4>1. vs[i].file = vs[j].file /\ vs[i].line = vs[j].line
        BY <1>5, <2>3, <3>1, <3>4
      <4> QED BY <3>4, <4>1 DEF Before
    <3>5. CASE ~ Before(vs[i], vs[j]) /\ ~ Before(vs[j], vs[k])
      <4>1. /\ vs[i].file = vs[j].file /\ vs[i].line = vs[j].line
            /\ vs[j].file = vs[k].file /\ vs[j].line = vs[k].line
        BY <1>5, <2>3, <3>1, <3>5
      <4>2. Before(vs[k], vs[i]) <=> Before(vs[k], vs[k])
        BY <4>1 DEF Before
      <4>3. i < j /\ j < k /\ i \in Int /\ j \in Int /\ k \in Int
        BY <1>4, <2>3, <3>5
      <4> QED BY <1>5, <3>1, <4>2, <4>3
    <3> QED BY <3>2, <3>3, <3>4, <3>5
  <2> HIDE DEF earlier
  <2> QED BY <1>3, <2>1, <2>2, <2>3 DEF StrictOrder
<1>8. /\ order \in Seq(D) /\ Len(order) = Cardinality(D)
      /\ \A i, j \in DOMAIN order : i < j => <<order[i], order[j]>> \in R
  BY <1>6, <1>7, RankedEnumerates, FS_CardinalityType DEF Ranked
<1>9. DOMAIN order = D
  <2>1. Cardinality(D) = Len(vs)
    <3>1. Cardinality(1 .. Len(vs)) = IF 1 > Len(vs) THEN 0 ELSE Len(vs) - 1 + 1
      BY SMTT(60), <1>1, FS_Interval
    <3> QED BY <1>1, <3>1
  <2>2. DOMAIN order = 1 .. Len(order)
    BY <1>8
  <2> QED BY <1>1, <1>8, <2>1, <2>2
<1> HIDE DEF order, s
<1>10. \A i \in D : order[i] \in D
  BY <1>8, <1>9
<1>11. DOMAIN s = D /\ \A i \in D : s[i] = vs[order[i]] /\ s[i] \in Violation
  BY <1>1, <1>2, <1>10
<1>12. ASSUME NEW i \in D, NEW j \in D, i < j PROVE ~ PathLess(s[j].file, s[i].file)
  <2>1. earlier(order[i], order[j])
    BY <1>3, <1>8, <1>9, <1>10, <1>12
  <2>2. ~ Before(s[j], s[i])
    BY <1>5, <1>11, <2>1
  <2> QED BY <2>2 DEF Before
<1>13. ASSUME NEW i \in D, NEW j \in D, NEW k \in D, i <= j, j <= k, s[i].file = s[k].file
       PROVE  s[j].file = s[i].file
  <2>1. i \in Int /\ j \in Int /\ k \in Int
    BY <1>4
  <2>2. CASE i = j \/ j = k
    BY <1>13, <2>2
  <2>3. CASE i # j /\ j # k
    <3>1. i < j /\ j < k
      BY <1>13, <2>1, <2>3
    <3>2. ~ PathLess(s[j].file, s[i].file) /\ ~ PathLess(s[k].file, s[j].file)
      BY <1>12, <3>1
    <3>3. s[i].file \in Path /\ s[j].file \in Path
      BY <1>11 DEF Located
    <3> QED BY <1>13, <3>2, <3>3, PathLessTotal
  <2> QED BY <2>2, <2>3
<1>14. Contiguous(s)
  BY <1>11, <1>13 DEF Contiguous
<1> QED BY <1>14 DEF s

LEMMA NoOpensOpens ==
    ASSUME NEW s, NoOpens(s)
    PROVE  Opens(s)
BY DEF NoOpens, Opens, Pairwise, Clash

LEMMA PiecesNoOpens ==
    ASSUME NEW kind, kind # "open", NEW s, IsSequence(s)
    PROVE  NoOpens(Pieces(kind, s))
<1>1. PICK n \in Nat : DOMAIN s = 1 .. n
  BY DEF IsSequence
<1>2. \A x : Piece(kind, x).kind = kind
  BY DEF Piece
<1>3. Pieces(kind, s) = [i \in 1 .. n |-> Piece(kind, s[i])]
  BY <1>1 DEF Pieces
<1>4. IsSequence(Pieces(kind, s))
  BY <1>3, ListIsSequence
<1> QED BY <1>2, <1>3, <1>4 DEF NoOpens

LEMMA SinglePiece ==
    ASSUME NEW kind, NEW of
    PROVE  Opens(<<Piece(kind, of)>>) /\ (kind # "open" => NoOpens(<<Piece(kind, of)>>))
<1> DEFINE s == <<Piece(kind, of)>>
<1>1. DOMAIN s = 1 .. 1 /\ s[1] = Piece(kind, of) /\ s \in Seq({Piece(kind, of)})
  OBVIOUS
<1>2. Piece(kind, of).kind = kind
  BY DEF Piece
<1> HIDE DEF s
<1>3. IsSequence(s) /\ \A i \in DOMAIN s : i = 1
  BY <1>1, SeqIsSequence
<1>4. Opens(s) /\ (kind # "open" => NoOpens(s))
  BY <1>1, <1>2, <1>3 DEF Opens, Pairwise, NoOpens
<1> QED BY <1>4 DEF s

\* Two lists of pieces one after the other.
LEMMA ConcatOpens ==
    ASSUME NEW s, NEW t, IsSequence(s), IsSequence(t)
    PROVE  /\ NoOpens(s) /\ NoOpens(t) => NoOpens(s \o t)
           /\ Opens(s) /\ NoOpens(t) => Opens(s \o t)
           /\ NoOpens(s) /\ Opens(t) => Opens(s \o t)
<1> DEFINE A == {s[i] : i \in DOMAIN s}
           B == {t[i] : i \in DOMAIN t}
           S == A \cup B
           u == s \o t
<1>1. s \in Seq(S) /\ t \in Seq(S)
  <2>1. s \in Seq(A) /\ t \in Seq(B) /\ A \subseteq S /\ B \subseteq S
    BY DEF IsSequence
  <2> HIDE DEF A, B, S
  <2> QED BY <2>1, SeqMonotonic
<1>2. Range(s) = A /\ Range(t) = B
  BY DEF Range
<1> HIDE DEF S
<1>3. u \in Seq(S) /\ Range(u) = A \cup B
  BY <1>1, <1>2, RangeConcatenation, ConcatProperties
<1>4. IsSequence(u) /\ \A i \in DOMAIN u : u[i] \in A \cup B
  <2>1. \A i \in DOMAIN u : u[i] \in Range(u)
    BY DEF Range
  <2> HIDE DEF u
  <2> QED BY <1>3, <2>1, SeqIsSequence
<1> HIDE DEF u
<1>5. ASSUME NoOpens(s), NoOpens(t) PROVE NoOpens(u)
  <2>1. \A x \in A \cup B : x.kind # "open"
    BY <1>5 DEF NoOpens
  <2> HIDE DEF A, B
  <2> QED BY <1>4, <2>1 DEF NoOpens
<1>6. ASSUME Opens(s), Opens(t), NoOpens(s) \/ NoOpens(t) PROVE Opens(u)
  <2> DEFINE R == Clash(Range(u))
  <2>1. (\A x \in A : x.kind # "open") \/ (\A x \in B : x.kind # "open")
    BY <1>6 DEF NoOpens
  <2>2. \A x \in A : \A y \in B : <<x, y>> \notin R /\ <<y, x>> \notin R
    BY <2>1 DEF Clash
  <2>3. Pairwise(s, R)
    BY <1>6 DEF Opens, Pairwise, Clash, Range
  <2>4. Pairwise(t, R)
    BY <1>6 DEF Opens, Pairwise, Clash, Range
  <2> HIDE DEF R
  <2>5. Pairwise(s \o t, R)
    BY <1>1, <1>2, <2>2, <2>3, <2>4, ConcatPairwise
  <2> QED BY <1>4, <2>5 DEF Opens, R, u
<1>7. (NoOpens(s) => Opens(s)) /\ (NoOpens(t) => Opens(t))
  BY NoOpensOpens
<1> QED BY <1>5, <1>6, <1>7 DEF u

LEMMA ByFileOpens ==
    ASSUME NEW vs, IsSequence(vs), Contiguous(vs)
    PROVE  Opens(ByFile(vs))
<1> DEFINE runs == FileRuns(vs)
           ss == [n \in DOMAIN runs |-> Opened(runs[n])]
<1>1. IsSequence(runs) /\ \A n \in DOMAIN runs : IsSequence(runs[n])
  BY FileRunsType
<1>2. ByFile(vs) = FlattenSeq(ss)
  BY DEF ByFile
<1>3. \A n, m \in DOMAIN runs : n # m => runs[n][1].file # runs[m][1].file
  <2>1. PICK l \in Nat : DOMAIN runs = 1 .. l
    BY <1>1 DEF IsSequence
  <2>2. \A n, m \in DOMAIN runs : n < m => runs[n][1].file # runs[m][1].file
    BY FileRunsComplete
  <2> HIDE DEF runs
  <2> QED BY <2>1, <2>2
<1> HIDE DEF runs
<1>4. ASSUME NEW n \in DOMAIN runs
      PROVE  /\ Opens(Opened(runs[n]))
             /\ \A x \in Range(Opened(runs[n])) : x.kind = "open" => x.of = runs[n][1].file
  <2> DEFINE r == runs[n]
             first == <<Piece("open", r[1].file)>>
             middle == Pieces("violation", r)
             last == <<Piece("close", r[1].file)>>
  <2>1. Opened(r) = first \o middle \o last
    BY DEF Opened
  <2>2. Opens(first) /\ NoOpens(last)
    BY SinglePiece
  <2>3. NoOpens(middle)
    BY <1>1, PiecesNoOpens
  <2>4. /\ \A x \in Range(first) : x.kind = "open" => x.of = r[1].file
        /\ \A x \in Range(middle) \cup Range(last) : x.kind # "open"
    <3>1. Range(first) = {Piece("open", r[1].file)}
      BY DEF Range
    <3>2. \A x \in Range(first) : x.of = r[1].file
      BY <3>1 DEF Piece
    <3> HIDE DEF middle, last
    <3> QED BY <2>2, <2>3, <3>2 DEF NoOpens, Range
  <2> HIDE DEF first, middle, last
  <2>5. Opens(first \o middle)
    BY <2>2, <2>3, ConcatOpens DEF NoOpens, Opens
  <2>6. Opens((first \o middle) \o last)
    BY <2>2, <2>5, ConcatOpens DEF NoOpens, Opens
  <2>7. Range((first \o middle) \o last) = Range(first) \cup Range(middle) \cup Range(last)
    <3> DEFINE S == Range(first) \cup Range(middle) \cup Range(last)
    <3>1. first \in Seq(Range(first)) /\ middle \in Seq(Range(middle)) /\ last \in Seq(Range(last))
      BY <2>2, <2>3 DEF Opens, NoOpens, IsSequence, Range
    <3>2. Range(first) \subseteq S /\ Range(middle) \subseteq S /\ Range(last) \subseteq S
      OBVIOUS
    <3> HIDE DEF S
    <3>3. first \in Seq(S) /\ middle \in Seq(S) /\ last \in Seq(S)
      BY <3>1, <3>2, SeqMonotonic
    <3> DEFINE both == first \o middle
    <3>4. both \in Seq(S) /\ Range(both) = Range(first) \cup Range(middle)
      BY <3>3, ConcatProperties, RangeConcatenation
    <3> HIDE DEF both
    <3>5. Range(both \o last) = Range(both) \cup Range(last)
      BY <3>3, <3>4, RangeConcatenation
    <3> QED BY <3>4, <3>5 DEF both
  <2> QED BY <2>1, <2>4, <2>6, <2>7
<1> DEFINE S == UNION {Range(Opened(runs[n])) : n \in DOMAIN runs}
           T == Seq(S)
           R == Clash(S)
<1>5. ASSUME NEW n \in DOMAIN runs PROVE Opened(runs[n]) \in T
  <2> DEFINE A == Range(Opened(runs[n]))
  <2>1. Opened(runs[n]) \in Seq(A) /\ A \subseteq S
    BY <1>4 DEF Opens, IsSequence, Range
  <2> HIDE DEF A, S
  <2> QED BY <2>1, SeqMonotonic
<1>6. PICK l \in Nat : DOMAIN runs = 1 .. l
  BY <1>1 DEF IsSequence
<1>7. ss \in Seq(T)
  <2> HIDE DEF T
  <2> QED BY <1>5, <1>6
<1>8. \A n \in DOMAIN runs : Pairwise(ss[n], R)
  BY <1>4 DEF Opens, Pairwise, Clash, Range
<1>9. ASSUME NEW n \in DOMAIN runs, NEW m \in DOMAIN runs, n # m,
             NEW x \in Range(ss[n]), NEW y \in Range(ss[m])
      PROVE  <<x, y>> \notin R
  <2>1. x.kind = "open" /\ y.kind = "open" => x.of # y.of
    BY <1>3, <1>4, <1>9
  <2> QED BY <2>1 DEF Clash
<1>10. DOMAIN ss = DOMAIN runs
  OBVIOUS
<1>11. ss \in Seq(Seq(S))
  BY <1>7
<1> HIDE DEF ss, S, R
<1>12. Pairwise(FlattenSeq(ss), R)
  BY <1>8, <1>9, <1>10, <1>11, FlattenPairwise
<1>13. FlattenSeq(ss) \in Seq(S)
  BY <1>11, FlattenElements
<1>14. IsSequence(FlattenSeq(ss)) /\ Range(FlattenSeq(ss)) \subseteq S
  BY <1>13, SeqIsSequence DEF Range
<1> QED BY <1>2, <1>12, <1>14 DEF Opens, Pairwise, Clash, R

\* Whatever the format, a report of violations that stand together by file
\* opens no file twice.
LEMMA RenderedOpens ==
    ASSUME NEW format \in Formats, NEW vs, IsSequence(vs), Contiguous(vs), NEW es, IsSequence(es)
    PROVE  Opens(Rendered(format, vs, es))
<1>1. \A kind : kind # "open" => NoOpens(Pieces(kind, vs)) /\ NoOpens(Pieces(kind, es))
  BY PiecesNoOpens
<1>2. Opens(ByFile(vs))
  BY ByFileOpens
<1>3. ASSUME NEW body, Opens(body) PROVE Opens(Framed(body))
  <2> DEFINE first == <<Piece("header", "")>>
             last == <<Piece("footer", "")>>
             both == first \o body
  <2>1. Framed(body) = (first \o body) \o last
    BY DEF Framed
  <2>2. NoOpens(first) /\ NoOpens(last)
    BY SinglePiece
  <2> HIDE DEF first, last
  <2>3. Opens(both)
    BY <1>3, <2>2, ConcatOpens DEF NoOpens, Opens
  <2> HIDE DEF both
  <2>4. Opens(both \o last)
    BY <2>2, <2>3, ConcatOpens DEF NoOpens, Opens
  <2> QED BY <2>1, <2>4 DEF both
<1>4. \A s, t : NoOpens(s) /\ NoOpens(t) => Opens(s \o t)
  BY ConcatOpens, NoOpensOpens DEF NoOpens
<1>5. \A s, t : Opens(s) /\ NoOpens(t) => Opens(s \o t)
  BY ConcatOpens DEF NoOpens, Opens
<1>6. \A content : Opens(Document(content))
  BY SinglePiece DEF Document
<1>7. CASE format \in {"text", "ansi", "github"}
  BY <1>1, <1>4, <1>7 DEF Rendered, TextReport, GitHubReport
<1>8. CASE format \in {"xml", "checkstyle", "html"}
  BY <1>1, <1>2, <1>3, <1>5, <1>8 DEF Rendered, XMLReport, CheckStyleReport, HTMLReport
<1>9. CASE format \in {"json", "gitlab", "sarif"}
  BY <1>6, <1>9 DEF Rendered, JSONReport, GitLabReport, SARIFReport
<1> QED BY <1>7, <1>8, <1>9 DEF Formats

\* The violation v stands in the pieces s, under the opening of its file.
Lists(s, v) ==
    \E i, j \in DOMAIN s :
        /\ i < j /\ s[i].kind = "open" /\ s[i].of = v.file
        /\ \A k \in i + 1 .. j : s[k].kind = "violation"
        /\ s[j].of = v

LEMMA ConcatLists ==
    ASSUME NEW s, NEW t, IsSequence(s), IsSequence(t), NEW v, Lists(s, v) \/ Lists(t, v)
    PROVE  Lists(s \o t, v)
<1> DEFINE A == {s[i] : i \in DOMAIN s}
           B == {t[i] : i \in DOMAIN t}
           S == A \cup B
           u == s \o t
           l == Len(s)
<1>1. s \in Seq(S) /\ t \in Seq(S)
  <2>1. s \in Seq(A) /\ t \in Seq(B) /\ A \subseteq S /\ B \subseteq S
    BY DEF IsSequence
  <2> HIDE DEF A, B, S
  <2> QED BY <2>1, SeqMonotonic
<1> HIDE DEF S
<1>2. /\ l \in Nat /\ Len(t) \in Nat /\ DOMAIN s = 1 .. l /\ DOMAIN t = 1 .. Len(t)
      /\ u \in Seq(S) /\ DOMAIN u = 1 .. l + Len(t)
      /\ \A i \in 1 .. l : u[i] = s[i]
      /\ \A i \in 1 .. Len(t) : u[l + i] = t[i]
  <2>1. /\ u \in Seq(S) /\ Len(u) = l + Len(t)
        /\ \A i \in 1 .. l + Len(t) : u[i] = IF i <= l THEN s[i] ELSE t[i - l]
    BY <1>1, ConcatProperties
  <2> HIDE DEF u
  <2>2. l \in Nat /\ Len(t) \in Nat /\ DOMAIN s = 1 .. l /\ DOMAIN t = 1 .. Len(t)
    BY <1>1
  <2> HIDE DEF l
  <2>3. \A i \in 1 .. Len(t) : l + i \in 1 .. l + Len(t) /\ ~ (l + i <= l) /\ (l + i) - l = i
    BY <2>2
  <2> QED BY <2>1, <2>2, <2>3
<1> HIDE DEF u, l
<1>3. CASE Lists(s, v)
  <2>1. PICK i \in DOMAIN s, j \in DOMAIN s :
            /\ i < j /\ s[i].kind = "open" /\ s[i].of = v.file
            /\ \A k \in i + 1 .. j : s[k].kind = "violation"
            /\ s[j].of = v
    BY <1>3 DEF Lists
  <2>2. i \in DOMAIN u /\ j \in DOMAIN u /\ u[i] = s[i] /\ u[j] = s[j]
    BY <1>2
  <2>3. \A k \in i + 1 .. j : u[k] = s[k]
    BY <1>2
  <2> QED BY <2>1, <2>2, <2>3 DEF Lists, u
<1>4. CASE Lists(t, v)
  <2>1. PICK i \in DOMAIN t, j \in DOMAIN t :
            /\ i < j /\ t[i].kind = "open" /\ t[i].of = v.file
            /\ \A k \in i + 1 .. j : t[k].kind = "violation"
            /\ t[j].of = v
    BY <1>4 DEF Lists
  <2>2. /\ l + i \in DOMAIN u /\ l + j \in DOMAIN u /\ u[l + i] = t[i] /\ u[l + j] = t[j]
        /\ l + i < l + j
    BY <1>2, <2>1
  <2>3. \A k \in l + i + 1 .. l + j : u[k].kind = "violation"
    <3> SUFFICES ASSUME NEW k \in l + i + 1 .. l + j PROVE u[k].kind = "violation"
      OBVIOUS
    <3>1. k - l \in i + 1 .. j /\ k - l \in 1 .. Len(t) /\ l + (k - l) = k
      BY <1>2
    <3>2. u[l + (k - l)] = t[k - l]
      BY <1>2, <3>1
    <3> QED BY <2>1, <3>1, <3>2
  <2> QED BY <2>1, <2>2, <2>3 DEF Lists, u
<1> QED BY <1>3, <1>4

LEMMA OpenedLists ==
    ASSUME NEW r, IsSequence(r), \A j \in DOMAIN r : r[j].file = r[1].file, NEW n \in DOMAIN r
    PROVE  Lists(Opened(r), r[n])
<1> DEFINE first == <<Piece("open", r[1].file)>>
           middle == Pieces("violation", r)
           last == <<Piece("close", r[1].file)>>
           u == first \o middle
<1>1. Opened(r) = u \o last
  BY DEF Opened
<1>2. IsSequence(first) /\ IsSequence(last) /\ IsSequence(middle)
  BY SinglePiece, PiecesNoOpens DEF Opens, NoOpens
<1>3. PICK l \in Nat : DOMAIN r = 1 .. l
  BY DEF IsSequence
<1>4. /\ DOMAIN first = 1 .. 1 /\ first[1].kind = "open" /\ first[1].of = r[1].file
      /\ Len(first) = 1
  BY DEF Piece
<1>5. /\ DOMAIN middle = 1 .. l
      /\ \A i \in 1 .. l : middle[i].kind = "violation" /\ middle[i].of = r[i]
  BY <1>3 DEF Pieces, Piece
<1>6. IsSequence(u) /\ DOMAIN u = 1 .. l + 1 /\ u[1] = first[1] /\ \A i \in 1 .. l : u[i + 1] = middle[i]
  <2> DEFINE A == {first[i] : i \in DOMAIN first}
             B == {middle[i] : i \in DOMAIN middle}
             S == A \cup B
  <2> HIDE DEF first, middle
  <2>1. first \in Seq(S) /\ middle \in Seq(S)
    <3>1. first \in Seq(A) /\ middle \in Seq(B) /\ A \subseteq S /\ B \subseteq S
      BY <1>2 DEF IsSequence
    <3> HIDE DEF A, B, S
    <3> QED BY <3>1, SeqMonotonic
  <2> HIDE DEF S
  <2>2. Len(middle) = l
    BY <1>5, <2>1
  <2>3. /\ u \in Seq(S) /\ Len(u) = 1 + l
        /\ \A i \in 1 .. 1 + l : u[i] = IF i <= 1 THEN first[i] ELSE middle[i - 1]
    <3>1. /\ u \in Seq(S) /\ Len(u) = Len(first) + Len(middle)
          /\ \A i \in 1 .. Len(first) + Len(middle) :
                u[i] = IF i <= Len(first) THEN first[i] ELSE middle[i - Len(first)]
      BY <2>1, ConcatProperties
    <3> HIDE DEF u
    <3> QED BY <1>4, <2>2, <3>1
  <2> HIDE DEF u
  <2>4. IsSequence(u) /\ DOMAIN u = 1 .. l + 1 /\ u[1] = first[1]
    BY <2>3, SeqIsSequence
  <2>5. \A i \in 1 .. l : i + 1 \in 1 .. 1 + l /\ ~ (i + 1 <= 1) /\ (i + 1) - 1 = i
    OBVIOUS
  <2> QED BY <2>3, <2>4, <2>5
<1> HIDE DEF first, middle, last, u
<1>7. Lists(u, r[n])
  <2>1. n \in 1 .. l /\ 1 \in DOMAIN u /\ n + 1 \in DOMAIN u /\ 1 < n + 1
    BY <1>3, <1>6
  <2>2. u[1].kind = "open" /\ u[1].of = r[n].file
    BY <1>4, <1>6
  <2>3. u[n + 1].of = r[n]
    BY <1>5, <1>6, <2>1
  <2>4. \A k \in 1 + 1 .. n + 1 : u[k].kind = "violation"
    <3> SUFFICES ASSUME NEW k \in 1 + 1 .. n + 1 PROVE u[k].kind = "violation"
      OBVIOUS
    <3>1. k - 1 \in 1 .. l /\ (k - 1) + 1 = k
      BY <2>1
    <3>2. u[(k - 1) + 1] = middle[k - 1]
      BY <1>6, <3>1
    <3> QED BY <1>5, <3>1, <3>2
  <2> QED BY <2>1, <2>2, <2>3, <2>4 DEF Lists
<1> QED BY <1>1, <1>2, <1>6, <1>7, ConcatLists

LEMMA ConcatIsSequence ==
    ASSUME NEW s, NEW t, IsSequence(s), IsSequence(t)
    PROVE  IsSequence(s \o t)
<1> DEFINE A == {s[i] : i \in DOMAIN s}
           B == {t[i] : i \in DOMAIN t}
           S == A \cup B
<1>1. s \in Seq(A) /\ t \in Seq(B) /\ A \subseteq S /\ B \subseteq S
  BY DEF IsSequence
<1> HIDE DEF A, B, S
<1>2. s \in Seq(S) /\ t \in Seq(S)
  BY <1>1, SeqMonotonic
<1>3. s \o t \in Seq(S)
  BY <1>2, ConcatProperties
<1> QED BY <1>3, SeqIsSequence

LEMMA FlattenLists ==
    ASSUME NEW S, NEW ss \in Seq(Seq(S)), NEW k \in DOMAIN ss, NEW v, Lists(ss[k], v)
    PROVE  Lists(FlattenSeq(ss), v)
<1> DEFINE n == Len(ss)
<1>1. n \in Nat /\ n # 0 /\ k \in 1 .. n /\ \A i \in 1 .. n : ss[i] \in Seq(S)
  OBVIOUS
<1>2. PICK flatten : /\ FlattenSeq(ss) = flatten[n]
                     /\ flatten[1] = ss[1]
                     /\ \A i \in 1 .. n - 1 : flatten[i + 1] = flatten[i] \o ss[i + 1]
  <2> DEFINE T == Seq(S)
  <2> HIDE DEF T
  <2>1. ss \in Seq(T)
    BY DEF T
  <2> QED BY <1>1, <2>1, FlattenUnfolds
<1> DEFINE Good == {i \in 1 .. n : flatten[i] \in Seq(S) /\ (k <= i => Lists(flatten[i], v))}
<1>3. 1 \in Good
  BY <1>1, <1>2
<1>4. ASSUME NEW i \in 1 .. n - 1, i \in Good PROVE i + 1 \in Good
  <2>1. i + 1 \in 1 .. n /\ ss[i + 1] \in Seq(S) /\ flatten[i] \in Seq(S)
    BY <1>1, <1>4
  <2>2. flatten[i + 1] = flatten[i] \o ss[i + 1]
    BY <1>2
  <2>3. IsSequence(flatten[i]) /\ IsSequence(ss[i + 1])
    BY <2>1, SeqIsSequence
  <2>4. k <= i + 1 => k <= i \/ k = i + 1
    BY <1>1
  <2>5. k <= i + 1 => Lists(flatten[i], v) \/ Lists(ss[i + 1], v)
    BY <1>4, <2>4
  <2>6. k <= i + 1 => Lists(flatten[i + 1], v)
    BY <2>2, <2>3, <2>5, ConcatLists
  <2>7. flatten[i + 1] \in Seq(S)
    BY <2>1, <2>2, ConcatProperties
  <2> QED BY <2>1, <2>6, <2>7
<1>5. n \in Good
  <2>1. n \in 1 .. n
    BY <1>1
  <2> HIDE DEF Good, n
  <2> QED BY <1>1, <1>3, <1>4, <2>1, Inductive
<1> QED BY <1>1, <1>2, <1>5

\* No violation is left out where violations are grouped by file.
LEMMA ByFileLists ==
    ASSUME NEW vs, IsSequence(vs), NEW i \in DOMAIN vs
    PROVE  Lists(ByFile(vs), vs[i])
<1> DEFINE runs == FileRuns(vs)
           ss == [n \in DOMAIN runs |-> Opened(runs[n])]
<1>1. IsSequence(runs) /\ \A n \in DOMAIN runs : IsSequence(runs[n])
  BY FileRunsType
<1>2. ByFile(vs) = FlattenSeq(ss)
  BY DEF ByFile
<1>3. PICK n \in DOMAIN runs : \E j \in DOMAIN runs[n] : runs[n][j] = vs[i]
  BY FileRunsComplete
<1>4. \A j \in DOMAIN runs[n] : runs[n][j].file = runs[n][1].file
  BY <1>3, FileRunsComplete
<1>5. \A m \in DOMAIN runs : IsSequence(Opened(runs[m]))
  <2>1. \A m \in DOMAIN runs : Fresh(Opened(runs[m]))
    BY <1>1, FreshPieces, FreshPiece, FreshConcat DEF Opened
  <2> QED BY <2>1 DEF Fresh
<1> HIDE DEF runs
<1>6. Lists(Opened(runs[n]), vs[i])
  BY <1>1, <1>3, <1>4, OpenedLists
<1> DEFINE S == UNION {Range(Opened(runs[m])) : m \in DOMAIN runs}
           T == Seq(S)
<1>7. ASSUME NEW m \in DOMAIN runs PROVE Opened(runs[m]) \in T
  <2> DEFINE A == Range(Opened(runs[m]))
  <2>1. Opened(runs[m]) \in Seq(A) /\ A \subseteq S
    BY <1>5 DEF IsSequence, Range
  <2> HIDE DEF A, S
  <2> QED BY <2>1, SeqMonotonic
<1>8. PICK l \in Nat : DOMAIN runs = 1 .. l
  BY <1>1 DEF IsSequence
<1>9. ss \in Seq(T) /\ DOMAIN ss = DOMAIN runs /\ ss[n] = Opened(runs[n])
  <2> HIDE DEF T
  <2> QED BY <1>3, <1>7, <1>8
<1> HIDE DEF ss, S
<1> QED BY <1>2, <1>3, <1>6, <1>9, FlattenLists

LEMMA RenderedLists ==
    ASSUME NEW format \in ByFileFormats, NEW vs, IsSequence(vs), NEW es, IsSequence(es),
           NEW i \in DOMAIN vs
    PROVE  Lists(Rendered(format, vs, es), vs[i])
<1> DEFINE body == ByFile(vs)
           header == <<Piece("header", "")>>
           footer == <<Piece("footer", "")>>
<1>1. Lists(body, vs[i])
  BY ByFileLists
<1>2. \A kind : kind # "open" => IsSequence(Pieces(kind, es))
  BY PiecesNoOpens DEF NoOpens
<1>3. IsSequence(header) /\ IsSequence(footer)
  BY SinglePiece DEF Opens
<1>4. Fresh(body)
  BY ByFileFresh
<1> HIDE DEF body, header, footer
<1>5. ASSUME NEW end, IsSequence(end) PROVE Lists(Framed(body \o end), vs[i])
  <2>1. Lists(body \o end, vs[i]) /\ IsSequence(body \o end)
    BY <1>1, <1>4, <1>5, ConcatLists, ConcatIsSequence DEF Fresh
  <2>2. Lists(header \o (body \o end), vs[i]) /\ IsSequence(header \o (body \o end))
    BY <1>3, <2>1, ConcatLists, ConcatIsSequence
  <2>3. Lists((header \o (body \o end)) \o footer, vs[i])
    BY <1>3, <2>2, ConcatLists
  <2> QED BY <2>3 DEF Framed, header, footer
<1>6. CASE format = "xml"
  BY <1>2, <1>5, <1>6 DEF Rendered, XMLReport, body
<1>7. CASE format = "checkstyle"
  BY <1>2, <1>5, <1>7 DEF Rendered, CheckStyleReport, body
<1>8. CASE format = "html"
  BY <1>2, <1>5, <1>8 DEF Rendered, HTMLReport, body
<1> QED BY <1>6, <1>7, <1>8 DEF ByFileFormats

\* The two parts of GroupedOnce, and what the report has that is written.
OutputOnce ==
    \A i, j \in DOMAIN output :
        i # j /\ output[i].kind = "open" /\ output[j].kind = "open" => output[i].of # output[j].of
OutputListed ==
    phase = "done" /\ output # Old /\ ~ writeError /\ Format \in ByFileFormats =>
        \A n \in DOMAIN violations : Lists(output, violations[n])
ReportListed ==
    Format \in ByFileFormats => \A n \in DOMAIN violations : Lists(Report, violations[n])

OpensInv == OutputOnce /\ OutputListed /\ (phase = "write" => Opens(Report) /\ ReportListed)

LEMMA OpensGrouped == OutputOnce /\ OutputListed => GroupedOnce
BY DEF OutputOnce, OutputListed, GroupedOnce, Lists, UnderItsFile

LEMMA OldIsOne == \A i, j \in DOMAIN Old : i = j
<1>1. DOMAIN Old = 1 .. 1
  BY DEF Old
<1>2. \A i \in 1 .. 1 : i = 1
  OBVIOUS
<1> QED BY <1>1, <1>2

LEMMA PrefixGrouped ==
    ASSUME NEW s, NEW t, s \in Seq(Range(s \o t)), t \in Seq(Range(s \o t)), Opens(s \o t)
    PROVE  \A i, j \in DOMAIN s : i # j /\ s[i].kind = "open" /\ s[j].kind = "open" => s[i].of # s[j].of
<1> DEFINE S == Range(s \o t)
           u == s \o t
<1>1. s \in Seq(S) /\ t \in Seq(S)
  OBVIOUS
<1>2. \A i \in DOMAIN u : u[i] \in S
  BY DEF Range
<1> HIDE DEF S
<1>3. DOMAIN s = 1 .. Len(s) /\ DOMAIN u = 1 .. Len(s) + Len(t) /\ Len(s) \in Nat /\ Len(t) \in Nat
  BY <1>1, ConcatProperties
<1>4. \A i \in DOMAIN s : i \in DOMAIN u /\ u[i] = s[i]
  BY <1>1, <1>3, ConcatProperties
<1>5. \A a, b \in DOMAIN u : a # b => <<u[a], u[b]>> \notin Clash(S)
  BY DEF Opens, Pairwise, S
<1> HIDE DEF u
<1>6. ASSUME NEW i \in DOMAIN s, NEW j \in DOMAIN s, i # j, s[i].kind = "open", s[j].kind = "open"
      PROVE  s[i].of # s[j].of
  <2>1. u[i] = s[i] /\ u[j] = s[j] /\ u[i] \in S /\ u[j] \in S /\ <<u[i], u[j]>> \notin Clash(S)
    BY <1>2, <1>4, <1>5, <1>6
  <2> QED BY <1>6, <2>1 DEF Clash
<1> QED BY <1>6

LEMMA OpensStep ==
    ASSUME NEW Violation, Located(Violation)
    PROVE  TypeInv /\ AccountInv /\ JudgedInv(Violation) /\ ContractInv /\ OpensInv
             /\ ContractInv' /\ [Next \/ Exited]_vars => OpensInv'
<1> SUFFICES ASSUME TypeInv, AccountInv, JudgedInv(Violation), ContractInv, OpensInv, ContractInv',
                    Next \/ UNCHANGED vars
             PROVE  OpensInv'
  BY DEF Exited
<1>1. CASE OpenReport
  <2>1. /\ UNCHANGED <<positionals, switches, errors>> /\ phase = "analyze"
        /\ violations' = SortViolations(violations)
        /\ \/ phase' = "done" /\ output' = output
           \/ phase' = "write" /\ output' = <<>>
    BY <1>1 DEF OpenReport, Return, optionVars
  <2>2. Format \in Formats /\ Format' = Format /\ output = Old
    BY <2>1 DEF ContractInv, Running, Stages, Format, Given
  <2>3. IsSequence(violations') /\ IsSequence(errors) /\ Contiguous(violations')
    BY <2>1, SortKeepsLength, SortGroups, SeqIsSequence DEF JudgedInv, AccountInv
  <2>4. Opens(Report')
    BY <2>1, <2>2, <2>3, RenderedOpens DEF Report
  <2>5. ReportListed'
    BY <2>1, <2>2, <2>3, RenderedLists DEF Report, ReportListed
  <2>6. OutputOnce'
    BY <2>1 DEF OpensInv, OutputOnce
  <2>7. OutputListed'
    BY <2>1, <2>2 DEF OutputListed, Old
  <2> QED BY <2>4, <2>5, <2>6, <2>7 DEF OpensInv
<1>2. CASE WritePiece
  <2>1. /\ UNCHANGED <<positionals, switches, violations, errors, phase>> /\ phase = "write"
    BY <1>2 DEF WritePiece, optionVars
  <2>2. Report' = Report /\ Format' = Format
    BY <2>1 DEF Report, Format, Given
  <2>3. output' = output \/ ~ writeError'
    BY <1>2, WriterAssumption DEF WritePiece
  <2>4. Opens(Report') /\ ReportListed' /\ OutputListed'
    BY <2>1, <2>2 DEF OpensInv, ReportListed, OutputListed
  <2>5. OutputOnce'
    <3>1. CASE output' = output
      BY <3>1 DEF OpensInv, OutputOnce
    <3>2. CASE ~ writeError'
      <4>1. /\ output' \o pieces' = Report'
            /\ output' \in Seq(Range(Report')) /\ pieces' \in Seq(Range(Report'))
        BY <2>1, <2>2, <3>2 DEF ContractInv
      <4> QED BY <2>4, <4>1, PrefixGrouped DEF OutputOnce
    <3> QED BY <2>3, <3>1, <3>2
  <2> QED BY <2>4, <2>5 DEF OpensInv
<1>3. CASE UNCHANGED vars
  <2>1. UNCHANGED <<positionals, switches, violations, errors, phase, output, writeError>>
    BY <1>3 DEF vars, commandVars, runVars, optionVars
  <2>2. Report' = Report /\ Format' = Format
    BY <2>1 DEF Report, Format, Given
  <2> QED BY <2>1, <2>2 DEF OpensInv, OutputOnce, OutputListed, ReportListed
<1>4. CASE EndReport
  <2>1. /\ UNCHANGED <<positionals, switches, violations, errors, output, writeError>>
        /\ phase = "write" /\ pieces = <<>> /\ phase' = "done"
    BY <1>4 DEF EndReport, Return, optionVars, runVars
  <2>2. Format' = Format
    BY <2>1 DEF Format, Given
  <2>3. ~ writeError => output = Report
    <3> DEFINE S == Range(Report)
    <3>1. output \in Seq(S) /\ (~ writeError => output \o pieces = Report)
      BY <2>1 DEF ContractInv
    <3> HIDE DEF S
    <3> QED BY <2>1, <3>1, ConcatEmptySeq
  <2>4. OutputListed'
    BY <2>1, <2>2, <2>3 DEF OutputListed, OpensInv, ReportListed
  <2> QED BY <2>1, <2>4 DEF OpensInv, OutputOnce
<1>5. CASE ReadCommand \/ SelectRenderer \/ LoadRuleSets \/ Discover \/ SortSources \/ ParseFile
             \/ GroupPackages \/ AnnotatePackage \/ EndAnnotation \/ AnalyzeFile
  <2>1. output' = output /\ phase \notin {"write", "done"}
    BY <1>5 DEF ReadCommand, ReadArguments, Start, EndOptions, Switch, TakeValue, RejectOption,
                Positional, Reading, SelectRenderer, LoadRuleSets, Discover, SortSources, ParseFile,
                GroupPackages, AnnotatePackage, EndAnnotation, AnalyzeFile, runVars
  <2>2. phase' # "write"
    BY <1>5 DEF ReadCommand, ReadArguments, Start, EndOptions, Switch, TakeValue, RejectOption,
                Positional, Reading, SelectRenderer, LoadRuleSets, Discover, SortSources, ParseFile,
                GroupPackages, AnnotatePackage, EndAnnotation, AnalyzeFile, Return
  <2>3. output = Old
    BY <2>1 DEF ContractInv
  <2>4. OutputListed'
    BY <2>1, <2>3 DEF OutputListed, Old
  <2> QED BY <2>1, <2>2, <2>4 DEF OpensInv, OutputOnce
<1> QED BY <1>1, <1>2, <1>3, <1>4, <1>5 DEF Next

\* A report opens every file once, in every format and for all that rules may
\* report: sorting brings the violations of a file together, and the renderers
\* that group by file rely on it.  Written to its end, such a report has every
\* violation under its file, because what fileRuns reads ahead begins a run.
THEOREM OpensFilesOnce ==
    ASSUME NEW Violation, Located(Violation)
    PROVE  Spec /\ []RulesReport(Violation) => []GroupedOnce
<1>1. Init => FactsInv /\ AccountInv /\ JudgedInv(Violation) /\ OpensInv
  <2> SUFFICES ASSUME Init PROVE FactsInv /\ AccountInv /\ JudgedInv(Violation) /\ OpensInv
    OBVIOUS
  <2> USE DEF Init, CommandInit
  <2>1. FactsInv
    BY DEF FactsInv, Range
  <2>2. AccountInv
    BY DEF AccountInv, AfterDiscovery
  <2>3. JudgedInv(Violation)
    BY DEF JudgedInv
  <2>4. OpensInv
    <3>1. output = Old /\ phase # "write"
      OBVIOUS
    <3> QED BY <3>1, OldIsOne DEF OpensInv, OutputOnce, OutputListed
  <2> QED BY <2>1, <2>2, <2>3, <2>4
<1>2. RulesReport(Violation) /\ TypeInv /\ FactsInv /\ JudgedInv(Violation) /\ [Next \/ Exited]_vars
        => JudgedInv(Violation)'
  BY JudgedStep
<1>3. TypeInv /\ AccountInv /\ JudgedInv(Violation) /\ ContractInv /\ [Next \/ Exited]_vars
        => ContractInv'
  BY ContractStep
<1>4. TypeInv /\ AccountInv /\ JudgedInv(Violation) /\ ContractInv /\ OpensInv
        /\ ContractInv' /\ [Next \/ Exited]_vars => OpensInv'
  BY OpensStep
<1>5. OpensInv => GroupedOnce
  BY OpensGrouped DEF OpensInv
<1> QED BY <1>1, <1>2, <1>3, <1>4, <1>5, ContractStart, TypeStart, TypeStep, FactsStep, AccountStep,
           PTL DEF Spec
-----------------------------------------------------------------------------
(* Methods in the lists of their classes *)

\* What AttachMethods adds to a list: the methods of the class that it lacks,
\* each once.
LEMMA Attached ==
    ASSUME NEW src, NEW group, NEW methods0, NEW T, NEW c \in DOMAIN methods0,
           methods0[c] \in Seq(T), IsInjective(methods0[c]),
           Places(src, group, "funcs") \in Seq(T), IsInjective(Places(src, group, "funcs"))
    PROVE  /\ AttachMethods(src, group, methods0)[c] \in Seq(T)
           /\ IsInjective(AttachMethods(src, group, methods0)[c])
           /\ \A fn : fn \in Range(AttachMethods(src, group, methods0)[c]) <=>
                 \/ fn \in Range(methods0[c])
                 \/ fn \in Range(Places(src, group, "funcs")) /\ c \in ClassOf(src, group, fn)
<1> DEFINE fns == Places(src, group, "funcs")
           joins == {i \in DOMAIN fns : c \in ClassOf(src, group, fns[i]) /\ ~ HasMethod(methods0, c, fns[i])}
           order == Ascending(joins)
           old == methods0[c]
           new == [n \in DOMAIN order |-> fns[order[n]]]
           mine == {fn \in Range(fns) : c \in ClassOf(src, group, fn)}
<1>1. AttachMethods(src, group, methods0)[c] = old \o new
  BY DEF AttachMethods
<1>2. \A x : HasMethod(methods0, c, x) <=> x \in Range(old)
  <2>1. DOMAIN old = 1 .. Len(old)
    OBVIOUS
  <2> QED BY <2>1 DEF HasMethod, Contains, Range
<1>3. joins = {i \in DOMAIN fns : c \in ClassOf(src, group, fns[i]) /\ fns[i] \notin Range(old)}
  BY <1>2
<1> HIDE DEF fns, old
<1>4. fns \in Seq(T) /\ IsInjective(fns) /\ old \in Seq(T) /\ IsInjective(old)
  BY DEF fns, old
<1>5. /\ joins \in SUBSET (1 .. Len(fns)) /\ 1 .. Len(fns) \subseteq Nat /\ Len(fns) \in Int
      /\ DOMAIN fns = 1 .. Len(fns) /\ \A i \in joins : fns[i] \in T
  BY <1>3, <1>4
<1> HIDE DEF joins
<1>6. IsFiniteSet(joins) /\ joins \subseteq Nat
  <2>1. IsFiniteSet(1 .. Len(fns))
    BY <1>5, FS_Interval
  <2> QED BY <1>5, <2>1, FS_Subset
<1>7. /\ order \in Seq(joins) /\ Range(order) = joins
      /\ \A i, j \in DOMAIN order : i < j => order[i] < order[j]
  BY <1>6, AscendingEnumerates
<1> HIDE DEF order
<1>8. /\ DOMAIN order = 1 .. Len(order) /\ Len(order) \in Nat
      /\ \A n \in 1 .. Len(order) : order[n] \in joins
  BY <1>7
<1>9. new \in Seq(T) /\ DOMAIN new = DOMAIN order
  <2>1. \A n \in 1 .. Len(order) : fns[order[n]] \in T
    BY <1>5, <1>8
  <2>2. new = [n \in 1 .. Len(order) |-> fns[order[n]]]
    BY <1>8
  <2> QED BY <1>8, <2>1, <2>2
<1>10. IsInjective(new)
  <2> SUFFICES ASSUME NEW i \in DOMAIN order, NEW j \in DOMAIN order, new[i] = new[j] PROVE i = j
    BY <1>9 DEF IsInjective
  <2>1. order[i] = order[j]
    BY <1>4, <1>5, <1>8 DEF IsInjective
  <2>2. i \in Int /\ j \in Int /\ order[i] \in Int
    <3>1. order[i] \in Nat
      BY <1>6, <1>8
    <3> HIDE DEF new, mine
    <3> QED BY <1>8, <3>1
  <2> HIDE DEF new
  <2> QED BY <1>7, <2>1, <2>2
<1>11. Range(new) = {fns[i] : i \in joins}
  <2>1. Range(new) = {fns[order[n]] : n \in DOMAIN order}
    BY DEF Range
  <2> HIDE DEF new
  <2> QED BY <1>7, <2>1 DEF Range
<1>12. Range(old) \cup Range(new) = Range(old) \cup mine
  <2>1. \A x \in Range(new) : x \in mine
    BY <1>3, <1>5, <1>11 DEF Range
  <2>2. \A x \in mine : x \in Range(old) \/ x \in Range(new)
    BY <1>3, <1>11 DEF Range
  <2> QED BY <2>1, <2>2
<1>13. \A x \in Range(new) : x \notin Range(old)
  BY <1>3, <1>11
<1>13a. \A fn : fn \in mine <=> fn \in Range(fns) /\ c \in ClassOf(src, group, fn)
  OBVIOUS
<1> HIDE DEF new, mine
<1>14. /\ old \o new \in Seq(T) /\ Range(old \o new) = Range(old) \cup Range(new)
       /\ IsInjective(old \o new)
  <2>1. /\ old \o new \in Seq(T) /\ Len(old \o new) = Len(old) + Len(new)
        /\ Len(old) \in Nat /\ Len(new) \in Nat
        /\ DOMAIN old = 1 .. Len(old) /\ DOMAIN new = 1 .. Len(new)
        /\ \A i \in 1 .. Len(old) + Len(new) :
              (old \o new)[i] = IF i <= Len(old) THEN old[i] ELSE new[i - Len(old)]
    BY <1>4, <1>9, ConcatProperties
  <2>2. DOMAIN (old \o new) = 1 .. Len(old) + Len(new)
    BY <2>1
  <2> DEFINE all == old \o new
  <2> HIDE DEF all
  <2>3. ASSUME NEW i \in DOMAIN all
        PROVE  \/ i \in DOMAIN old /\ all[i] = old[i] /\ all[i] \in Range(old)
               \/ /\ i \notin DOMAIN old /\ i - Len(old) \in DOMAIN new /\ i \in Int
                  /\ all[i] = new[i - Len(old)] /\ all[i] \in Range(new)
    <3>1. CASE i <= Len(old)
      BY <2>1, <2>2, <2>3, <3>1 DEF all, Range
    <3>2. CASE ~ (i <= Len(old))
      <4>1. /\ i \in Int /\ i \notin DOMAIN old /\ i - Len(old) \in DOMAIN new
            /\ all[i] = new[i - Len(old)]
        BY <2>1, <2>2, <2>3, <3>2 DEF all
      <4> QED BY <4>1 DEF Range
    <3> QED BY <3>1, <3>2
  <2>4. IsInjective(all)
    <3> SUFFICES ASSUME NEW i \in DOMAIN all, NEW j \in DOMAIN all, all[i] = all[j] PROVE i = j
      BY DEF IsInjective
    <3>1. CASE i \in DOMAIN old /\ j \in DOMAIN old
      BY <1>4, <2>3, <3>1 DEF IsInjective
    <3>2. CASE i \notin DOMAIN old /\ j \notin DOMAIN old
      <4>1. /\ i - Len(old) \in DOMAIN new /\ j - Len(old) \in DOMAIN new /\ i \in Int /\ j \in Int
            /\ new[i - Len(old)] = new[j - Len(old)]
        BY <2>3, <3>2
      <4>2. i - Len(old) = j - Len(old)
        BY <1>10, <4>1 DEF IsInjective
      <4> QED BY <2>1, <4>1, <4>2
    <3>3. CASE i \in DOMAIN old /\ j \notin DOMAIN old
      BY <1>13, <2>3, <3>3
    <3>4. CASE i \notin DOMAIN old /\ j \in DOMAIN old
      BY <1>13, <2>3, <3>4
    <3> QED BY <3>1, <3>2, <3>3, <3>4
  <2>5. Range(all) = Range(old) \cup Range(new)
    <3>1. \A x \in Range(all) : x \in Range(old) \cup Range(new)
      BY <2>3 DEF Range
    <3>2. \A i \in DOMAIN old : i \in DOMAIN all /\ all[i] = old[i]
      BY <2>1, <2>2 DEF all
    <3>3. \A i \in DOMAIN new : /\ Len(old) + i \in DOMAIN all /\ all[Len(old) + i] = new[i]
      <4> SUFFICES ASSUME NEW i \in DOMAIN new
                   PROVE  Len(old) + i \in DOMAIN all /\ all[Len(old) + i] = new[i]
        OBVIOUS
      <4>1. /\ Len(old) + i \in 1 .. Len(old) + Len(new) /\ ~ (Len(old) + i <= Len(old))
            /\ Len(old) + i - Len(old) = i
        BY <2>1
      <4> QED BY <2>1, <2>2, <4>1 DEF all
    <3> QED BY <3>1, <3>2, <3>3 DEF Range
  <2> QED BY <2>1, <2>4, <2>5 DEF all
<1> QED BY <1>1, <1>12, <1>13a, <1>14 DEF fns, old

\* The names that following aliases can meet.
NamesMet(aliases, name) == DOMAIN aliases \cup Range(aliases) \cup {name}

LEMMA RangeFinite ==
    ASSUME NEW h, IsFiniteSet(DOMAIN h)
    PROVE  IsFiniteSet(Range(h))
<1> DEFINE g == [x \in DOMAIN h |-> h[x]]
<1>1. g \in Surjection(DOMAIN h, Range(h))
  BY DEF Surjection, Range
<1> HIDE DEF g
<1> QED BY <1>1, FS_Surjection

LEMMA SubsetSizes ==
    ASSUME NEW S, IsFiniteSet(S)
    PROVE  /\ Cardinality(S) \in Nat
           /\ \A s \in SUBSET S : IsFiniteSet(s) /\ Cardinality(s) \in 0 .. Cardinality(S)
           /\ \A s \in SUBSET S : \A n \in S \ s :
                 s \cup {n} \in SUBSET S /\ Cardinality(s \cup {n}) = Cardinality(s) + 1
<1> DEFINE size == Cardinality(S)
<1>1. size \in Nat
  BY FS_CardinalityType
<1>2. ASSUME NEW s \in SUBSET S
      PROVE  /\ IsFiniteSet(s) /\ Cardinality(s) \in 0 .. size
             /\ \A n \in S \ s : s \cup {n} \in SUBSET S /\ Cardinality(s \cup {n}) = Cardinality(s) + 1
  <2>1. IsFiniteSet(s) /\ Cardinality(s) <= size
    BY FS_Subset
  <2>2. Cardinality(s) \in Nat
    BY <2>1, FS_CardinalityType
  <2>3. \A n \in S \ s : Cardinality(s \cup {n}) = Cardinality(s) + 1
    BY <2>1, FS_AddElement
  <2> HIDE DEF size
  <2> QED BY <1>1, <2>1, <2>2, <2>3
<1> QED BY <1>1, <1>2

\* The loop that follows aliases has a result, because it marks what it meets.
LEMMA AliasesFollowed ==
    ASSUME NEW aliases, IsFiniteSet(DOMAIN aliases), NEW name
    PROVE  \E f : /\ ResolveAlias(aliases, name) = f[<<name, {}>>]
                  /\ \A n \in NamesMet(aliases, name), s \in SUBSET NamesMet(aliases, name) :
                        f[<<n, s>>] = IF n \notin DOMAIN aliases \/ n \in s THEN n
                                      ELSE f[<<aliases[n], s \cup {n}>>]
<1> DEFINE names == NamesMet(aliases, name)
           places == names \X SUBSET names
           Step(f, p) == IF p[1] \notin DOMAIN aliases \/ p[1] \in p[2] THEN p[1]
                         ELSE f[<<aliases[p[1]], p[2] \cup {p[1]}>>]
           Is(f) == f = [p \in places |-> Step(f, p)]
           follow == CHOOSE f : Is(f)
           size == Cardinality(names)
           Beyond(f, k) == \A p \in places : Cardinality(p[2]) + k > size => f[p] = Step(f, p)
           Good == {k \in Nat : \E f : Beyond(f, k)}
<1>1. ResolveAlias(aliases, name) = follow[<<name, {}>>]
  BY DEF ResolveAlias, NamesMet
<1>2. IsFiniteSet(names) /\ name \in names
  <2>1. IsFiniteSet(Range(aliases))
    BY RangeFinite
  <2>2. IsFiniteSet({name})
    BY FS_Singleton
  <2> QED BY <2>1, <2>2, FS_Union DEF NamesMet
<1>3. \A n \in names : n \in DOMAIN aliases => aliases[n] \in names
  BY DEF NamesMet, Range
<1> HIDE DEF names
<1>4. /\ size \in Nat
      /\ \A s \in SUBSET names : IsFiniteSet(s) /\ Cardinality(s) \in 0 .. size
      /\ \A s \in SUBSET names : \A n \in names \ s :
            s \cup {n} \in SUBSET names /\ Cardinality(s \cup {n}) = Cardinality(s) + 1
  BY <1>2, SubsetSizes
<1> HIDE DEF size
<1>5. 0 \in Good
  <2>1. Beyond({}, 0)
    <3>1. \A p \in places : p[2] \in SUBSET names
      OBVIOUS
    <3> QED BY <1>4, <3>1
  <2> QED BY <2>1
<1>6. ASSUME NEW k \in Nat, k \in Good PROVE k + 1 \in Good
  <2>1. PICK f : Beyond(f, k)
    BY <1>6
  <2> DEFINE g == [p \in places |-> Step(f, p)]
  <2>2. \A p \in places : g[p] = Step(f, p)
    OBVIOUS
  <2> HIDE DEF g
  <2>3. \A p \in places : Cardinality(p[2]) + k > size => g[p] = f[p]
    BY <2>1, <2>2
  <2>4. ASSUME NEW p \in places, Cardinality(p[2]) + (k + 1) > size
        PROVE  g[p] = Step(g, p)
    <3>1. CASE p[1] \notin DOMAIN aliases \/ p[1] \in p[2]
      BY <2>2, <3>1
    <3>2. CASE p[1] \in DOMAIN aliases /\ p[1] \notin p[2]
      <4> DEFINE q == <<aliases[p[1]], p[2] \cup {p[1]}>>
      <4>1. /\ p[1] \in names /\ p[2] \in SUBSET names
            /\ aliases[p[1]] \in names /\ p[2] \cup {p[1]} \in SUBSET names
        BY <1>3, <1>4, <3>2
      <4>2. Cardinality(p[2] \cup {p[1]}) + k > size
        <5>1. Cardinality(p[2] \cup {p[1]}) = Cardinality(p[2]) + 1 /\ Cardinality(p[2]) \in Nat
          BY <1>4, <3>2, <4>1
        <5> QED BY <5>1, <2>4, <1>4
      <4>3. q \in places /\ q[2] = p[2] \cup {p[1]}
        BY <4>1
      <4>4. g[p] = f[q] /\ Step(g, p) = g[q]
        BY <2>2, <3>2
      <4> HIDE DEF q
      <4> QED BY <2>3, <4>2, <4>3, <4>4
    <3> QED BY <3>1, <3>2
  <2>5. Beyond(g, k + 1)
    BY <2>4
  <2> HIDE DEF Beyond
  <2> QED BY <2>5
<1>7. size + 1 \in Good
  <2> HIDE DEF Good
  <2>1. size + 1 \in Nat /\ size + 1 \in 0 .. size + 1
    BY <1>4
  <2>2. \A i \in 0 .. (size + 1) - 1 : i \in Good => i + 1 \in Good
    BY <1>4, <1>6
  <2> QED BY <1>5, <2>1, <2>2, Inductive
<1>8. \E f : Is(f)
  <2>1. PICK f : Beyond(f, size + 1)
    BY <1>7
  <2>2. \A p \in places : f[p] = Step(f, p)
    <3>1. \A p \in places : Cardinality(p[2]) + (size + 1) > size
      <4>1. \A p \in places : p[2] \in SUBSET names
        OBVIOUS
      <4> QED BY <1>4, <4>1
    <3> QED BY <2>1, <3>1
  <2> DEFINE g == [p \in places |-> f[p]]
  <2>3. \A p \in places : Step(g, p) = Step(f, p)
    <3> SUFFICES ASSUME NEW p \in places PROVE Step(g, p) = Step(f, p)
      OBVIOUS
    <3>1. CASE p[1] \notin DOMAIN aliases \/ p[1] \in p[2]
      BY <3>1
    <3>2. CASE p[1] \in DOMAIN aliases /\ p[1] \notin p[2]
      <4>1. <<aliases[p[1]], p[2] \cup {p[1]}>> \in places
        BY <1>3, <3>2
      <4> QED BY <3>2, <4>1
    <3> QED BY <3>1, <3>2
  <2>4. Is(g)
    <3> HIDE DEF Step
    <3> QED BY <2>2, <2>3
  <2> QED BY <2>4
<1>9. Is(follow)
  <2> HIDE DEF Is
  <2> QED BY <1>8
<1> HIDE DEF follow
<1>10. \A n \in names, s \in SUBSET names :
          follow[<<n, s>>] = IF n \notin DOMAIN aliases \/ n \in s THEN n
                             ELSE follow[<<aliases[n], s \cup {n}>>]
  <2> SUFFICES ASSUME NEW n \in names, NEW s \in SUBSET names
               PROVE  follow[<<n, s>>] = IF n \notin DOMAIN aliases \/ n \in s THEN n
                                         ELSE follow[<<aliases[n], s \cup {n}>>]
    OBVIOUS
  <2>1. <<n, s>> \in places
    OBVIOUS
  <2>2. follow[<<n, s>>] = Step(follow, <<n, s>>)
    <3> HIDE DEF Step, places
    <3> QED BY <1>9, <2>1
  <2> QED BY <2>2
<1> QED BY <1>1, <1>10 DEF names

\* A name means the same with more aliases, as long as what it ends at is not
\* one of them.
LEMMA ResolvesAlike ==
    ASSUME NEW a, NEW b, IsFiniteSet(DOMAIN a), IsFiniteSet(DOMAIN b),
           DOMAIN a \subseteq DOMAIN b, \A n \in DOMAIN a : a[n] = b[n],
           NEW name, ResolveAlias(a, name) \notin DOMAIN b
    PROVE  ResolveAlias(b, name) = ResolveAlias(a, name)
<1> DEFINE names == NamesMet(a, name)
           more == NamesMet(b, name)
           size == Cardinality(names)
<1>1. PICK f : /\ ResolveAlias(a, name) = f[<<name, {}>>]
               /\ \A n \in names, s \in SUBSET names :
                     f[<<n, s>>] = IF n \notin DOMAIN a \/ n \in s THEN n
                                   ELSE f[<<a[n], s \cup {n}>>]
  BY AliasesFollowed
<1>2. PICK g : /\ ResolveAlias(b, name) = g[<<name, {}>>]
               /\ \A n \in more, s \in SUBSET more :
                     g[<<n, s>>] = IF n \notin DOMAIN b \/ n \in s THEN n
                                   ELSE g[<<b[n], s \cup {n}>>]
  BY AliasesFollowed
<1>3. /\ names \subseteq more /\ name \in names
      /\ \A n \in names : n \in DOMAIN a => a[n] \in names
  BY DEF NamesMet, Range
<1>4. IsFiniteSet(names)
  <2>1. IsFiniteSet(Range(a))
    BY RangeFinite
  <2>2. IsFiniteSet({name})
    BY FS_Singleton
  <2> QED BY <2>1, <2>2, FS_Union DEF NamesMet
<1> HIDE DEF names, more
<1> DEFINE Agree(k) == \A n \in names, s \in SUBSET names :
                          Cardinality(s) + k > size /\ f[<<n, s>>] \notin DOMAIN b
                             => g[<<n, s>>] = f[<<n, s>>]
           Good == {k \in Nat : Agree(k)}
<1>5. size \in Nat /\ \A s \in SUBSET names : Cardinality(s) \in 0 .. size
  BY <1>4, SubsetSizes
<1>6. \A s \in SUBSET names : \A n \in names \ s :
         s \cup {n} \in SUBSET names /\ Cardinality(s \cup {n}) = Cardinality(s) + 1
  BY <1>4, SubsetSizes
<1> HIDE DEF size
<1>7. 0 \in Good
  BY <1>5
<1>8. ASSUME NEW k \in Nat, k \in Good PROVE k + 1 \in Good
  <2>1. ASSUME NEW n \in names, NEW s \in SUBSET names,
               Cardinality(s) + (k + 1) > size, f[<<n, s>>] \notin DOMAIN b
        PROVE  g[<<n, s>>] = f[<<n, s>>]
    <3>1. n \in more /\ s \in SUBSET more
      BY <1>3
    <3>2. CASE n \notin DOMAIN a
      <4>1. f[<<n, s>>] = n
        BY <1>1, <3>2
      <4>2. n \notin DOMAIN b
        BY <2>1, <4>1
      <4> QED BY <1>2, <3>1, <4>1, <4>2
    <3>3. CASE n \in DOMAIN a /\ n \in s
      <4>1. f[<<n, s>>] = n
        BY <1>1, <3>3
      <4> QED BY <2>1, <3>3, <4>1
    <3>4. CASE n \in DOMAIN a /\ n \notin s
      <4> DEFINE m == a[n]
                 t == s \cup {n}
      <4>1. m \in names /\ t \in SUBSET names /\ Cardinality(t) = Cardinality(s) + 1
        BY <1>3, <1>6, <3>4
      <4>2. Cardinality(t) + k > size
        BY <1>5, <2>1, <4>1
      <4>3. f[<<n, s>>] = f[<<m, t>>]
        BY <1>1, <3>4
      <4>4. g[<<n, s>>] = g[<<m, t>>]
        <5>1. n \in DOMAIN b /\ b[n] = m
          BY <3>4
        <5> QED BY <1>2, <3>1, <3>4, <5>1
      <4> HIDE DEF m, t
      <4>5. g[<<m, t>>] = f[<<m, t>>]
        BY <1>8, <2>1, <4>1, <4>2, <4>3
      <4> QED BY <4>3, <4>4, <4>5
    <3> QED BY <3>2, <3>3, <3>4
  <2>2. Agree(k + 1)
    BY <2>1
  <2> HIDE DEF Agree
  <2> QED BY <2>2
<1>9. size + 1 \in Good
  <2> HIDE DEF Good
  <2>1. size + 1 \in Nat /\ size + 1 \in 0 .. size + 1
    BY <1>5
  <2>2. \A i \in 0 .. (size + 1) - 1 : i \in Good => i + 1 \in Good
    BY <1>5, <1>8
  <2> QED BY <1>7, <2>1, <2>2, Inductive
<1>10. Agree(size + 1)
  <2> HIDE DEF Agree
  <2> QED BY <1>9
<1>11. {} \in SUBSET names /\ Cardinality({}) + (size + 1) > size
  BY <1>5, <1>4
<1> QED BY <1>1, <1>2, <1>3, <1>10, <1>11

LEMMA SeqElements ==
    ASSUME NEW T, NEW s \in Seq(T)
    PROVE  \A i \in DOMAIN s : i \in Int /\ s[i] \in T /\ s[i] \in Range(s)
BY DEF Range

LEMMA MaxOfOne == ASSUME NEW i \in Int PROVE Max({i}) = i
BY DEF Max

\* A name that one file of a group declares is what that file says.
LEMMA DeclaredAlone ==
    ASSUME NEW src, NEW group, NEW kind, NEW i \in DOMAIN group, i \in Int,
           NEW x \in DOMAIN src[group[i]][kind],
           \A j \in DOMAIN group : x \in DOMAIN src[group[j]][kind] => j = i
    PROVE  /\ x \in DOMAIN LastDeclared(src, group, kind)
           /\ LastDeclared(src, group, kind)[x] = src[group[i]][kind][x]
<1> DEFINE holders == {j \in DOMAIN group : x \in DOMAIN src[group[j]][kind]}
           names == UNION {DOMAIN src[group[j]][kind] : j \in DOMAIN group}
<1>1. x \in names
  OBVIOUS
<1>2. holders = {i}
  OBVIOUS
<1>3. Max(holders) = i
  BY <1>2, MaxOfOne
<1>4. /\ DOMAIN LastDeclared(src, group, kind) = names
      /\ LastDeclared(src, group, kind)[x] = src[group[Max(holders)]][kind][x]
  BY <1>1 DEF LastDeclared
<1> HIDE DEF names, holders
<1> QED BY <1>1, <1>3, <1>4

LEMMA DeclaredDomain ==
    ASSUME NEW src, NEW group, NEW kind
    PROVE  \A x : x \in DOMAIN LastDeclared(src, group, kind)
                    <=> \E i \in DOMAIN group : x \in DOMAIN src[group[i]][kind]
BY DEF LastDeclared

LEMMA DeclaredFinite ==
    ASSUME NEW src, NEW S, NEW group \in Seq(S), NEW kind,
           \A q \in S : IsFiniteSet(DOMAIN src[q][kind])
    PROVE  IsFiniteSet(DOMAIN LastDeclared(src, group, kind))
<1> DEFINE h == [i \in DOMAIN group |-> DOMAIN src[group[i]][kind]]
<1>1. DOMAIN group = 1 .. Len(group) /\ Len(group) \in Nat /\ \A i \in DOMAIN group : group[i] \in S
  OBVIOUS
<1>2. IsFiniteSet(DOMAIN h)
  BY <1>1, FS_Interval
<1>3. Range(h) = {DOMAIN src[group[i]][kind] : i \in DOMAIN group}
  BY DEF Range
<1>4. \A T \in Range(h) : IsFiniteSet(T)
  BY <1>1, <1>3
<1> HIDE DEF h
<1>5. IsFiniteSet(Range(h))
  BY <1>2, RangeFinite
<1>6. IsFiniteSet(UNION Range(h))
  BY <1>4, <1>5, FS_UNION
<1>7. DOMAIN LastDeclared(src, group, kind) = UNION {DOMAIN src[group[i]][kind] : i \in DOMAIN group}
  BY DEF LastDeclared
<1> QED BY <1>3, <1>6, <1>7

\* The class of a method: the one that its receiver leads to.
Receiver(src, group, fn) ==
    ResolveAlias(LastDeclared(src, group, "aliases"), Declaration(src, "funcs", fn).receiver)
Classes(src, group) == AllPlaces(src, "classes", Range(group))

LEMMA ClassFound ==
    ASSUME NEW src, NEW S, NEW group \in Seq(S), IsInjective(group),
           \A q \in S : IsSequence(src[q]["classes"]),
           NEW fn, Declaration(src, "funcs", fn).receiver # "",
           NEW c, c \in Classes(src, group),
           Declaration(src, "classes", c).name = Receiver(src, group, fn),
           \A x \in Classes(src, group) :
              Declaration(src, "classes", x).name = Receiver(src, group, fn) => x = c
    PROVE  ClassOf(src, group, fn) = {c}
<1> DEFINE places == Places(src, group, "classes")
           name == Receiver(src, group, fn)
           named == ClassesNamed(src, group, name)
<1>1. /\ places \in Seq(S \X Nat) /\ Range(places) = Classes(src, group)
      /\ IsInjective(places)
  BY PlacesOf DEF Classes
<1>2. named = {i \in DOMAIN places : Declaration(src, "classes", places[i]).name = name}
  BY DEF ClassesNamed
<1>3. ClassOf(src, group, fn) = IF named = {} THEN {} ELSE {places[Max(named)]}
  BY DEF ClassOf, Receiver
<1> HIDE DEF places, named, name
<1>4. \A i \in DOMAIN places : places[i] \in Classes(src, group) /\ i \in Int
  <2>1. \A i \in DOMAIN places : places[i] \in Range(places) /\ i \in Int
    BY <1>1, SeqElements
  <2> QED BY <1>1, <2>1
<1>5. PICK i \in DOMAIN places : places[i] = c
  BY <1>1 DEF Range
<1>6. \A j \in DOMAIN places : j \in named <=> places[j] = c
  BY <1>2, <1>4 DEF name
<1>7. named = {i}
  BY <1>1, <1>2, <1>5, <1>6 DEF IsInjective
<1>8. Max(named) = i
  BY <1>4, <1>7, MaxOfOne
<1> QED BY <1>3, <1>5, <1>7, <1>8

LEMMA ClassPlaced ==
    ASSUME NEW src, NEW S, NEW group \in Seq(S), \A q \in S : IsSequence(src[q]["classes"]),
           NEW fn, NEW c \in ClassOf(src, group, fn)
    PROVE  /\ Declaration(src, "funcs", fn).receiver # ""
           /\ \E x \in Classes(src, group) :
                 Declaration(src, "classes", x).name = Receiver(src, group, fn)
<1> DEFINE places == Places(src, group, "classes")
           name == Receiver(src, group, fn)
           named == ClassesNamed(src, group, name)
<1>1. Declaration(src, "funcs", fn).receiver # "" /\ named # {}
  BY DEF ClassOf, Receiver
<1>2. PICK i : i \in named
  BY <1>1
<1>3. i \in DOMAIN places /\ Declaration(src, "classes", places[i]).name = name
  BY <1>2 DEF ClassesNamed
<1>4. Range(places) = Classes(src, group)
  BY PlacesOf DEF Classes
<1> HIDE DEF places, named, name
<1>5. places[i] \in Classes(src, group)
  BY <1>3, <1>4 DEF Range
<1> QED BY <1>1, <1>3, <1>5 DEF name

\* What the language asks of the files that one build makes a package of: a name
\* is declared once, as a struct type or as an alias.
TypesOnce ==
    \A p, q \in Range(parsed) : Together(p, q) =>
        /\ p # q => DOMAIN Source(p).aliases \cap DOMAIN Source(q).aliases = {}
        /\ \A m \in DOMAIN Source(p).classes : \A n \in DOMAIN Source(q).classes :
              Source(p).classes[m].name = Source(q).classes[n].name => p = q /\ m = n
        /\ \A m \in DOMAIN Source(p).classes : Source(p).classes[m].name \notin DOMAIN Source(q).aliases

\* A file on its own, as the parser sees it.
OneSource(p) == [q \in {p} |-> Source(q)]

LEMMA ParsedAliases ==
    ASSUME TypeInv, NEW p, Parses(fs, p)
    PROVE  IsFiniteSet(DOMAIN Source(p).aliases)
<1>1. fs \in FileSystems
  BY DEF TypeInv, ArgumentsInv
<1>2. RealPath(fs, p) \in DOMAIN fs.node /\ fs.node[RealPath(fs, p)].type = "file"
  BY DEF Parses, Exists, At
<1> QED BY <1>1, <1>2, TreesAssumption DEF Source, At

LEMMA GroupInjective ==
    ASSUME NEW S, parsed \in Seq(S), IsInjective(parsed), NEW k
    PROVE  IsInjective(Group(k))
<1> DEFINE I == {i \in DOMAIN parsed : KeyOf(parsed[i]) = k}
           members == Ascending(I)
<1>1. I \in SUBSET (1 .. Len(parsed)) /\ 1 .. Len(parsed) \subseteq Nat /\ Len(parsed) \in Int
  OBVIOUS
<1>2. IsFiniteSet(I) /\ I \subseteq Nat
  <2> HIDE DEF I
  <2>1. IsFiniteSet(1 .. Len(parsed))
    BY <1>1, FS_Interval
  <2> QED BY <1>1, <2>1, FS_Subset
<1>3. /\ members \in Seq(I)
      /\ \A i, j \in DOMAIN members : i < j => members[i] < members[j]
  <2> HIDE DEF I
  <2> QED BY <1>2, AscendingEnumerates
<1>4. Group(k) = [n \in DOMAIN members |-> parsed[members[n]]]
  BY DEF Group
<1>5. \A i \in I : i \in DOMAIN parsed
  OBVIOUS
<1> HIDE DEF members, I
<1>6. \A i \in DOMAIN members : i \in Int /\ members[i] \in I
  BY <1>3, SeqElements
<1>7. ASSUME NEW i \in DOMAIN members, NEW j \in DOMAIN members, parsed[members[i]] = parsed[members[j]]
      PROVE  i = j
  <2>1. members[i] = members[j]
    BY <1>5, <1>6, <1>7 DEF IsInjective
  <2>2. members[i] \in Nat
    BY <1>2, <1>6
  <2>3. ~ (i < j) /\ ~ (j < i)
    BY <1>3, <2>1, <2>2
  <2> QED BY <1>6, <2>3
<1> QED BY <1>4, <1>7 DEF IsInjective

LEMMA ListedPlace ==
    ASSUME NEW src, NEW kind, NEW q, NEW m
    PROVE  Declaration(src, kind, <<q, m>>) = src[q][kind][m]
BY DEF Declaration

\* The class that the parser finds for a method is the one that the runner finds.
LEMMA OwnClass ==
    ASSUME TypeInv, FactsInv, TypesOnce, IsInjective(parsed),
           NEW p \in Range(parsed), NEW n \in DOMAIN Source(p).funcs,
           NEW c, c \in ClassOf(OneSource(p), <<p>>, <<p, n>>)
    PROVE  c \in ClassOf(Parsed, Group(KeyOf(p)), <<p, n>>)
<1> DEFINE one == OneSource(p)
           alone == <<p>>
           P == {p}
           g == Group(KeyOf(p))
           fn == <<p, n>>
<1>1. /\ alone \in Seq(P) /\ IsInjective(alone) /\ Range(alone) = {p}
      /\ DOMAIN alone = {1} /\ alone[1] = p
  BY DEF IsInjective, Range
<1>2. one[p] = Source(p)
  BY DEF OneSource
<1>3. \A q \in Range(parsed) : /\ Parsed[q] = Source(q)
                               /\ IsSequence(Source(q)["classes"])
                               /\ IsFiniteSet(DOMAIN Source(q).aliases)
  BY ParsedLists, ParsedAliases DEF FactsInv, Parsed
<1>4. /\ g \in Seq(Range(parsed)) /\ IsInjective(g) /\ p \in Range(g)
      /\ Range(g) = {q \in Range(parsed) : KeyOf(q) = KeyOf(p)}
  BY GroupMembers, GroupInjective DEF TypeInv, FilesInv
<1>5. \A q, r \in Range(g) : q \in Range(parsed) /\ r \in Range(parsed) /\ Together(q, r)
  BY <1>4 DEF Together, KeyOf, PackageKey
<1>6. /\ Declaration(one, "funcs", fn) = Source(p)["funcs"][n]
      /\ Declaration(Parsed, "funcs", fn) = Source(p)["funcs"][n]
  BY <1>2, <1>3, ListedPlace
<1> HIDE DEF one, alone, g, fn
<1>7. \A q \in P : IsSequence(one[q]["classes"])
  BY <1>2, <1>3
<1>8. \A q \in Range(parsed) : IsSequence(Parsed[q]["classes"])
  BY <1>3
<1>9. c \in ClassOf(one, alone, fn)
  BY DEF one, alone, fn
<1>9b. /\ Declaration(one, "funcs", fn).receiver # ""
       /\ \E x \in Classes(one, alone) : Declaration(one, "classes", x).name = Receiver(one, alone, fn)
  <2>1. alone \in Seq(P)
    BY <1>1
  <2> HIDE DEF P
  <2> QED BY ONLY <1>7, <1>9, <2>1, ClassPlaced
<1>10. PICK x \in Classes(one, alone) : Declaration(one, "classes", x).name = Receiver(one, alone, fn)
  BY <1>9b
<1>11. Source(p)["funcs"][n].receiver # ""
  BY <1>6, <1>9b
<1>12. PICK m \in DOMAIN Source(p)["classes"] : x = <<p, m>>
  BY <1>1, <1>2, <1>10, AllPlacesMembers DEF Classes
<1> DEFINE name == Source(p)["classes"][m].name
<1>13. Receiver(one, alone, fn) = name
  BY <1>2, <1>10, <1>12, ListedPlace
<1>14. \A y \in Classes(one, alone) : Declaration(one, "classes", y).name = name <=> y = x
  <2> SUFFICES ASSUME NEW y \in Classes(one, alone)
               PROVE  Declaration(one, "classes", y).name = name <=> y = x
    OBVIOUS
  <2>1. PICK k \in DOMAIN Source(p)["classes"] : y = <<p, k>>
    BY <1>1, <1>2, AllPlacesMembers DEF Classes
  <2>2. Declaration(one, "classes", y).name = Source(p)["classes"][k].name
    BY <1>2, <2>1, ListedPlace
  <2>3. Source(p)["classes"][k].name = name => k = m
    BY <1>4, <1>5, <1>12, <2>1 DEF TypesOnce
  <2> QED BY <1>12, <2>1, <2>2, <2>3
<1>15. c = x
  <2>1. Declaration(one, "funcs", fn).receiver # ""
    BY <1>6, <1>11
  <2>2. \A y \in Classes(one, alone) :
           Declaration(one, "classes", y).name = Receiver(one, alone, fn) => y = x
    BY <1>13, <1>14
  <2>3. alone \in Seq(P) /\ IsInjective(alone)
    BY <1>1
  <2>4. x \in Classes(one, alone) /\ Declaration(one, "classes", x).name = Receiver(one, alone, fn)
    BY <1>10
  <2> HIDE DEF name, P
  <2>5. ClassOf(one, alone, fn) = {x}
    BY ONLY <1>7, <2>1, <2>2, <2>3, <2>4, ClassFound
  <2> QED BY <1>9, <2>5
<1> DEFINE La == LastDeclared(one, alone, "aliases")
           Lb == LastDeclared(Parsed, g, "aliases")
<1>16. /\ DOMAIN La = DOMAIN Source(p).aliases
       /\ \A z \in DOMAIN La : La[z] = Source(p).aliases[z]
  <2>1. \A z : z \in DOMAIN La <=> \E i \in DOMAIN alone : z \in DOMAIN one[alone[i]]["aliases"]
    BY DeclaredDomain
  <2>2. DOMAIN La = DOMAIN Source(p).aliases
    BY <1>1, <1>2, <2>1
  <2>3. ASSUME NEW z \in DOMAIN La PROVE La[z] = Source(p).aliases[z]
    <3>1. z \in DOMAIN one[alone[1]]["aliases"]
      BY <1>1, <1>2, <2>2
    <3>2. La[z] = one[alone[1]]["aliases"][z]
      BY <1>1, <3>1, DeclaredAlone
    <3> QED BY <1>1, <1>2, <3>2
  <2> QED BY <2>2, <2>3
<1>17. PICK i \in DOMAIN g : g[i] = p
  BY <1>4 DEF Range
<1>18. \A z \in DOMAIN La : z \in DOMAIN Lb /\ Lb[z] = La[z]
  <2> SUFFICES ASSUME NEW z \in DOMAIN La PROVE z \in DOMAIN Lb /\ Lb[z] = La[z]
    OBVIOUS
  <2>1. i \in Int /\ \A j \in DOMAIN g : g[j] \in Range(g)
    BY <1>4, SeqElements
  <2>2. z \in DOMAIN Parsed[g[i]]["aliases"]
    BY <1>3, <1>16, <1>17
  <2>3. ASSUME NEW j \in DOMAIN g, z \in DOMAIN Parsed[g[j]]["aliases"] PROVE j = i
    <3>1. z \in DOMAIN Source(g[j]).aliases /\ z \in DOMAIN Source(p).aliases
      BY <1>3, <1>5, <1>16, <2>1, <2>3
    <3>2. g[j] = p
      BY <1>4, <1>5, <2>1, <3>1 DEF TypesOnce
    <3> QED BY <1>4, <1>17, <3>2 DEF IsInjective
  <2>4. z \in DOMAIN Lb /\ Lb[z] = Parsed[g[i]]["aliases"][z]
    BY <2>1, <2>2, <2>3, DeclaredAlone
  <2> QED BY <1>3, <1>16, <1>17, <2>4
<1>19. name \notin DOMAIN Lb
  <2> SUFFICES ASSUME name \in DOMAIN Lb PROVE FALSE
    OBVIOUS
  <2>1. PICK j \in DOMAIN g : name \in DOMAIN Parsed[g[j]]["aliases"]
    BY DeclaredDomain
  <2>2. g[j] \in Range(g)
    BY <1>4, SeqElements
  <2>3. name \in DOMAIN Source(g[j]).aliases
    BY <1>3, <1>5, <2>1, <2>2
  <2> QED BY <1>4, <1>5, <1>12, <2>2, <2>3 DEF TypesOnce
<1>20. IsFiniteSet(DOMAIN La) /\ IsFiniteSet(DOMAIN Lb)
  <2>1. \A q \in Range(parsed) : IsFiniteSet(DOMAIN Parsed[q]["aliases"])
    BY <1>3
  <2> QED BY <1>3, <1>4, <1>16, <2>1, DeclaredFinite
<1> DEFINE rec == Source(p)["funcs"][n].receiver
<1>21. ResolveAlias(La, rec) = name
  BY <1>6, <1>13 DEF Receiver
<1>22. Receiver(Parsed, g, fn) = ResolveAlias(Lb, rec)
  BY <1>6 DEF Receiver
<1> HIDE DEF La, Lb, rec, name
<1>23. Receiver(Parsed, g, fn) = name
  BY <1>18, <1>19, <1>20, <1>21, <1>22, ResolvesAlike
<1>24. x \in Classes(Parsed, g)
  BY <1>3, <1>4, <1>12, AllPlacesMembers DEF Classes
<1>25. \A y \in Classes(Parsed, g) : Declaration(Parsed, "classes", y).name = name <=> y = x
  <2> SUFFICES ASSUME NEW y \in Classes(Parsed, g)
               PROVE  Declaration(Parsed, "classes", y).name = name <=> y = x
    OBVIOUS
  <2>1. PICK q \in Range(g) : \E k \in DOMAIN Parsed[q]["classes"] : y = <<q, k>>
    BY AllPlacesMembers DEF Classes
  <2>2. PICK k \in DOMAIN Source(q)["classes"] : y = <<q, k>>
    BY <1>3, <1>5, <2>1
  <2>3. Declaration(Parsed, "classes", y).name = Source(q)["classes"][k].name
    BY <1>3, <1>5, <2>2, ListedPlace
  <2>4. Source(q)["classes"][k].name = name => q = p /\ k = m
    BY <1>4, <1>5, <1>12, <2>1, <2>2 DEF TypesOnce, name
  <2> QED BY <1>12, <2>2, <2>3, <2>4 DEF name
<1>26. ClassOf(Parsed, g, fn) = {x}
  <2>1. Declaration(Parsed, "funcs", fn).receiver # ""
    BY <1>6, <1>11
  <2>2. \A y \in Classes(Parsed, g) :
           Declaration(Parsed, "classes", y).name = Receiver(Parsed, g, fn) => y = x
    BY <1>23, <1>25
  <2>3. Declaration(Parsed, "classes", x).name = Receiver(Parsed, g, fn)
    BY <1>23, <1>24, <1>25
  <2> QED BY ONLY <1>4, <1>8, <1>24, <2>1, <2>2, <2>3, ClassFound
<1> QED BY <1>15, <1>26 DEF g, fn

\* A method in the list of a class: the parser put it there, or the runner did
\* when it annotated the package.
Rightly(c, fn) ==
    \E p \in Range(parsed) : \E n \in DOMAIN Source(p).funcs :
        /\ fn = <<p, n>>
        /\ \/ c \in ClassOf(OneSource(p), <<p>>, fn)
           \/ phase # "parse" /\ c \in ClassOf(Parsed, Group(KeyOf(p)), fn)

BeforeParsing == {"start", "options", "renderer", "rulesets", "discover"}

\* Every file is parsed once, no list has a method twice or wrongly, and the
\* lists of an annotated package lack none.
ListsInv ==
    /\ IsInjective(parsed) /\ IsInjective(unread) /\ Range(parsed) \cap Range(unread) = {}
    /\ phase \in BeforeParsing => methods = <<>>
    /\ \A c \in DOMAIN methods :
          /\ methods[c] \in Seq(Range(found) \X Nat) /\ IsInjective(methods[c])
          /\ \A fn \in Range(methods[c]) : Rightly(c, fn)
    /\ phase \in {"annotate", "analyze"} =>
          \A p \in Range(parsed) : KeyOf(p) \notin unmarked =>
              \A n \in DOMAIN Source(p).funcs : \A c \in DOMAIN methods :
                  c \in ClassOf(Parsed, Group(KeyOf(p)), <<p, n>>) => <<p, n>> \in Range(methods[c])

LEMMA TakenOnce ==
    ASSUME NEW S, NEW s \in Seq(S), s # <<>>, IsInjective(s)
    PROVE  Head(s) \notin Range(Tail(s)) /\ IsInjective(Tail(s))
<1>1. /\ Tail(s) \in Seq(S) /\ Len(s) \in Nat \ {0} /\ Len(Tail(s)) = Len(s) - 1
      /\ \A i \in 1 .. Len(s) - 1 : Tail(s)[i] = s[i + 1]
      /\ DOMAIN s = 1 .. Len(s) /\ DOMAIN Tail(s) = 1 .. Len(s) - 1
      /\ Head(s) = s[1]
  BY HeadTailProperties
<1>2. \A i \in 1 .. Len(s) - 1 : i + 1 \in DOMAIN s /\ i + 1 # 1 /\ i \in Int
  BY <1>1
<1>3. 1 \in DOMAIN s
  BY <1>1
<1>4. Head(s) \notin Range(Tail(s))
  <2> SUFFICES ASSUME NEW i \in DOMAIN Tail(s), Tail(s)[i] = Head(s) PROVE FALSE
    BY DEF Range
  <2>1. s[i + 1] = s[1]
    BY <1>1
  <2>2. i + 1 \in DOMAIN s /\ i + 1 # 1
    BY <1>1, <1>2
  <2> QED BY <1>3, <2>1, <2>2 DEF IsInjective
<1>5. IsInjective(Tail(s))
  <2> SUFFICES ASSUME NEW i \in DOMAIN Tail(s), NEW j \in DOMAIN Tail(s), Tail(s)[i] = Tail(s)[j]
               PROVE  i = j
    BY DEF IsInjective
  <2>1. s[i + 1] = s[j + 1]
    BY <1>1
  <2>2. i + 1 \in DOMAIN s /\ j + 1 \in DOMAIN s /\ i \in Int /\ j \in Int
    BY <1>1, <1>2
  <2>3. i + 1 = j + 1
    BY <2>1, <2>2 DEF IsInjective
  <2> QED BY <2>2, <2>3
<1> QED BY <1>4, <1>5

LEMMA AppendedOnce ==
    ASSUME NEW S, NEW s \in Seq(S), NEW last \in S, IsInjective(s), last \notin Range(s)
    PROVE  IsInjective(Append(s, last))
<1>1. /\ Len(s) \in Nat /\ DOMAIN s = 1 .. Len(s) /\ DOMAIN Append(s, last) = 1 .. Len(s) + 1
      /\ \A i \in 1 .. Len(s) : Append(s, last)[i] = s[i]
      /\ Append(s, last)[Len(s) + 1] = last
  BY AppendProperties
<1>2. ASSUME NEW i \in DOMAIN Append(s, last)
      PROVE  \/ i \in DOMAIN s /\ Append(s, last)[i] = s[i] /\ s[i] # last
             \/ i = Len(s) + 1 /\ Append(s, last)[i] = last
  <2>1. \A k \in DOMAIN s : s[k] # last
    BY DEF Range
  <2>2. i \in 1 .. Len(s) \/ i = Len(s) + 1
    BY <1>1, <1>2
  <2> QED BY <1>1, <2>1, <2>2
<1>3. ASSUME NEW i \in DOMAIN Append(s, last), NEW j \in DOMAIN Append(s, last),
             Append(s, last)[i] = Append(s, last)[j]
      PROVE  i = j
  BY <1>2, <1>3 DEF IsInjective
<1> QED BY <1>3 DEF IsInjective

\* What lists have, they have while the files and what is known of them stand.
LEMMA ListsSettled ==
    ASSUME ListsInv, UNCHANGED <<fs, found, unread, parsed, methods, unmarked>>,
           phase' \in BeforeParsing => phase \in BeforeParsing,
           phase' = "parse" => phase = "parse" \/ methods = <<>>,
           phase' \in {"annotate", "analyze"} => phase \in {"annotate", "analyze"}
    PROVE  ListsInv'
<1>1. /\ Parsed' = Parsed /\ \A k : Group(k)' = Group(k)
      /\ \A p : KeyOf(p)' = KeyOf(p) /\ Source(p)' = Source(p) /\ OneSource(p)' = OneSource(p)
  BY DEF Parsed, Source, KeyOf, Group, OneSource
<1>2. ASSUME NEW c \in DOMAIN methods, NEW fn \in Range(methods[c]) PROVE Rightly(c, fn)'
  <2>1. methods # <<>>
    OBVIOUS
  <2>2. Rightly(c, fn)
    BY DEF ListsInv
  <2> QED BY <1>1, <2>1, <2>2 DEF Rightly
<1> QED BY <1>1, <1>2 DEF ListsInv

\* Until files are parsed there are no lists.
LEMMA ListsEmpty ==
    ASSUME ListsInv, phase \in BeforeParsing, UNCHANGED <<unread, parsed, methods>>,
           phase' \in BeforeParsing \cup {"done"}
    PROVE  ListsInv'
<1>1. methods' = <<>> /\ DOMAIN <<>> = {}
  BY DEF ListsInv
<1>2. IsInjective(parsed') /\ IsInjective(unread') /\ Range(parsed') \cap Range(unread') = {}
  BY DEF ListsInv
<1>3. phase' \notin {"annotate", "analyze"}
  BY DEF BeforeParsing
<1> QED BY <1>1, <1>2, <1>3 DEF ListsInv

LEMMA SortSourcesLists == TypeInv /\ ListsInv /\ SortSources => ListsInv'
<1> SUFFICES ASSUME TypeInv, ListsInv, SortSources PROVE ListsInv'
  OBVIOUS
<1>1. /\ phase = "discover" /\ phase' = "parse" /\ UNCHANGED <<parsed, methods>>
      /\ unread' = Sorted(Range(found))
  BY DEF SortSources
<1>2. parsed = <<>> /\ methods = <<>> /\ DOMAIN <<>> = {} /\ Range(<<>>) = {}
  BY <1>1 DEF TypeInv, FilesInv, ListsInv, BeforeParsing, Range
<1>3. IsFiniteSet(Range(found)) /\ Range(found) \subseteq Path
  <2>1. found \in Seq(Path)
    BY DEF TypeInv, FilesInv
  <2>2. found \in Surjection(1 .. Len(found), Range(found)) /\ Len(found) \in Nat
    BY <2>1 DEF Surjection, Range
  <2>3. IsFiniteSet(1 .. Len(found))
    BY <2>2, FS_Interval
  <2> QED BY <2>1, <2>2, <2>3, FS_Surjection, RangeOfSeq
<1>4. /\ unread' \in Seq(Range(found))
      /\ \A i, j \in DOMAIN unread' : i < j => PathLess(unread'[i], unread'[j])
  BY <1>1, <1>3, SortedPaths
<1>5. ASSUME NEW i \in DOMAIN unread', NEW j \in DOMAIN unread', unread'[i] = unread'[j]
      PROVE  i = j
  <2>1. i \in Int /\ j \in Int /\ unread'[i] \in Path
    BY <1>3, <1>4, SeqElements
  <2>2. ~ (i < j) /\ ~ (j < i)
    BY <1>4, <1>5, <2>1, PathLessIrreflexive
  <2> QED BY <2>1, <2>2
<1>6. IsInjective(unread')
  BY <1>5 DEF IsInjective
<1>7. IsInjective(parsed') /\ Range(parsed') \cap Range(unread') = {}
  BY <1>1, <1>2 DEF ListsInv
<1> QED BY <1>1, <1>2, <1>6, <1>7 DEF ListsInv, BeforeParsing

LEMMA SeqWider ==
    ASSUME NEW S, NEW T, S \subseteq T, NEW s \in Seq(S)
    PROVE  s \in Seq(T)
OBVIOUS

\* The lists of a file's classes, as the parser makes them.
LEMMA Built ==
    ASSUME NEW F, NEW p \in F, IsSequence(Source(p)["funcs"]), IsSequence(Source(p)["classes"]),
           NEW c \in DOMAIN BuiltMethods(OneSource(p), p)
    PROVE  LET list == BuiltMethods(OneSource(p), p)[c]
           IN  /\ list \in Seq(F \X Nat) /\ IsInjective(list)
               /\ \A fn \in Range(list) : c \in ClassOf(OneSource(p), <<p>>, fn)
                     /\ \E n \in DOMAIN Source(p)["funcs"] : fn = <<p, n>>
<1> DEFINE one == OneSource(p)
           alone == <<p>>
           own == Places(one, alone, "classes")
           fns == Places(one, alone, "funcs")
           empty == [x \in Range(own) |-> <<>>]
           P == {p}
<1>1. BuiltMethods(one, p) = AttachMethods(one, alone, empty)
  BY DEF BuiltMethods
<1>2. /\ alone \in Seq(P) /\ IsInjective(alone) /\ Range(alone) = {p}
  BY DEF IsInjective, Range
<1>3. one[p] = Source(p)
  BY DEF OneSource
<1>4. \A q \in P : IsSequence(one[q]["funcs"])
  BY <1>3
<1>5. P \X Nat \subseteq F \X Nat
  OBVIOUS
<1>6. DOMAIN AttachMethods(one, alone, empty) = DOMAIN empty
  BY DEF AttachMethods
<1>7. c \in DOMAIN empty /\ empty[c] = <<>>
  BY <1>1, <1>6
<1> HIDE DEF one, alone, empty, P
<1>8. /\ fns \in Seq(P \X Nat) /\ IsInjective(fns)
      /\ Range(fns) = AllPlaces(one, "funcs", Range(alone))
  BY <1>2, <1>4, PlacesOf
<1> HIDE DEF fns
<1>9. fns \in Seq(F \X Nat)
  BY <1>5, <1>8, SeqWider
<1>10. empty[c] \in Seq(F \X Nat) /\ IsInjective(empty[c]) /\ Range(empty[c]) = {}
  BY <1>7 DEF IsInjective, Range
<1> DEFINE list == AttachMethods(one, alone, empty)[c]
           T == F \X Nat
<1>11. /\ list \in Seq(T) /\ IsInjective(list)
       /\ \A fn : fn \in Range(list) <=> fn \in Range(fns) /\ c \in ClassOf(one, alone, fn)
  <2>1. empty[c] \in Seq(T) /\ fns \in Seq(T)
    BY <1>9, <1>10
  <2> HIDE DEF T
  <2>2. Places(one, alone, "funcs") \in Seq(T) /\ IsInjective(Places(one, alone, "funcs"))
    BY <1>8, <2>1 DEF fns
  <2> QED BY <1>7, <1>10, <2>1, <2>2, Attached DEF fns
<1> HIDE DEF list
<1>12. ASSUME NEW fn \in Range(list)
       PROVE  c \in ClassOf(one, alone, fn) /\ \E n \in DOMAIN Source(p)["funcs"] : fn = <<p, n>>
  <2>1. fn \in Range(fns) /\ c \in ClassOf(one, alone, fn)
    BY <1>11
  <2>2. PICK q \in Range(alone) : \E n \in DOMAIN one[q]["funcs"] : fn = <<q, n>>
    BY <1>8, <2>1, AllPlacesMembers
  <2> QED BY <1>2, <1>3, <2>1, <2>2
<1>13. list = BuiltMethods(one, p)[c]
  BY <1>1 DEF list
<1> QED BY <1>11, <1>12, <1>13 DEF one, alone

LEMMA ParseFileLists == TypeInv /\ ListsInv /\ ParseFile => ListsInv'
<1> SUFFICES ASSUME TypeInv, ListsInv, ParseFile PROVE ListsInv'
  OBVIOUS
<1> DEFINE p == Head(unread)
<1>1. /\ phase = "parse" /\ phase' = "parse" /\ unread # <<>> /\ unread' = Tail(unread)
      /\ UNCHANGED <<fs, found, unmarked>>
  BY DEF ParseFile
<1>2. unread \in Seq(Range(found)) /\ parsed \in Seq(Range(found))
  BY DEF TypeInv, FilesInv
<1>3. p \in Range(found) /\ p \in Range(unread) /\ Range(unread') \subseteq Range(unread)
  <2>1. Range(unread) \subseteq Range(found)
    BY <1>2, RangeOfSeq
  <2>2. Range(unread) = {p} \cup Range(Tail(unread))
    BY <1>1, <1>2, HeadTailRange
  <2> QED BY <1>1, <2>1, <2>2
<1>4. p \notin Range(unread') /\ IsInjective(unread')
  BY <1>1, <1>2, TakenOnce DEF ListsInv
<1>5. IsInjective(parsed) /\ p \notin Range(parsed) /\ Range(parsed) \cap Range(unread') = {}
  BY <1>3 DEF ListsInv
<1> HIDE DEF p
<1>6. \A q : Source(q)' = Source(q) /\ OneSource(q)' = OneSource(q)
  BY <1>1 DEF Source, OneSource
<1>7. \A c \in DOMAIN methods : /\ methods[c] \in Seq(Range(found) \X Nat) /\ IsInjective(methods[c])
                                /\ \A fn \in Range(methods[c]) : Rightly(c, fn)
  BY DEF ListsInv
<1>8. ASSUME Range(parsed) \subseteq Range(parsed'), NEW c, NEW fn, Rightly(c, fn)
      PROVE  Rightly(c, fn)'
  BY <1>1, <1>6, <1>8 DEF Rightly
<1>9. CASE parsed' = parsed /\ methods' = methods
  BY <1>1, <1>4, <1>5, <1>7, <1>8, <1>9 DEF ListsInv, BeforeParsing
<1>10. CASE /\ Parses(fs, p) /\ parsed' = Append(parsed, p)
            /\ methods' = LET built == BuiltMethods([q \in {p} |-> Source(q)], p)
                          IN  [c \in DOMAIN methods \cup DOMAIN built |->
                                IF c \in DOMAIN methods THEN methods[c] ELSE built[c]]
  <2> DEFINE built == BuiltMethods(OneSource(p), p)
  <2>1. methods' = [c \in DOMAIN methods \cup DOMAIN built |->
                       IF c \in DOMAIN methods THEN methods[c] ELSE built[c]]
    BY <1>10 DEF OneSource
  <2>2. Range(parsed') = Range(parsed) \cup {p} /\ IsInjective(parsed')
    BY <1>2, <1>3, <1>5, <1>10, AppendRange, AppendedOnce
  <2>3. Range(parsed') \cap Range(unread') = {}
    BY <1>4, <1>5, <2>2
  <2>4. IsSequence(Source(p)["funcs"]) /\ IsSequence(Source(p)["classes"])
    BY <1>10, ParsedLists
  <2>5. \A c \in DOMAIN built :
          /\ built[c] \in Seq(Range(found) \X Nat) /\ IsInjective(built[c])
          /\ \A fn \in Range(built[c]) : c \in ClassOf(OneSource(p), <<p>>, fn)
                     /\ \E n \in DOMAIN Source(p)["funcs"] : fn = <<p, n>>
    BY <1>3, <2>4, Built
  <2> HIDE DEF built
  <2>6. ASSUME NEW c \in DOMAIN methods'
        PROVE  /\ methods'[c] \in Seq(Range(found) \X Nat) /\ IsInjective(methods'[c])
               /\ \A fn \in Range(methods'[c]) : Rightly(c, fn)'
    <3>1. CASE c \in DOMAIN methods
      BY <1>7, <1>8, <2>1, <2>2, <3>1
    <3>2. CASE c \notin DOMAIN methods
      <4>1. c \in DOMAIN built /\ methods'[c] = built[c]
        BY <2>1, <2>6, <3>2
      <4>2. ASSUME NEW fn \in Range(built[c]) PROVE Rightly(c, fn)'
        <5>1. PICK n \in DOMAIN Source(p)["funcs"] : fn = <<p, n>>
          BY <2>5, <4>1
        <5>2. p \in Range(parsed') /\ c \in ClassOf(OneSource(p), <<p>>, fn)
          BY <2>2, <2>5, <4>1
        <5> QED BY <1>6, <5>1, <5>2 DEF Rightly
      <4> QED BY <2>5, <4>1, <4>2
    <3> QED BY <3>1, <3>2
  <2> QED BY <1>1, <1>4, <2>2, <2>3, <2>6 DEF ListsInv, BeforeParsing
<1> QED BY <1>9, <1>10 DEF ParseFile, p

LEMMA AnnotatePackageLists == TypeInv /\ FactsInv /\ ListsInv /\ AnnotatePackage => ListsInv'
<1> SUFFICES ASSUME TypeInv, FactsInv, ListsInv, AnnotatePackage PROVE ListsInv'
  OBVIOUS
<1>1. phase = "annotate" /\ UNCHANGED <<fs, phase, found, unread, parsed>>
  BY DEF AnnotatePackage
<1>2. PICK k \in unmarked : /\ unmarked' = unmarked \ {k}
                            /\ methods' = AttachMethods(Parsed, Group(k), methods)
  BY DEF AnnotatePackage
<1>3. DOMAIN methods' = DOMAIN methods
  BY <1>2 DEF AttachMethods
<1>4. /\ Parsed' = Parsed /\ \A j : Group(j)' = Group(j)
      /\ \A p : KeyOf(p)' = KeyOf(p) /\ Source(p)' = Source(p) /\ OneSource(p)' = OneSource(p)
  BY <1>1 DEF Parsed, Source, KeyOf, Group, OneSource
<1> DEFINE g == Group(k)
           fns == Places(Parsed, g, "funcs")
           T == Range(found) \X Nat
           F == Range(parsed)
<1>5. /\ g \in Seq(F) /\ Range(g) = {p \in Range(parsed) : KeyOf(p) = k} /\ IsInjective(g)
      /\ F \subseteq Range(found)
  BY GroupMembers, GroupInjective, RangeOfSeq DEF TypeInv, FilesInv, ListsInv
<1>6. \A q \in F : Parsed[q] = Source(q) /\ IsSequence(Parsed[q]["funcs"])
  BY ParsedLists DEF FactsInv, Parsed
<1>7. F \X Nat \subseteq T
  BY <1>5
<1>8. \A c \in DOMAIN methods : /\ methods[c] \in Seq(T) /\ IsInjective(methods[c])
                                /\ \A fn \in Range(methods[c]) : Rightly(c, fn)
  BY DEF ListsInv
<1> HIDE DEF T, F, g
<1>9. /\ fns \in Seq(F \X Nat) /\ IsInjective(fns)
      /\ Range(fns) = AllPlaces(Parsed, "funcs", Range(g))
  BY <1>5, <1>6, PlacesOf
<1>10. fns \in Seq(T)
  <2> HIDE DEF fns
  <2> QED BY <1>7, <1>9, SeqWider
<1>11. ASSUME NEW c \in DOMAIN methods
       PROVE  /\ methods'[c] \in Seq(T) /\ IsInjective(methods'[c])
              /\ \A fn : fn \in Range(methods'[c]) <=>
                    \/ fn \in Range(methods[c])
                    \/ fn \in Range(fns) /\ c \in ClassOf(Parsed, g, fn)
  <2>1. methods[c] \in Seq(T) /\ IsInjective(methods[c])
    BY <1>8
  <2>2. methods'[c] = AttachMethods(Parsed, g, methods)[c]
    BY <1>2 DEF g
  <2>3. Places(Parsed, g, "funcs") \in Seq(T) /\ IsInjective(Places(Parsed, g, "funcs"))
    BY <1>9, <1>10
  <2> QED BY <2>1, <2>2, <2>3, Attached
<1>12. \A fn : fn \in Range(fns) <=> \E p \in Range(g) : \E n \in DOMAIN Parsed[p]["funcs"] : fn = <<p, n>>
  BY <1>9, AllPlacesMembers
<1> HIDE DEF fns
<1>13. ASSUME NEW c, NEW fn, Rightly(c, fn) PROVE Rightly(c, fn)'
  BY <1>1, <1>4, <1>13 DEF Rightly
<1>14. ASSUME NEW c \in DOMAIN methods, NEW fn \in Range(methods'[c]) PROVE Rightly(c, fn)'
  <2>1. CASE fn \in Range(methods[c])
    BY <1>8, <1>13, <2>1
  <2>2. CASE fn \in Range(fns) /\ c \in ClassOf(Parsed, g, fn)
    <3>1. PICK p \in Range(g) : \E n \in DOMAIN Parsed[p]["funcs"] : fn = <<p, n>>
      BY <1>12, <2>2
    <3>2. p \in Range(parsed) /\ KeyOf(p) = k
      BY <1>5, <3>1
    <3>3. PICK n \in DOMAIN Source(p).funcs : fn = <<p, n>>
      BY <1>6, <3>1, <3>2 DEF F
    <3>4. phase # "parse" /\ c \in ClassOf(Parsed, Group(KeyOf(p)), fn)
      BY <1>1, <2>2, <3>2 DEF g
    <3>5. Rightly(c, fn)
      BY <3>2, <3>3, <3>4 DEF Rightly
    <3> QED BY <1>13, <3>5
  <2> QED BY <1>11, <2>1, <2>2
<1>15. ASSUME NEW p \in Range(parsed), KeyOf(p) \notin unmarked', NEW n \in DOMAIN Source(p).funcs,
              NEW c \in DOMAIN methods, c \in ClassOf(Parsed, Group(KeyOf(p)), <<p, n>>)
       PROVE  <<p, n>> \in Range(methods'[c])
  <2>1. CASE KeyOf(p) = k
    <3>1. p \in Range(g) /\ n \in DOMAIN Parsed[p]["funcs"]
      BY <1>5, <1>6, <2>1 DEF F
    <3>2. <<p, n>> \in Range(fns)
      BY <1>12, <3>1
    <3>3. c \in ClassOf(Parsed, g, <<p, n>>)
      BY <1>15, <2>1 DEF g
    <3> QED BY <1>11, <3>2, <3>3
  <2>2. CASE KeyOf(p) # k
    <3>1. KeyOf(p) \notin unmarked
      BY <1>2, <1>15, <2>2
    <3>2. <<p, n>> \in Range(methods[c])
      BY <1>1, <1>15, <3>1 DEF ListsInv
    <3> QED BY <1>11, <3>2
  <2> QED BY <2>1, <2>2
<1>16. T' = T
  BY <1>1 DEF T
<1>17. \A c \in DOMAIN methods' :
          /\ methods'[c] \in Seq(Range(found') \X Nat) /\ IsInjective(methods'[c])
          /\ \A fn \in Range(methods'[c]) : Rightly(c, fn)'
  BY <1>1, <1>3, <1>11, <1>14, <1>16 DEF T
<1>18. IsInjective(parsed') /\ IsInjective(unread') /\ Range(parsed') \cap Range(unread') = {}
  BY <1>1 DEF ListsInv
<1>19. phase' \notin BeforeParsing
  BY <1>1 DEF BeforeParsing
<1> QED BY <1>1, <1>3, <1>4, <1>15, <1>17, <1>18, <1>19 DEF ListsInv

LEMMA ListsStep == TypeInv /\ FactsInv /\ ListsInv /\ [Next \/ Exited]_vars => ListsInv'
<1> SUFFICES ASSUME TypeInv, FactsInv, ListsInv, Next \/ UNCHANGED vars PROVE ListsInv'
  BY DEF Exited
<1> USE DEF BeforeParsing, Return, runVars, commandVars, optionVars
<1>1. CASE ReadCommand
  BY <1>1, ListsEmpty DEF ReadCommand, ReadArguments, Start, EndOptions, Switch, TakeValue,
                          RejectOption, Positional, Reading
<1>2. CASE SelectRenderer
  BY <1>2, ListsEmpty DEF SelectRenderer
<1>3. CASE LoadRuleSets
  BY <1>3, ListsEmpty DEF LoadRuleSets
<1>4. CASE Discover
  BY <1>4, ListsEmpty DEF Discover
<1>5. CASE SortSources
  BY <1>5, SortSourcesLists
<1>6. CASE ParseFile
  BY <1>6, ParseFileLists
<1>7. CASE GroupPackages
  <2>1. /\ UNCHANGED <<fs, found, unread, parsed, methods>> /\ unmarked' = Keys
        /\ phase = "parse" /\ phase' = "annotate"
    BY <1>7 DEF GroupPackages
  <2>2. /\ \A p : KeyOf(p)' = KeyOf(p) /\ Source(p)' = Source(p) /\ OneSource(p)' = OneSource(p)
    BY <2>1 DEF Source, KeyOf, OneSource
  <2>3. \A p \in Range(parsed') : KeyOf(p)' \in unmarked'
    BY <2>1, <2>2 DEF Keys
  <2>4. ASSUME NEW c, NEW fn, Rightly(c, fn) PROVE Rightly(c, fn)'
    BY <2>1, <2>2, <2>4 DEF Rightly
  <2> QED BY <2>1, <2>3, <2>4 DEF ListsInv
<1>8. CASE AnnotatePackage
  BY <1>8, AnnotatePackageLists
<1>9. CASE EndAnnotation
  BY <1>9, ListsSettled DEF EndAnnotation
<1>10. CASE AnalyzeFile
  BY <1>10, ListsSettled DEF AnalyzeFile
<1>11. CASE OpenReport
  BY <1>11, ListsSettled DEF OpenReport
<1>12. CASE WritePiece
  BY <1>12, ListsSettled DEF WritePiece
<1>13. CASE EndReport
  BY <1>13, ListsSettled DEF EndReport
<1>14. CASE UNCHANGED vars
  BY <1>14, ListsSettled DEF vars
<1> QED BY <1>1, <1>2, <1>3, <1>4, <1>5, <1>6, <1>7, <1>8, <1>9, <1>10, <1>11, <1>12, <1>13,
           <1>14 DEF Next

\* In a list that has nothing twice, what is there is there once.
LEMMA CountOnce ==
    ASSUME NEW s, IsInjective(s), NEW x
    PROVE  Cardinality({i \in DOMAIN s : s[i] = x}) = IF x \in Range(s) THEN 1 ELSE 0
<1> DEFINE spots(y) == {i \in DOMAIN s : s[i] = y}
<1>1. CASE x \in Range(s)
  <2>1. PICK i \in DOMAIN s : s[i] = x
    BY <1>1 DEF Range
  <2>2. spots(x) = {i}
    BY <2>1 DEF IsInjective
  <2> QED BY <1>1, <2>2, FS_Singleton
<1>2. CASE x \notin Range(s)
  <2>1. spots(x) = {}
    BY <1>2 DEF Range
  <2> QED BY <1>2, <2>1, FS_EmptySet
<1> QED BY <1>1, <1>2

LEMMA ListsAreExact == TypeInv /\ FactsInv /\ ListsInv /\ TypesOnce => MethodsOnce
<1> SUFFICES ASSUME TypeInv, FactsInv, ListsInv, TypesOnce, phase = "analyze",
                    NEW p \in Range(parsed), NEW n \in DOMAIN Source(p).funcs,
                    NEW c \in DOMAIN methods
             PROVE  Cardinality({i \in DOMAIN methods[c] : methods[c][i] = <<p, n>>})
                      = IF c \in ClassOf(Parsed, Group(KeyOf(p)), <<p, n>>) THEN 1 ELSE 0
  BY DEF MethodsOnce
<1>1. IsInjective(parsed) /\ IsInjective(methods[c])
  BY DEF ListsInv
<1>2. ASSUME c \in ClassOf(Parsed, Group(KeyOf(p)), <<p, n>>)
      PROVE  <<p, n>> \in Range(methods[c])
  <2>1. KeyOf(p) \notin unmarked
    BY DEF FactsInv
  <2> QED BY <1>2, <2>1 DEF ListsInv
<1>3. ASSUME <<p, n>> \in Range(methods[c])
      PROVE  c \in ClassOf(Parsed, Group(KeyOf(p)), <<p, n>>)
  <2>1. Rightly(c, <<p, n>>)
    BY <1>3 DEF ListsInv
  <2>2. PICK q \in Range(parsed) : \E m \in DOMAIN Source(q).funcs :
           /\ <<p, n>> = <<q, m>>
           /\ \/ c \in ClassOf(OneSource(q), <<q>>, <<p, n>>)
              \/ c \in ClassOf(Parsed, Group(KeyOf(q)), <<p, n>>)
    BY <2>1 DEF Rightly
  <2>3. p = q
    BY <2>2
  <2> QED BY <1>1, <2>2, <2>3, OwnClass
<1> QED BY <1>1, <1>2, <1>3, CountOnce

\* If the files of one package declare a type once, every method of a parsed file
\* is in the list of its class once when rules look at it, and in no other,
\* whichever of parser and runner attached it (attachPackageMethods).
THEOREM MethodsAttached == Spec /\ []TypesOnce => []MethodsOnce
<1>1. Init => FactsInv /\ ListsInv
  <2> SUFFICES ASSUME Init PROVE FactsInv /\ ListsInv
    OBVIOUS
  <2> USE DEF Init, CommandInit
  <2>1. FactsInv
    BY DEF FactsInv, Range
  <2>2. phase = "start" /\ methods = <<>> /\ DOMAIN <<>> = {} /\ parsed = <<>> /\ unread = <<>>
    OBVIOUS
  <2>3. IsInjective(<<>>) /\ Range(<<>>) = {}
    BY DEF IsInjective, Range
  <2>4. ListsInv
    BY <2>2, <2>3 DEF ListsInv
  <2> QED BY <2>1, <2>4
<1>2. TypesOnce /\ TypeInv /\ FactsInv /\ ListsInv => MethodsOnce
  BY ListsAreExact
<1> QED BY <1>1, <1>2, TypeStart, TypeStep, FactsStep, ListsStep, PTL DEF Spec
=============================================================================
