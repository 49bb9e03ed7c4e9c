------------------------ MODULE SummarySolver_proof ------------------------
(***************************************************************************)
(* Proofs about the worklist solver, for every set of files and whatever   *)
(* the walks of the bodies compute.                                        *)
(***************************************************************************)
EXTENDS SummarySolver, Induction_proof

-----------------------------------------------------------------------------
(* Facts about the operators of the specification. *)

\* With changes a function at one point and nowhere else.
LEMMA WithApply ==
    ASSUME NEW f, NEW x, NEW y
    PROVE  /\ DOMAIN With(f, x, y) = DOMAIN f \cup {x}
           /\ With(f, x, y)[x] = y
           /\ \A z \in DOMAIN f : z # x => With(f, x, y)[z] = f[z]
BY DEF With

\* Pushing a frame adds its key.
LEMMA KeysPush ==
    ASSUME NEW S, NEW s \in Seq(S), NEW e \in S
    PROVE  Keys(Append(s, e)) = Keys(s) \cup {e.key}
<1>1. DOMAIN Append(s, e) = DOMAIN s \cup {Len(s) + 1}
  OBVIOUS
<1>2. Append(s, e)[Len(s) + 1] = e
  OBVIOUS
<1>3. \A i \in DOMAIN s : Append(s, e)[i] = s[i]
  OBVIOUS
<1> QED BY <1>1, <1>2, <1>3 DEF Keys

\* Popping a frame whose key is no other frame's removes its key.
LEMMA KeysPop ==
    ASSUME NEW S, NEW s \in Seq(S), s # <<>>,
           \A i, j \in DOMAIN s : i < j => s[i].key # s[j].key
    PROVE  Keys(SubSeq(s, 1, Len(s) - 1)) = Keys(s) \ {s[Len(s)].key}
<1> DEFINE below == SubSeq(s, 1, Len(s) - 1)
<1>1. Len(s) \in Nat \ {0} /\ DOMAIN s = 1 .. Len(s)
  OBVIOUS
<1>2. DOMAIN below = 1 .. Len(s) - 1
  BY <1>1
<1>3. \A i \in 1 .. Len(s) - 1 : below[i] = s[i]
  BY <1>1
<1>4. \A i \in 1 .. Len(s) - 1 : s[i].key # s[Len(s)].key
  BY <1>1
<1> HIDE DEF below
<1>5. Keys(below) = {s[i].key : i \in 1 .. Len(s) - 1}
  BY <1>2, <1>3 DEF Keys
<1>6. Keys(s) = {s[i].key : i \in 1 .. Len(s) - 1} \cup {s[Len(s)].key}
  <2>1. 1 .. Len(s) = (1 .. Len(s) - 1) \cup {Len(s)}
    BY <1>1
  <2> QED BY <1>1, <2>1 DEF Keys
<1>7. s[Len(s)].key \notin {s[i].key : i \in 1 .. Len(s) - 1}
  BY <1>4
<1>8. Keys(below) = Keys(s) \ {s[Len(s)].key}
  BY <1>5, <1>6, <1>7
<1> QED BY <1>8 DEF below

\* Taking the head of a worklist leaves the rest of its elements.
LEMMA ElementsTail ==
    ASSUME NEW S, NEW s \in Seq(S), s # <<>>
    PROVE  /\ Head(s) \in S
           /\ Tail(s) \in Seq(S)
           /\ Elements(s) = {Head(s)} \cup Elements(Tail(s))
<1>1. /\ Len(s) \in Nat \ {0}
      /\ DOMAIN s = 1 .. Len(s)
      /\ DOMAIN Tail(s) = 1 .. Len(s) - 1
      /\ Head(s) = s[1]
      /\ \A i \in 1 .. Len(s) - 1 : Tail(s)[i] = s[i + 1]
  OBVIOUS
<1>4. Elements(s) \subseteq {Head(s)} \cup Elements(Tail(s))
  <2> SUFFICES ASSUME NEW i \in 1 .. Len(s)
               PROVE  s[i] \in {Head(s)} \cup Elements(Tail(s))
    BY <1>1 DEF Elements
  <2>1. CASE i = 1
    BY <2>1, <1>1
  <2>2. CASE i # 1
    <3>1. i - 1 \in DOMAIN Tail(s) /\ s[i] = Tail(s)[i - 1]
      BY <2>2, <1>1
    <3> QED BY <3>1 DEF Elements
  <2> QED BY <2>1, <2>2
<1>5. {Head(s)} \cup Elements(Tail(s)) \subseteq Elements(s)
  BY <1>1 DEF Elements
<1> QED BY <1>4, <1>5

\* ... and where nothing is twice, the head is not among them.
LEMMA DistinctTail ==
    ASSUME NEW S, NEW s \in Seq(S), s # <<>>, NoRepeats(s)
    PROVE  /\ NoRepeats(Tail(s))
           /\ Head(s) \notin Elements(Tail(s))
<1>1. /\ Len(s) \in Nat \ {0}
      /\ DOMAIN s = 1 .. Len(s)
      /\ DOMAIN Tail(s) = 1 .. Len(s) - 1
      /\ Head(s) = s[1]
      /\ \A i \in 1 .. Len(s) - 1 : Tail(s)[i] = s[i + 1]
  OBVIOUS
<1>2. \A i, j \in 1 .. Len(s) : s[i] = s[j] => i = j
  BY <1>1 DEF NoRepeats
<1>3. \A i, j \in 1 .. Len(s) - 1 : s[i + 1] = s[j + 1] => i = j
  BY <1>1, <1>2
<1>4. \A i \in 1 .. Len(s) - 1 : s[i + 1] # s[1]
  BY <1>1, <1>2
<1> QED BY <1>1, <1>3, <1>4 DEF NoRepeats, Elements

\* Appending what is new, and nothing twice, leaves nothing twice.
LEMMA DistinctConcat ==
    ASSUME NEW S, NEW s \in Seq(S), NEW t \in Seq(S),
           NoRepeats(s), NoRepeats(t), Elements(s) \cap Elements(t) = {}
    PROVE  NoRepeats(s \o t)
<1>1. /\ Len(s) \in Nat /\ Len(t) \in Nat
      /\ DOMAIN s = 1 .. Len(s) /\ DOMAIN t = 1 .. Len(t)
      /\ DOMAIN (s \o t) = 1 .. Len(s) + Len(t)
  OBVIOUS
<1>2. \A i \in 1 .. Len(s) + Len(t) :
          (s \o t)[i] = IF i <= Len(s) THEN s[i] ELSE t[i - Len(s)]
  BY <1>1
<1>3. \A i \in 1 .. Len(s), j \in 1 .. Len(t) : s[i] # t[j]
  BY <1>1 DEF Elements
<1> SUFFICES ASSUME NEW i \in 1 .. Len(s) + Len(t), NEW j \in 1 .. Len(s) + Len(t),
                    (s \o t)[i] = (s \o t)[j]
             PROVE  i = j
  BY <1>1 DEF NoRepeats
<1>4. CASE i <= Len(s) /\ j <= Len(s)
  BY <1>4, <1>1, <1>2 DEF NoRepeats
<1>5. CASE i > Len(s) /\ j > Len(s)
  <2>1. i - Len(s) \in DOMAIN t /\ j - Len(s) \in DOMAIN t
    BY <1>5, <1>1
  <2>2. t[i - Len(s)] = t[j - Len(s)]
    BY <1>5, <1>1, <1>2
  <2>3. i - Len(s) = j - Len(s)
    BY <2>1, <2>2 DEF NoRepeats
  <2> QED BY <2>3, <1>1
<1>6. CASE i <= Len(s) /\ j > Len(s)
  <2>1. i \in 1 .. Len(s) /\ j - Len(s) \in 1 .. Len(t)
    BY <1>6, <1>1
  <2> QED BY <2>1, <1>6, <1>1, <1>2, <1>3
<1>7. CASE i > Len(s) /\ j <= Len(s)
  <2>1. i - Len(s) \in 1 .. Len(t) /\ j \in 1 .. Len(s)
    BY <1>7, <1>1
  <2> QED BY <2>1, <1>7, <1>1, <1>2, <1>3
<1> QED BY <1>1, <1>4, <1>5, <1>6, <1>7

\* Appending to a worklist adds the elements appended.
LEMMA ElementsConcat ==
    ASSUME NEW S, NEW s \in Seq(S), NEW t \in Seq(S)
    PROVE  s \o t \in Seq(S) /\ Elements(s \o t) = Elements(s) \cup Elements(t)
<1>1. /\ Len(s) \in Nat /\ Len(t) \in Nat
      /\ DOMAIN s = 1 .. Len(s) /\ DOMAIN t = 1 .. Len(t)
      /\ s \o t \in Seq(S) /\ Len(s \o t) = Len(s) + Len(t)
      /\ DOMAIN (s \o t) = 1 .. Len(s) + Len(t)
  OBVIOUS
<1>2. \A i \in 1 .. Len(s) : (s \o t)[i] = s[i]
  BY <1>1
<1>3. \A i \in 1 .. Len(t) : (s \o t)[Len(s) + i] = t[i]
  BY <1>1
<1>4. \A i \in 1 .. Len(s) + Len(t) :
          (s \o t)[i] \in Elements(s) \cup Elements(t)
  <2> SUFFICES ASSUME NEW i \in 1 .. Len(s) + Len(t)
               PROVE  (s \o t)[i] \in Elements(s) \cup Elements(t)
    OBVIOUS
  <2>1. CASE i \in 1 .. Len(s)
    BY <2>1, <1>1, <1>2 DEF Elements
  <2>2. CASE i \notin 1 .. Len(s)
    <3>1. i - Len(s) \in 1 .. Len(t) /\ i = Len(s) + (i - Len(s))
      BY <2>2, <1>1
    <3>2. (s \o t)[i] = t[i - Len(s)]
      BY <3>1, <1>3
    <3> QED BY <3>1, <3>2, <1>1 DEF Elements
  <2> QED BY <2>1, <2>2
<1>5. Elements(s) \cup Elements(t) \subseteq Elements(s \o t)
  <2>1. \A i \in 1 .. Len(s) : i \in DOMAIN (s \o t)
    BY <1>1
  <2>2. \A i \in 1 .. Len(t) : Len(s) + i \in DOMAIN (s \o t)
    BY <1>1
  <2>3. Elements(s) \subseteq Elements(s \o t)
    BY <1>1, <1>2, <2>1 DEF Elements
  <2>4. Elements(t) \subseteq Elements(s \o t)
    BY <1>1, <1>3, <2>2 DEF Elements
  <2> QED BY <2>3, <2>4
<1> QED BY <1>1, <1>4, <1>5 DEF Elements

\* An order of a finite set is a sequence of exactly its elements, each once:
\* no sequence that short could hold them all otherwise.
LEMMA OrdersElements ==
    ASSUME NEW S, IsFiniteSet(S), NEW s \in Orders(S)
    PROVE  s \in Seq(S) /\ Elements(s) = S /\ NoRepeats(s)
<1>1. Cardinality(S) \in Nat
  BY FS_CardinalityType
<1>2. s \in [1 .. Cardinality(S) -> S] /\ \A x \in S : \E i \in DOMAIN s : s[i] = x
  BY DEF Orders
<1>3. s \in Seq(S)
  BY <1>1, <1>2
<1>4. s \in Surjection(1 .. Cardinality(S), S)
  BY <1>2 DEF Surjection
<1>5. /\ IsFiniteSet(1 .. Cardinality(S))
      /\ Cardinality(1 .. Cardinality(S)) = Cardinality(S)
  BY <1>1, FS_Interval
<1>6. s \in Injection(1 .. Cardinality(S), S)
  BY <1>4, <1>5, FS_SurjSameCardinalityImpliesInj
<1>7. NoRepeats(s)
  BY <1>2, <1>6 DEF Injection, IsInjective, NoRepeats
<1> QED BY <1>2, <1>3, <1>7 DEF Elements

\* A sequence over a set is a sequence over any larger set.
LEMMA SeqMono ==
    ASSUME NEW S, NEW T, S \subseteq T, NEW s \in Seq(S)
    PROVE  s \in Seq(T)
OBVIOUS

-----------------------------------------------------------------------------
(* What the parts shared by several actions do to the cache. *)

Frame == [key : known, wide : BOOLEAN, recursive : BOOLEAN]

\* The top of a nonempty stack is being computed.
LEMMA TopComputing ==
    ASSUME TypeOK, stack # <<>>
    PROVE  /\ Len(stack) \in Nat \ {0}
           /\ DOMAIN stack = 1 .. Len(stack)
           /\ Len(stack) \in DOMAIN stack
           /\ Top \in Computing
           /\ Top \in known
           /\ stack[Len(stack)] \in Frame
<1>1. stack \in Seq(Frame)
  BY DEF TypeOK, Frame
<1>2. Len(stack) \in Nat \ {0} /\ DOMAIN stack = 1 .. Len(stack)
  BY <1>1
<1>3. Len(stack) \in DOMAIN stack /\ stack[Len(stack)] \in Frame
  BY <1>1, <1>2
<1> QED BY <1>2, <1>3 DEF Top, Computing, Keys, Frame

\* Entering a walk pushes its frame, empties its reads and touches no others.
LEMMA EnterFacts ==
    ASSUME TypeOK, NEW k, NEW wide \in BOOLEAN, NEW recursive \in BOOLEAN,
           Enter(k, wide, recursive)
    PROVE  /\ known' = known \cup {k}
           /\ IsFiniteSet(known')
           /\ stack' \in Seq(Frame')
           /\ Len(stack') = Len(stack) + 1
           /\ DOMAIN stack' = DOMAIN stack \cup {Len(stack) + 1}
           /\ stack'[Len(stack) + 1].key = k
           /\ \A i \in DOMAIN stack : stack'[i] = stack[i]
           /\ Computing' = Computing \cup {k}
           /\ Computing' \subseteq DOMAIN flow'
           /\ DOMAIN reads' = known'
           /\ reads'[k] = {}
           /\ \A z \in known : z # k => reads'[z] = reads[z]
<1> DEFINE f == [key |-> k, wide |-> wide, recursive |-> recursive]
<1>1. known' = known \cup {k} /\ stack' = Append(stack, f)
  BY DEF Enter
<1>2. IsFiniteSet(known')
  BY <1>1, FS_AddElement DEF TypeOK
<1>3. stack \in Seq(Frame') /\ f \in Frame'
  <2>1. Frame \subseteq Frame'
    BY <1>1 DEF Frame
  <2>2. stack \in Seq(Frame)
    BY DEF TypeOK, Frame
  <2>3. stack \in Seq(Frame')
    BY <2>1, <2>2, SeqMono
  <2>4. f \in Frame'
    BY <1>1 DEF Frame
  <2> QED BY <2>3, <2>4
<1>4. /\ stack' \in Seq(Frame')
      /\ Len(stack') = Len(stack) + 1
      /\ DOMAIN stack' = DOMAIN stack \cup {Len(stack) + 1}
      /\ stack'[Len(stack) + 1] = f
      /\ \A i \in DOMAIN stack : stack'[i] = stack[i]
  <2> HIDE DEF f
  <2> QED BY <1>1, <1>3
<1>5. Computing' = Computing \cup {k}
  <2>1. Keys(Append(stack, f)) = Keys(stack) \cup {f.key}
    <3> HIDE DEF f
    <3> QED BY <1>3, KeysPush
  <2> QED BY <1>1, <2>1 DEF Computing
<1>6. flow' = With(flow, k, Start(k)) /\ reads' = With(reads, k, {})
  BY DEF Enter
<1>7. DOMAIN flow' = DOMAIN flow \cup {k}
  BY <1>6, WithApply
<1>8. /\ DOMAIN reads' = DOMAIN reads \cup {k}
      /\ reads'[k] = {}
      /\ \A z \in DOMAIN reads : z # k => reads'[z] = reads[z]
  BY <1>6 DEF With
<1> QED BY <1>1, <1>2, <1>4, <1>5, <1>7, <1>8 DEF TypeOK

\* ... and on an empty stack it is the only one.
LEMMA EnterFirst ==
    ASSUME TypeOK, stack = <<>>, NEW k, Enter(k, FALSE, FALSE)
    PROVE  /\ known' = known \cup {k} /\ IsFiniteSet(known')
           /\ stack' \in Seq(Frame') /\ Len(stack') = 1 /\ DOMAIN stack' = {1}
           /\ Computing' = {k} /\ Computing' \subseteq DOMAIN flow'
           /\ DOMAIN reads' = known' /\ reads'[k] = {}
           /\ \A z \in known : z # k => reads'[z] = reads[z]
<1>1. PICK wide \in BOOLEAN, recursive \in BOOLEAN : Enter(k, wide, recursive)
  OBVIOUS
<1>2. Len(stack) = 0 /\ DOMAIN stack = {} /\ Computing = {}
  BY DEF Computing, Keys
<1>3. /\ Len(stack') = Len(stack) + 1
      /\ DOMAIN stack' = DOMAIN stack \cup {Len(stack) + 1}
      /\ Computing' = Computing \cup {k}
  BY <1>1, EnterFacts
<1>4. Len(stack') = 1 /\ DOMAIN stack' = {1} /\ Computing' = {k}
  BY <1>2, <1>3
<1> QED BY <1>1, <1>4, EnterFacts

\* Handing a summary to a walk adds to what that walk has read.
LEMMA ContinueFacts ==
    ASSUME TypeOK, NEW k \in known, NEW c, NEW v, NEW prov, NEW wide, NEW recursive,
           Continue(k, c, v, prov, wide, recursive)
    PROVE  /\ DOMAIN flow' = DOMAIN flow \cup {k}
           /\ DOMAIN reads' = known
           /\ reads'[k] = reads[k] \cup {Read(c, v, prov)}
           /\ \A z \in known : z # k => reads'[z] = reads[z]
<1>1. /\ DOMAIN flow' = DOMAIN flow \cup {k}
      /\ reads' = With(reads, k, reads[k] \cup {Read(c, v, prov)})
  BY WithApply DEF Continue
<1>2. DOMAIN reads = known
  BY DEF TypeOK
<1> QED BY <1>1, <1>2, WithApply

\* Ending a walk pops its frame, gives its key a value, queues at least the
\* callers that are not computed when the value is a new one, and may extend
\* the reads of the walk below by a true one.
LEMMA FinishFacts ==
    ASSUME TypeOK, NeverReentered, Finish
    PROVE  /\ stack # <<>>
           /\ stack' = SubSeq(stack, 1, Len(stack) - 1)
           /\ stack' \in Seq(Frame)
           /\ DOMAIN stack' = 1 .. Len(stack) - 1
           /\ \A i \in DOMAIN stack' : stack'[i] = stack[i]
           /\ Computing' = Computing \ {Top}
           /\ Initialized' = Initialized \cup {Top}
           /\ value'[Top] = Outcome(flow[Top])
           /\ \A z \in Initialized : z # Top => value'[z] = value[z]
           /\ Computing' \subseteq DOMAIN flow'
           /\ DOMAIN reads' = known
           /\ stack' = <<>> => reads' = reads
           /\ stack' # <<>> =>
                 LET k == stack'[Len(stack')].key
                 IN  /\ k \in known
                     /\ reads'[k] = reads[k] \cup {Read(Top, value'[Top], FALSE)}
                     /\ \A z \in known : z # k => reads'[z] = reads[z]
           /\ pending' \in Seq(Initialized')
           /\ Elements(pending) \subseteq Elements(pending')
           /\ Elements(pending') \subseteq Elements(pending) \cup Woken(Top)
           /\ queued' \subseteq queued \cup Woken(Top)
           /\ QueueExact => QueueExact'
           /\ ~ (Top \in Initialized /\ value[Top] = value'[Top]) =>
                 \A c \in known : <<c, Top>> \in links /\ c \notin Computing'
                                  => c \in queued'
<1> DEFINE k == Top
           below == SubSeq(stack, 1, Len(stack) - 1)
           v == Outcome(flow[k])
           changed == k \notin Initialized \/ value[k] # v
           wake == IF changed THEN Woken(k) ELSE {}
<1>1. /\ stack # <<>>
      /\ value' = With(value, k, v)
      /\ stack' = below
      /\ \E order \in Orders(wake) : pending' = pending \o order
      /\ queued' = queued \cup wake
      /\ IF below = <<>>
           THEN flow' = NoSummary /\ UNCHANGED reads
           ELSE Continue(below[Len(below)].key, k, v, FALSE,
                         stack[Len(stack)].wide, stack[Len(stack)].recursive)
      /\ UNCHANGED <<known, links>>
  BY DEF Finish, Changes
<1>2. /\ Len(stack) \in Nat \ {0} /\ DOMAIN stack = 1 .. Len(stack)
      /\ k \in Computing /\ k \in known /\ stack \in Seq(Frame)
  BY <1>1, TopComputing DEF TypeOK, Frame
<1>3. /\ below \in Seq(Frame)
      /\ Len(below) = Len(stack) - 1
      /\ DOMAIN below = 1 .. Len(stack) - 1
      /\ \A i \in DOMAIN below : below[i] = stack[i]
  BY <1>2
<1>4. Computing' = Computing \ {k}
  <2>1. \A i, j \in DOMAIN stack : i < j => stack[i].key # stack[j].key
    BY DEF NeverReentered
  <2>2. Keys(below) = Keys(stack) \ {stack[Len(stack)].key}
    BY <1>1, <1>2, <2>1, KeysPop
  <2> QED BY <1>1, <2>2 DEF Computing, Top
<1>5. /\ Initialized' = Initialized \cup {k}
      /\ value'[k] = v
      /\ \A z \in Initialized : z # k => value'[z] = value[z]
  BY <1>1 DEF With, Initialized
<1>6. /\ Computing' \subseteq DOMAIN flow'
      /\ DOMAIN reads' = known
      /\ below = <<>> => reads' = reads
      /\ below # <<>> =>
            /\ below[Len(below)].key \in known
            /\ reads'[below[Len(below)].key] =
                  reads[below[Len(below)].key] \cup {Read(k, v, FALSE)}
            /\ \A z \in known : z # below[Len(below)].key => reads'[z] = reads[z]
  <2>1. CASE below = <<>>
    <3>1. Computing' = {}
      BY <1>1, <2>1, <1>3 DEF Computing, Keys
    <3> QED BY <1>1, <2>1, <3>1 DEF TypeOK
  <2>2. CASE below # <<>>
    <3>1. Len(below) \in DOMAIN below /\ below[Len(below)] \in Frame
      BY <2>2, <1>2, <1>3
    <3>2. below[Len(below)].key \in known
      BY <3>1 DEF Frame
    <3>3. /\ DOMAIN flow' = DOMAIN flow \cup {below[Len(below)].key}
          /\ DOMAIN reads' = known
          /\ reads'[below[Len(below)].key] =
                reads[below[Len(below)].key] \cup {Read(k, v, FALSE)}
          /\ \A z \in known : z # below[Len(below)].key => reads'[z] = reads[z]
      <4> HIDE DEF k, v, below
      <4> QED BY <1>1, <2>2, <3>2, ContinueFacts
    <3> QED BY <2>2, <3>2, <3>3, <1>4 DEF TypeOK
  <2> QED BY <2>1, <2>2
<1>7. IsFiniteSet(wake) /\ wake \subseteq Woken(k) /\ wake \subseteq Initialized'
  <2>1. Woken(k) \subseteq known /\ IsFiniteSet(known)
    BY DEF Woken, TypeOK
  <2>2. IsFiniteSet(Woken(k))
    BY <2>1, FS_Subset
  <2>3. Woken(k) \subseteq Initialized'
    BY <1>2, <1>5 DEF Woken, TypeOK
  <2> QED BY <2>2, <2>3, FS_EmptySet
<1>8. PICK order \in Orders(wake) : pending' = pending \o order
  BY <1>1
<1>9. order \in Seq(wake) /\ Elements(order) = wake /\ NoRepeats(order)
  <2> HIDE DEF wake
  <2> QED BY <1>7, OrdersElements
<1>10. /\ pending' \in Seq(Initialized')
       /\ Elements(pending') = Elements(pending) \cup wake
  <2>1. pending \in Seq(Initialized') /\ order \in Seq(Initialized')
    <3> HIDE DEF wake
    <3>1. pending \in Seq(Initialized) /\ Initialized \subseteq Initialized'
      BY <1>5 DEF TypeOK
    <3> QED BY <3>1, <1>7, <1>9, SeqMono
  <2> HIDE DEF wake
  <2> QED BY <2>1, <1>8, <1>9, ElementsConcat
<1>11. QueueExact => QueueExact'
  <2> HIDE DEF wake
  <2> SUFFICES ASSUME QueueExact PROVE QueueExact'
    OBVIOUS
  <2>1. queued' = Elements(pending')
    BY <1>1, <1>10 DEF QueueExact
  <2>2. wake \cap queued = {}
    BY <1>7 DEF Woken
  <2>3. pending \in Seq(Initialized') /\ order \in Seq(Initialized')
    <3>1. pending \in Seq(Initialized) /\ Initialized \subseteq Initialized'
      BY <1>5 DEF TypeOK
    <3> QED BY <3>1, <1>7, <1>9, SeqMono
  <2>4. NoRepeats(pending \o order)
    <3>1. Elements(pending) \cap Elements(order) = {} /\ NoRepeats(pending)
      BY <2>2, <1>9 DEF QueueExact
    <3> QED BY <2>3, <3>1, <1>9, DistinctConcat
  <2> QED BY <2>1, <2>4, <1>8 DEF QueueExact
<1>12. changed => \A c \in known : <<c, k>> \in links /\ c \notin Computing'
                                    => c \in queued'
  BY <1>1, <1>4 DEF Woken
<1> QED BY <1>1, <1>3, <1>4, <1>5, <1>6, <1>7, <1>10, <1>11, <1>12

-----------------------------------------------------------------------------
(* The inductive invariant is preserved by every action. *)

\* An empty cache satisfies the invariant.
LEMMA InitInv == Init => SolverInv
<1> SUFFICES ASSUME Init PROVE SolverInv
  OBVIOUS
<1>1. /\ known = {} /\ stack = <<>> /\ pending = <<>> /\ queued = {} /\ links = {}
      /\ request = NoKey /\ settled = {} /\ file \in File
      /\ DOMAIN value = {} /\ DOMAIN reads = {}
  BY DEF Init, NoSummary
<1>2. Computing = {} /\ Initialized = {} /\ DOMAIN stack = {}
  BY <1>1 DEF Computing, Keys, Initialized
<1>3. IsFiniteSet({})
  BY FS_EmptySet
<1>4. Elements(<<>>) = {} /\ NoRepeats(<<>>)
  BY DEF Elements, NoRepeats
<1> QED BY <1>1, <1>2, <1>3, <1>4 DEF SolverInv, TypeOK, NeverReentered, StackLinked,
             ReadsLinked, InFlight, QueueExact, FreshReads, Idle

\* Forgetting everything is as good as beginning.
LEMMA OpenFileInv ==
    ASSUME SolverInv, NEW f \in File, OpenFile(f)
    PROVE  SolverInv'
<1>1. /\ known' = {} /\ stack' = <<>> /\ pending' = <<>> /\ queued' = {}
      /\ links' = {} /\ request' = NoKey /\ settled' = {} /\ file' \in File
      /\ DOMAIN value' = {} /\ DOMAIN reads' = {}
  BY DEF OpenFile, NoSummary, Idle
<1>2. Computing' = {} /\ Initialized' = {} /\ DOMAIN stack' = {}
  BY <1>1 DEF Computing, Keys, Initialized
<1>3. IsFiniteSet({})
  BY FS_EmptySet
<1>4. Elements(<<>>) = {} /\ NoRepeats(<<>>)
  BY DEF Elements, NoRepeats
<1> QED BY <1>1, <1>2, <1>3, <1>4 DEF SolverInv, TypeOK, NeverReentered, StackLinked,
             ReadsLinked, InFlight, QueueExact, FreshReads, Idle

\* A request finds a summary or enters the first walk.
LEMMA RequestInv ==
    ASSUME SolverInv, NEW k \in Root(file), RequestSummary(k)
    PROVE  SolverInv'
<1>1. /\ TypeOK /\ stack = <<>> /\ pending = <<>> /\ file \in File
      /\ Computing = {} /\ DOMAIN stack = {} /\ Len(stack) = 0
  BY DEF SolverInv, TypeOK, RequestSummary, Computing, Keys
<1>2. k # NoKey
  BY <1>1, NoKeyAssumption
<1>3. /\ request' = k
      /\ UNCHANGED <<file, value, links, pending, queued, settled>>
      /\ Initialized' = Initialized
  BY DEF RequestSummary, Initialized
<1>4. CASE k \in Initialized
  <2>1. UNCHANGED <<stack, flow, reads, known>> /\ Computing' = Computing
    BY <1>4 DEF RequestSummary, Computing
  <2>2. TypeOK'
    BY <1>1, <1>2, <1>3, <1>4, <2>1 DEF TypeOK, Idle
  <2> QED BY <1>3, <2>1, <2>2 DEF SolverInv, NeverReentered, StackLinked,
             ReadsLinked, InFlight, QueueExact, FreshReads, Fresh
<1>5. CASE k \notin Initialized
  <2>1. Enter(k, FALSE, FALSE)
    BY <1>5 DEF RequestSummary
  <2>2. /\ known' = known \cup {k} /\ IsFiniteSet(known')
        /\ stack' \in Seq(Frame') /\ Len(stack') = 1 /\ DOMAIN stack' = {1}
        /\ Computing' = {k} /\ Computing' \subseteq DOMAIN flow'
        /\ DOMAIN reads' = known' /\ reads'[k] = {}
        /\ \A z \in known : z # k => reads'[z] = reads[z]
    BY <1>1, <2>1, EnterFirst
  <2>3. TypeOK'
    BY <1>1, <1>2, <1>3, <2>2 DEF TypeOK, Frame, Idle
  <2>4. NeverReentered' /\ StackLinked'
    BY <2>2 DEF NeverReentered, StackLinked
  <2>5. ReadsLinked'
    BY <1>3, <2>2 DEF SolverInv, ReadsLinked
  <2>6. InFlight'
    BY <2>2 DEF InFlight
  <2>7. QueueExact'
    BY <1>3 DEF SolverInv, QueueExact
  <2>8. FreshReads'
    <3> SUFFICES ASSUME NEW c \in Initialized, c \notin Elements(pending)
                 PROVE  Fresh(c)'
      BY <1>3 DEF FreshReads
    <3>1. c \in known /\ c # k
      BY <1>1, <1>5 DEF TypeOK
    <3>2. Fresh(c)
      BY <1>1 DEF SolverInv, FreshReads
    <3> QED BY <1>3, <2>2, <3>1, <3>2 DEF Fresh
  <2> QED BY <2>3, <2>4, <2>5, <2>6, <2>7, <2>8 DEF SolverInv
<1> QED BY <1>4, <1>5

\* A statement that is no call touches only the flow of its walk.
LEMMA WalkInv ==
    ASSUME SolverInv, WalkStatement
    PROVE  SolverInv'
<1>1. /\ UNCHANGED <<file, known, value, stack, links, pending, queued, request,
                     reads, settled>>
      /\ flow' = With(flow, Top, Advance(flow[Top]))
  BY DEF WalkStatement
<1>2. DOMAIN flow \subseteq DOMAIN flow'
  BY <1>1 DEF With
<1>3. Computing' = Computing /\ Initialized' = Initialized
  BY <1>1 DEF Computing, Initialized
<1>4. TypeOK'
  BY <1>1, <1>2, <1>3 DEF SolverInv, TypeOK, Idle
<1> QED BY <1>1, <1>3, <1>4 DEF SolverInv, NeverReentered, StackLinked,
           ReadsLinked, InFlight, QueueExact, FreshReads, Fresh

\* What is taken off the worklist becomes the outermost walk.
LEMMA SolveInv ==
    ASSUME SolverInv, Solve
    PROVE  SolverInv'
<1> DEFINE k == Head(pending)
<1>1. /\ TypeOK /\ stack = <<>> /\ pending # <<>> /\ ~ Idle
      /\ Computing = {} /\ DOMAIN stack = {} /\ Len(stack) = 0
  BY DEF SolverInv, Solve, Computing, Keys
<1>2. /\ k \in Initialized
      /\ Tail(pending) \in Seq(Initialized)
      /\ Elements(pending) = {k} \cup Elements(Tail(pending))
  BY <1>1, ElementsTail DEF TypeOK
<1>3. /\ pending' = Tail(pending) /\ queued' = queued \ {k}
      /\ UNCHANGED <<file, value, links, request, settled>>
      /\ Initialized' = Initialized /\ Enter(k, FALSE, FALSE)
  BY DEF Solve, Initialized
<1>4. /\ known' = known \cup {k} /\ IsFiniteSet(known')
      /\ stack' \in Seq(Frame') /\ Len(stack') = 1 /\ DOMAIN stack' = {1}
      /\ Computing' = {k} /\ Computing' \subseteq DOMAIN flow'
      /\ DOMAIN reads' = known' /\ reads'[k] = {}
      /\ \A z \in known : z # k => reads'[z] = reads[z]
  <2> HIDE DEF k
  <2> QED BY <1>1, <1>3, EnterFirst
<1> HIDE DEF k
<1>5. TypeOK'
  BY <1>1, <1>2, <1>3, <1>4 DEF TypeOK, Frame, Idle
<1>6. NeverReentered' /\ StackLinked' /\ InFlight'
  BY <1>4 DEF NeverReentered, StackLinked, InFlight
<1>7. ReadsLinked'
  BY <1>3, <1>4 DEF SolverInv, ReadsLinked
<1>8. QueueExact'
  <2>1. NoRepeats(Tail(pending)) /\ k \notin Elements(Tail(pending))
    BY <1>1, DistinctTail DEF SolverInv, QueueExact, TypeOK, k
  <2> QED BY <1>2, <1>3, <2>1 DEF SolverInv, QueueExact
<1>9. FreshReads'
  <2> SUFFICES ASSUME NEW c \in Initialized, c # k, c \notin Elements(Tail(pending))
               PROVE  Fresh(c)'
    BY <1>3, <1>4 DEF FreshReads
  <2>1. c \in known /\ Fresh(c)
    BY <1>1, <1>2 DEF SolverInv, FreshReads, TypeOK
  <2> QED BY <1>3, <1>4, <2>1 DEF Fresh
<1> QED BY <1>5, <1>6, <1>7, <1>8, <1>9 DEF SolverInv

\* Answering leaves the cache as it is.
LEMMA AnswerInv ==
    ASSUME SolverInv, Answer
    PROVE  SolverInv'
<1>1. /\ UNCHANGED <<file, known, value, stack, flow, links, pending, queued, reads>>
      /\ request' = NoKey /\ settled' = Initialized
      /\ stack = <<>> /\ pending = <<>>
  BY DEF Answer
<1>2. Computing' = Computing /\ Initialized' = Initialized
  BY <1>1 DEF Computing, Initialized
<1>3. TypeOK'
  BY <1>1, <1>2 DEF SolverInv, TypeOK, Idle
<1> QED BY <1>1, <1>2, <1>3 DEF SolverInv, NeverReentered, StackLinked,
           ReadsLinked, InFlight, QueueExact, FreshReads, Fresh

\* What a call leaves alone, and the callee it links and then uses or enters.
LEMMA CallFacts ==
    ASSUME Call
    PROVE  /\ stack # <<>>
           /\ UNCHANGED <<file, value, pending, queued, request, settled>>
           /\ \E c, wide, recursive :
                 /\ wide \in BOOLEAN /\ recursive \in BOOLEAN
                 /\ links' = links \cup {<<Top, c>>}
                 /\ \/ UseProvisional(c, wide)
                    \/ UseSummary(c, wide, recursive)
                    \/ c \notin Initialized \cup Computing /\ Enter(c, wide, recursive)
<1> DEFINE w == BodyOf(Top) \in Reach(bodyCalls', Target(flow[Top]))
           c == EntryKey(flow[Top], w)
           r == Top \in Reach(links', c)
<1>1. /\ stack # <<>>
      /\ UNCHANGED <<file, value, pending, queued, request, settled>>
      /\ links' = links \cup {<<Top, c>>}
      /\ \/ UseProvisional(c, w)
         \/ UseSummary(c, w, r)
         \/ c \notin Initialized \cup Computing /\ Enter(c, w, r)
  BY DEF Call
<1>2. w \in BOOLEAN /\ r \in BOOLEAN
  OBVIOUS
<1> HIDE DEF w, c, r
<1> QED BY <1>1, <1>2

\* A call links its callee before it reads or enters it.
LEMMA CallInv ==
    ASSUME SolverInv, Call
    PROVE  SolverInv'
<1>1. /\ TypeOK /\ stack # <<>>
      /\ UNCHANGED <<file, value, pending, queued, request, settled>>
      /\ Initialized' = Initialized
  BY CallFacts DEF SolverInv, Initialized
<1>2. /\ Len(stack) \in Nat \ {0} /\ DOMAIN stack = 1 .. Len(stack)
      /\ Top = stack[Len(stack)].key /\ Top \in Computing /\ Top \in known
  BY <1>1, TopComputing DEF Top
<1>3. PICK c, wide, recursive :
        /\ wide \in BOOLEAN /\ recursive \in BOOLEAN
        /\ links' = links \cup {<<Top, c>>}
        /\ \/ UseProvisional(c, wide)
           \/ UseSummary(c, wide, recursive)
           \/ c \notin Initialized \cup Computing /\ Enter(c, wide, recursive)
  BY CallFacts
<1>4. ~ Idle
  BY <1>1 DEF TypeOK
<1>5. ASSUME NEW v, NEW prov \in BOOLEAN, NEW back,
             Continue(Top, c, v, prov, wide, back), UNCHANGED <<known, stack>>,
             c \in known,
             ~ prov => c \in Initialized \ Computing /\ v = value[c]
      PROVE  SolverInv'
  <2>1. /\ DOMAIN flow' = DOMAIN flow \cup {Top}
        /\ DOMAIN reads' = known
        /\ reads'[Top] = reads[Top] \cup {Read(c, v, prov)}
        /\ \A z \in known : z # Top => reads'[z] = reads[z]
    BY <1>1, <1>2, <1>5, ContinueFacts
  <2>2. Computing' = Computing
    BY <1>5 DEF Computing
  <2>3. TypeOK'
    BY <1>1, <1>2, <1>3, <1>4, <1>5, <2>1, <2>2 DEF TypeOK, Idle
  <2>4. NeverReentered' /\ StackLinked'
    BY <1>1, <1>3, <1>5 DEF SolverInv, NeverReentered, StackLinked
  <2>5. /\ Read(c, v, prov).callee = c
        /\ Read(c, v, prov).value = v
        /\ Read(c, v, prov).provisional = prov
    BY DEF Read
  <2>6. ReadsLinked'
    BY <1>3, <1>5, <2>1, <2>5 DEF SolverInv, ReadsLinked
  <2>7. InFlight'
    <3> SUFFICES ASSUME NEW k \in Computing, NEW r \in reads'[k], ~ r.provisional
                 PROVE  r.callee \in Initialized \ Computing /\ value[r.callee] = r.value
      BY <1>1, <2>2 DEF InFlight
    <3>1. k \in known
      BY <1>1 DEF TypeOK
    <3>2. CASE r \in reads[k]
      BY <3>2 DEF SolverInv, InFlight
    <3>3. CASE r \notin reads[k]
      BY <3>1, <3>3, <2>1, <2>5, <1>5
    <3> QED BY <3>2, <3>3
  <2>8. QueueExact'
    BY <1>1 DEF SolverInv, QueueExact
  <2>9. FreshReads'
    <3> SUFFICES ASSUME NEW k \in Initialized, k \notin Computing,
                        k \notin Elements(pending)
                 PROVE  Fresh(k)'
      BY <1>1, <2>2 DEF FreshReads
    <3>1. k \in known /\ k # Top /\ Fresh(k)
      BY <1>1, <1>2 DEF SolverInv, FreshReads, TypeOK
    <3> QED BY <1>1, <2>1, <3>1 DEF Fresh
  <2> QED BY <2>3, <2>4, <2>6, <2>7, <2>8, <2>9 DEF SolverInv
<1>6. CASE UseProvisional(c, wide)
  <2>1. /\ Continue(Top, c, Provisional(c), TRUE, wide, TRUE)
        /\ UNCHANGED <<known, stack>> /\ c \in known
    BY <1>1, <1>6 DEF UseProvisional, TypeOK
  <2>2. PICK prov \in BOOLEAN : prov /\ Continue(Top, c, Provisional(c), prov, wide, TRUE)
    BY <2>1
  <2> QED BY <2>1, <2>2, <1>5
<1>7. CASE UseSummary(c, wide, recursive)
  <2>1. /\ Continue(Top, c, value[c], FALSE, wide, recursive)
        /\ UNCHANGED <<known, stack>> /\ c \in Initialized \ Computing /\ c \in known
    BY <1>1, <1>7 DEF UseSummary, TypeOK
  <2>2. PICK prov \in BOOLEAN : Continue(Top, c, value[c], prov, wide, recursive)
    BY <2>1
  <2> QED BY <2>1, <2>2, <1>5
<1>8. CASE c \notin Initialized \cup Computing /\ Enter(c, wide, recursive)
  <2>1. /\ known' = known \cup {c}
        /\ IsFiniteSet(known')
        /\ stack' \in Seq(Frame')
        /\ Len(stack') = Len(stack) + 1
        /\ DOMAIN stack' = DOMAIN stack \cup {Len(stack) + 1}
        /\ stack'[Len(stack) + 1].key = c
        /\ \A i \in DOMAIN stack : stack'[i] = stack[i]
        /\ Computing' = Computing \cup {c}
        /\ Computing' \subseteq DOMAIN flow'
        /\ DOMAIN reads' = known'
        /\ reads'[c] = {}
        /\ \A z \in known : z # c => reads'[z] = reads[z]
    <3>1. TypeOK /\ wide \in BOOLEAN /\ recursive \in BOOLEAN
      BY <1>1, <1>3
    <3>2. Enter(c, wide, recursive)
      BY <1>8
    <3> QED BY ONLY <3>1, <3>2, EnterFacts, ZenonT(60)
  <2>2. c \notin known
    BY <1>1, <1>8 DEF TypeOK
  <2>3. TypeOK'
    BY <1>1, <1>2, <1>3, <1>4, <2>1 DEF TypeOK, Frame, Idle
  <2>4. NeverReentered'
    <3> SUFFICES ASSUME NEW i \in DOMAIN stack', NEW j \in DOMAIN stack', i < j
                 PROVE  stack'[i].key # stack'[j].key /\ stack'[j].key \notin Initialized
      BY <1>1 DEF NeverReentered
    <3>1. i \in DOMAIN stack
      BY <1>2, <2>1
    <3>2. CASE j \in DOMAIN stack
      BY <3>1, <3>2, <2>1 DEF SolverInv, NeverReentered
    <3>3. CASE j = Len(stack) + 1
      <4>1. stack[i].key \in Computing
        BY <3>1 DEF Computing, Keys
      <4> QED BY <3>1, <3>3, <4>1, <2>1, <1>8
    <3> QED BY <3>2, <3>3, <2>1
  <2>5. StackLinked'
    <3> SUFFICES ASSUME NEW i \in DOMAIN stack', i > 1
                 PROVE  <<stack'[i - 1].key, stack'[i].key>> \in links'
      BY DEF StackLinked
    <3>1. i - 1 \in DOMAIN stack
      BY <1>2, <2>1
    <3>2. CASE i \in DOMAIN stack
      BY <3>1, <3>2, <1>3, <2>1 DEF SolverInv, StackLinked
    <3>3. CASE i = Len(stack) + 1
      BY <3>1, <3>3, <1>2, <1>3, <2>1
    <3> QED BY <3>2, <3>3, <2>1
  <2>6. ReadsLinked'
    BY <1>3, <2>1 DEF SolverInv, ReadsLinked
  <2>7. InFlight'
    BY <1>1, <1>8, <2>1 DEF SolverInv, InFlight, TypeOK
  <2>8. QueueExact'
    BY <1>1 DEF SolverInv, QueueExact
  <2>9. FreshReads'
    <3> SUFFICES ASSUME NEW k \in Initialized, k \notin Computing,
                        k \notin Elements(pending)
                 PROVE  Fresh(k)'
      BY <1>1, <2>1 DEF FreshReads
    <3>1. k \in known /\ k # c /\ Fresh(k)
      BY <1>1, <1>8 DEF SolverInv, FreshReads, TypeOK
    <3> QED BY <1>1, <2>1, <3>1 DEF Fresh
  <2> QED BY <2>3, <2>4, <2>5, <2>6, <2>7, <2>8, <2>9 DEF SolverInv
<1> QED BY <1>3, <1>6, <1>7, <1>8

\* A walk that ends wakes every finished reader of a value it changes.
LEMMA FinishInv ==
    ASSUME SolverInv, Finish
    PROVE  SolverInv'
<1> DEFINE k == Top
           n == Len(stack)
           fresh == Read(k, value'[k], FALSE)
<1>1. /\ TypeOK /\ NeverReentered /\ stack # <<>>
      /\ UNCHANGED <<file, known, links, request, settled>>
  BY FinishFacts DEF SolverInv, Finish
<1>2. /\ n \in Nat \ {0} /\ DOMAIN stack = 1 .. n
      /\ k = stack[n].key /\ k \in Computing /\ k \in known
  BY <1>1, TopComputing DEF Top
<1>3. /\ stack' \in Seq(Frame) /\ DOMAIN stack' = 1 .. n - 1
      /\ \A i \in DOMAIN stack' : stack'[i] = stack[i]
      /\ Computing' = Computing \ {k} /\ Computing' \subseteq DOMAIN flow'
      /\ Initialized' = Initialized \cup {k}
      /\ \A z \in Initialized : z # k => value'[z] = value[z]
      /\ DOMAIN reads' = known
      /\ stack' = <<>> => reads' = reads
  BY <1>1, FinishFacts
<1>4. /\ pending' \in Seq(Initialized')
      /\ Elements(pending) \subseteq Elements(pending')
      /\ queued' \subseteq queued \cup Woken(k)
      /\ QueueExact => QueueExact'
      /\ ~ (k \in Initialized /\ value[k] = value'[k]) =>
            \A c \in known : <<c, k>> \in links /\ c \notin Computing' => c \in queued'
  BY <1>1, FinishFacts
<1>5. stack' # <<>> => /\ n > 1 /\ Len(stack') = n - 1
                      /\ stack'[Len(stack')] = stack[n - 1]
  <2> SUFFICES ASSUME stack' # <<>>
               PROVE  n > 1 /\ Len(stack') = n - 1 /\ stack'[Len(stack')] = stack[n - 1]
    OBVIOUS
  <2>1. Len(stack') \in Nat \ {0} /\ DOMAIN stack' = 1 .. Len(stack')
    BY <1>3
  <2> HIDE DEF n
  <2>2. Len(stack') = n - 1
    BY <2>1, <1>2, <1>3
  <2>3. Len(stack') \in DOMAIN stack' /\ n > 1
    BY <2>1, <2>2, <1>2
  <2> QED BY <2>2, <2>3, <1>3
<1>6. n > 1 => <<stack[n - 1].key, k>> \in links /\ stack[n - 1].key # k
               /\ stack[n - 1].key \in Computing
  BY <1>1, <1>2 DEF SolverInv, StackLinked, NeverReentered, Computing, Keys
<1>7. \A z \in known :
        \/ reads'[z] = reads[z]
        \/ /\ reads'[z] = reads[z] \cup {fresh}
           /\ <<z, k>> \in links /\ z \in Computing /\ z # k
  <2>1. CASE stack' = <<>>
    BY <2>1, <1>3
  <2>2. CASE stack' # <<>>
    <3> DEFINE p == stack'[Len(stack')].key
    <3>1. /\ p \in known /\ reads'[p] = reads[p] \cup {fresh}
          /\ \A z \in known : z # p => reads'[z] = reads[z]
      BY <2>2, <1>1, FinishFacts
    <3>2. p = stack[n - 1].key /\ n > 1
      BY <2>2, <1>5
    <3> HIDE DEF p
    <3> QED BY <3>1, <3>2, <1>6
  <2> QED BY <2>1, <2>2
<1>8. fresh.callee = k /\ fresh.value = value'[k] /\ fresh.provisional = FALSE
  BY DEF Read
<1> HIDE DEF k, fresh, n
<1>9. TypeOK'
  <2>1. known' = Initialized' \cup Computing'
    BY <1>1, <1>2, <1>3 DEF TypeOK
  <2>2. queued' \subseteq Initialized'
    BY <1>1, <1>2, <1>3, <1>4 DEF TypeOK, Woken
  <2>3. ~ Idle'
    BY <1>1 DEF TypeOK, Idle
  <2>4. /\ file' \in File /\ IsFiniteSet(known') /\ links' \subseteq known' \X known'
        /\ request' \in known' \cup {NoKey}
        /\ settled' \subseteq Initialized'
        /\ DOMAIN reads' = known'
    BY <1>1, <1>3 DEF TypeOK
  <2>5. stack' \in Seq([key : known', wide : BOOLEAN, recursive : BOOLEAN])
    BY <1>1, <1>3 DEF Frame
  <2> QED BY <2>1, <2>2, <2>3, <2>4, <2>5, <1>3, <1>4 DEF TypeOK
<1>10. NeverReentered'
  <2> SUFFICES ASSUME NEW i \in 1 .. n - 1, NEW j \in 1 .. n - 1, i < j
               PROVE  stack[i].key # stack[j].key /\ stack[j].key \notin Initialized'
    BY <1>3 DEF NeverReentered
  <2>1. i \in DOMAIN stack /\ j \in DOMAIN stack /\ n \in DOMAIN stack /\ j < n
    BY <1>2
  <2> QED BY <2>1, <1>1, <1>2, <1>3 DEF NeverReentered
<1>11. StackLinked'
  <2> SUFFICES ASSUME NEW i \in 1 .. n - 1, i > 1
               PROVE  <<stack[i - 1].key, stack[i].key>> \in links
    <3>1. \A i \in 1 .. n - 1 : i > 1 => i - 1 \in 1 .. n - 1
      BY <1>2
    <3> QED BY <3>1, <1>1, <1>3 DEF StackLinked
  <2>1. i \in DOMAIN stack
    BY <1>2
  <2> QED BY <2>1 DEF SolverInv, StackLinked
<1>12. ReadsLinked'
  <2>1. known' = known /\ links' = links
    BY <1>1
  <2>2. \A z \in known : \A r \in reads[z] : <<z, r.callee>> \in links
    BY DEF SolverInv, ReadsLinked
  <2>3. ASSUME NEW z \in known, NEW r \in reads'[z]
        PROVE  <<z, r.callee>> \in links
    <3>1. CASE r \in reads[z]
      BY <3>1, <2>2
    <3>2. CASE r \notin reads[z]
      <4>1. r = fresh /\ <<z, k>> \in links
        BY <3>2, <1>7
      <4> QED BY <4>1, <1>8
    <3> QED BY <3>1, <3>2
  <2> QED BY <2>1, <2>3 DEF ReadsLinked
<1>13. InFlight'
  <2> SUFFICES ASSUME NEW c \in Computing, c # k, NEW r \in reads'[c], ~ r.provisional
               PROVE  /\ r.callee \in Initialized' \ Computing'
                      /\ value'[r.callee] = r.value
    BY <1>3 DEF InFlight
  <2>1. c \in known
    BY <1>1 DEF TypeOK
  <2>2. CASE r \in reads[c]
    <3>1. r.callee \in Initialized \ Computing /\ value[r.callee] = r.value
      BY <2>2 DEF SolverInv, InFlight
    <3> QED BY <3>1, <1>2, <1>3
  <2>3. CASE r \notin reads[c]
    <3>1. r = fresh
      <4>1. reads'[c] = reads[c] \/ reads'[c] = reads[c] \cup {fresh}
        BY <2>1, <1>7
      <4> QED BY <4>1, <2>3
    <3> QED BY <3>1, <1>3, <1>8
  <2> QED BY <2>2, <2>3
<1>14. QueueExact'
  BY <1>4 DEF SolverInv
<1>15. FreshReads'
  <2> SUFFICES ASSUME NEW c \in Initialized', c \notin Computing',
                      c \notin Elements(pending'),
                      NEW r \in reads'[c], ~ r.provisional
               PROVE  r.callee \in Initialized' /\ value'[r.callee] = r.value
    BY DEF FreshReads, Fresh
  <2>1. c \in known /\ reads'[c] = reads[c]
    <3>1. c \in known
      BY <1>1, <1>2, <1>3 DEF TypeOK
    <3> QED BY <3>1, <1>3, <1>7
  <2>2. CASE c = k
    <3>1. r.callee \in Initialized \ Computing /\ value[r.callee] = r.value
      BY <2>1, <2>2, <1>2 DEF SolverInv, InFlight
    <3> QED BY <3>1, <1>2, <1>3
  <2>3. CASE c # k
    <3>1. r.callee \in Initialized /\ value[r.callee] = r.value
      BY <2>1, <2>3, <1>3, <1>4 DEF SolverInv, FreshReads, Fresh
    <3>2. CASE r.callee # k
      BY <3>1, <3>2, <1>3
    <3>3. CASE r.callee = k
      <4>1. <<c, k>> \in links
        BY <2>1, <3>3 DEF SolverInv, ReadsLinked
      <4>2. c \notin queued'
        BY <1>14 DEF QueueExact
      <4>3. k \in Initialized /\ value[k] = value'[k]
        BY <4>1, <4>2, <2>1, <1>4
      <4> QED BY <3>1, <3>3, <4>3, <1>3
    <3> QED BY <3>2, <3>3
  <2> QED BY <2>2, <2>3
<1> QED BY <1>9, <1>10, <1>11, <1>12, <1>13, <1>14, <1>15 DEF SolverInv

-----------------------------------------------------------------------------
(* Provisional summaries and cycles of calls. *)

\* There are finitely many links.
LEMMA LinksFinite == TypeOK => IsFiniteSet(links)
<1> SUFFICES ASSUME TypeOK PROVE IsFiniteSet(links)
  OBVIOUS
<1>1. IsFiniteSet(known) /\ links \subseteq known \X known
  BY DEF TypeOK
<1>2. IsFiniteSet(known \X known)
  BY <1>1, FS_Product
<1> QED BY <1>1, <1>2, FS_Subset

\* From a summary under computation the links lead up the stack to the top.
LEMMA StackReaches ==
    ASSUME TypeOK, StackLinked, NEW c \in Computing
    PROVE  Top \in Reach(links, c)
<1> DEFINE n == Len(stack)
           S == {i \in 1 .. n : stack[i].key \in Reach(links, c)}
<1>1. n \in Nat /\ DOMAIN stack = 1 .. n
  BY DEF TypeOK
<1>2. PICK k \in 1 .. n : c = stack[k].key
  BY <1>1 DEF Computing, Keys
<1>3. c \in Reach(links, c) /\ Closed(links, Reach(links, c))
  BY LinksFinite, ReachLeast
<1>4. \A i \in k .. n - 1 : i \in S => i + 1 \in S
  <2> SUFFICES ASSUME NEW i \in k .. n - 1, i \in S PROVE i + 1 \in S
    OBVIOUS
  <2>1. i \in 1 .. n /\ i + 1 \in 1 .. n /\ i + 1 > 1 /\ (i + 1) - 1 = i
    BY <1>1, <1>2
  <2>2. <<stack[i].key, stack[i + 1].key>> \in links
    BY <1>1, <2>1 DEF StackLinked
  <2>3. stack[i + 1].key \in Reach(links, c)
    BY <1>3, <2>2 DEF Closed
  <2> QED BY <2>1, <2>3
<1>5. k \in Nat /\ k \in S /\ n \in k .. n
  BY <1>1, <1>2, <1>3
<1>6. n \in S
  <2> HIDE DEF S, n
  <2> QED BY <1>1, <1>4, <1>5, Inductive
<1> QED BY <1>6 DEF Top

\* Links only grow while a file is open, and what was on a cycle stays on it.
LEMMA CyclesStay ==
    ASSUME TypeOK, TypeOK', ProvisionalOnCycle, links \subseteq links',
           \A k \in known' : \A r \in reads'[k] :
              r.provisional => \/ k \in known /\ r \in reads[k]
                              \/ k \in Reach(links', r.callee)
    PROVE  ProvisionalOnCycle'
<1>1. IsFiniteSet(links)
  BY LinksFinite
<1>2. IsFiniteSet(links')
  <2>1. IsFiniteSet(known') /\ links' \subseteq known' \X known'
    BY DEF TypeOK
  <2>2. IsFiniteSet(known' \X known')
    BY <2>1, FS_Product
  <2> QED BY <2>1, <2>2, FS_Subset
<1>3. \A c : Reach(links, c) \subseteq Reach(links', c)
  BY <1>1, <1>2, ReachMonotone
<1> QED BY <1>3 DEF ProvisionalOnCycle

\* Every step leaves provisional summaries on cycles.
LEMMA ProvisionalStep ==
    ASSUME SolverInv, SolverInv', ProvisionalOnCycle, [Next]_vars
    PROVE  ProvisionalOnCycle'
<1>1. TypeOK /\ TypeOK' /\ StackLinked /\ NeverReentered
  BY DEF SolverInv
<1>2. ASSUME NEW f \in File, OpenFile(f) PROVE ProvisionalOnCycle'
  BY <1>2 DEF OpenFile, ProvisionalOnCycle
<1>3. ASSUME links' = links, NEW k, Enter(k, FALSE, FALSE), stack = <<>>
      PROVE  ProvisionalOnCycle'
  <2>1. /\ known' = known \cup {k} /\ reads'[k] = {}
        /\ \A z \in known : z # k => reads'[z] = reads[z]
    BY <1>1, <1>3, EnterFirst
  <2>2. \A z \in known' : \A r \in reads'[z] : z \in known /\ r \in reads[z]
    BY <2>1
  <2> QED BY <1>1, <1>3, <2>2, CyclesStay
<1>4. ASSUME UNCHANGED <<known, links, reads>> PROVE ProvisionalOnCycle'
  BY <1>1, <1>4 DEF ProvisionalOnCycle
<1>5. ASSUME NEW k \in Root(file), RequestSummary(k) PROVE ProvisionalOnCycle'
  <2>1. stack = <<>> /\ links' = links
    BY <1>1, <1>5 DEF RequestSummary, TypeOK
  <2>2. CASE k \in Initialized
    BY <1>4, <1>5, <2>2 DEF RequestSummary
  <2>3. CASE k \notin Initialized
    BY <1>3, <1>5, <2>1, <2>3 DEF RequestSummary
  <2> QED BY <2>2, <2>3
<1>6. CASE WalkStatement
  BY <1>4, <1>6 DEF WalkStatement
<1>7. CASE Call
  <2>1. PICK c, wide, recursive :
          /\ wide \in BOOLEAN /\ recursive \in BOOLEAN
          /\ links' = links \cup {<<Top, c>>}
          /\ \/ UseProvisional(c, wide)
             \/ UseSummary(c, wide, recursive)
             \/ c \notin Initialized \cup Computing /\ Enter(c, wide, recursive)
    BY <1>7, CallFacts
  <2>2. Top \in known
    BY <1>1, <1>7, CallFacts, TopComputing
  <2>3. CASE UseProvisional(c, wide)
    <3>1. /\ known' = known /\ c \in Computing
          /\ Continue(Top, c, Provisional(c), TRUE, wide, TRUE)
      BY <2>3 DEF UseProvisional
    <3>2. /\ reads'[Top] = reads[Top] \cup {Read(c, Provisional(c), TRUE)}
          /\ \A z \in known : z # Top => reads'[z] = reads[z]
      <4>1. reads' = With(reads, Top, reads[Top] \cup {Read(c, Provisional(c), TRUE)})
        BY <3>1 DEF Continue
      <4>2. DOMAIN reads = known
        BY <1>1 DEF TypeOK
      <4> QED BY <2>2, <4>1, <4>2 DEF With
    <3>3. Top \in Reach(links', c)
      <4>1. Top \in Reach(links, c) /\ IsFiniteSet(links)
        BY <1>1, <3>1, StackReaches, LinksFinite
      <4>2. IsFiniteSet(links')
        BY <2>1, <4>1, FS_AddElement
      <4> QED BY <2>1, <4>1, <4>2, ReachMonotone
    <3>4. Read(c, Provisional(c), TRUE).callee = c
      BY DEF Read
    <3>5. \A k \in known' : \A r \in reads'[k] :
             \/ k \in known /\ r \in reads[k]
             \/ k \in Reach(links', r.callee)
      BY <3>1, <3>2, <3>3, <3>4
    <3> QED BY <1>1, <2>1, <3>5, CyclesStay
  <2>4. CASE UseSummary(c, wide, recursive)
    <3>1. known' = known /\ Continue(Top, c, value[c], FALSE, wide, recursive)
      BY <2>4 DEF UseSummary
    <3>2. /\ reads'[Top] = reads[Top] \cup {Read(c, value[c], FALSE)}
          /\ \A z \in known : z # Top => reads'[z] = reads[z]
      <4>1. reads' = With(reads, Top, reads[Top] \cup {Read(c, value[c], FALSE)})
        BY <3>1 DEF Continue
      <4>2. DOMAIN reads = known
        BY <1>1 DEF TypeOK
      <4> QED BY <2>2, <4>1, <4>2 DEF With
    <3>3. ~ Read(c, value[c], FALSE).provisional
      BY DEF Read
    <3>4. \A k \in known' : \A r \in reads'[k] :
             r.provisional => k \in known /\ r \in reads[k]
      BY <3>1, <3>2, <3>3
    <3> QED BY <1>1, <2>1, <3>4, CyclesStay
  <2>5. CASE c \notin Initialized \cup Computing /\ Enter(c, wide, recursive)
    <3>1. /\ known' = known \cup {c} /\ reads'[c] = {}
          /\ \A z \in known : z # c => reads'[z] = reads[z]
      <4>1. TypeOK /\ wide \in BOOLEAN /\ recursive \in BOOLEAN /\ Enter(c, wide, recursive)
        BY <1>1, <2>1, <2>5
      <4> QED BY ONLY <4>1, EnterFacts, ZenonT(60)
    <3>2. \A z \in known' : \A r \in reads'[z] : z \in known /\ r \in reads[z]
      BY <3>1
    <3> QED BY <1>1, <2>1, <3>2, CyclesStay
  <2> QED BY <2>1, <2>3, <2>4, <2>5
<1>8. CASE Finish
  <2>1. UNCHANGED <<known, links>>
    BY <1>8 DEF Finish
  <2>2. CASE stack' = <<>>
    BY <1>1, <1>4, <1>8, <2>1, <2>2, FinishFacts
  <2>3. CASE stack' # <<>>
    <3> DEFINE p == stack'[Len(stack')].key
               fresh == Read(Top, value'[Top], FALSE)
    <3>1. /\ reads'[p] = reads[p] \cup {fresh}
          /\ \A z \in known : z # p => reads'[z] = reads[z]
      BY <1>1, <1>8, <2>3, FinishFacts
    <3>2. ~ fresh.provisional
      BY DEF Read
    <3> HIDE DEF p, fresh
    <3>3. \A k \in known' : \A r \in reads'[k] :
             r.provisional => k \in known /\ r \in reads[k]
      BY <2>1, <3>1, <3>2
    <3> QED BY <1>1, <2>1, <3>3, CyclesStay
  <2> QED BY <2>2, <2>3
<1>9. CASE Solve
  BY <1>3, <1>9 DEF Solve
<1>10. CASE Answer
  BY <1>4, <1>10 DEF Answer
<1>11. CASE UNCHANGED vars
  BY <1>4, <1>11 DEF vars
<1> QED BY <1>2, <1>5, <1>6, <1>7, <1>8, <1>9, <1>10, <1>11 DEF Next, Progress

-----------------------------------------------------------------------------
(* Provisional summaries and the fixed point. *)

\* Beginning a walk on an empty stack, of a summary that may leave the worklist.
LEMMA PlacedFirst ==
    ASSUME TypeOK, ProvisionalPlaced, stack = <<>>, NEW k, Enter(k, FALSE, FALSE),
           UNCHANGED value, Elements(pending) \subseteq Elements(pending') \cup {k}
    PROVE  ProvisionalPlaced'
<1>1. /\ known' = known \cup {k} /\ DOMAIN stack' = {1} /\ Computing' = {k}
      /\ reads'[k] = {}
      /\ \A z \in known : z # k => reads'[z] = reads[z]
      /\ stack' \in Seq(Frame')
  BY EnterFirst
<1>2. stack'[1].key = k
  BY <1>1 DEF Computing, Keys
<1>3. Computing = {}
  BY DEF Computing, Keys
<1>4. ASSUME NEW z \in Initialized' \ (Computing' \cup Elements(pending')),
             NEW r \in reads'[z], r.provisional
      PROVE  FALSE
  <2>1. z \in Initialized \ Elements(pending) /\ z # k
    BY <1>1, <1>4 DEF Initialized
  <2>2. r \in reads[z]
    BY <1>1, <1>4, <2>1 DEF TypeOK
  <2> QED BY <1>3, <1>4, <2>1, <2>2 DEF ProvisionalPlaced
<1> QED BY <1>1, <1>2, <1>4 DEF ProvisionalPlaced

\* A walk that has read something goes on: the read is true, or refers to a
\* walk that is on the stack.
LEMMA PlacedContinue ==
    ASSUME TypeOK, NeverReentered, ProvisionalPlaced, stack # <<>>,
           NEW c, NEW v, NEW prov \in BOOLEAN, NEW wide, NEW recursive,
           Continue(Top, c, v, prov, wide, recursive),
           UNCHANGED <<known, stack, value, pending>>,
           prov => c \in Computing
    PROVE  ProvisionalPlaced'
<1> DEFINE n == Len(stack)
           read == Read(c, v, prov)
<1>1. /\ n \in Nat \ {0} /\ DOMAIN stack = 1 .. n
      /\ Top \in Computing /\ Top \in known /\ Top = stack[n].key
  BY TopComputing DEF Top
<1>2. /\ reads'[Top] = reads[Top] \cup {read}
      /\ \A z \in known : z # Top => reads'[z] = reads[z]
  <2>1. reads' = With(reads, Top, reads[Top] \cup {read})
    BY DEF Continue
  <2>2. DOMAIN reads = known
    BY DEF TypeOK
  <2> HIDE DEF read
  <2> QED BY <1>1, <2>1, <2>2 DEF With
<1>3. read.callee = c /\ read.provisional = prov
  BY DEF Read
<1>4. /\ stack' = stack /\ Elements(pending') = Elements(pending)
      /\ Computing' = Computing /\ Initialized' = Initialized
  BY DEF Computing, Initialized
<1> HIDE DEF n, read
<1>5. ASSUME NEW i \in DOMAIN stack, NEW r \in reads'[stack[i].key], r.provisional
      PROVE  \E j \in 1 .. i : stack[j].key = r.callee
  <2>1. stack[i].key \in known
    BY <1>5, <1>1 DEF TypeOK, Computing, Keys
  <2>2. CASE r \in reads[stack[i].key]
    BY <1>5, <2>2 DEF ProvisionalPlaced
  <2>3. CASE r \notin reads[stack[i].key]
    <3>1. r = read /\ stack[i].key = Top
      BY <1>2, <1>5, <2>1, <2>3
    <3>2. PICK j \in 1 .. n : stack[j].key = c
      BY <1>1, <1>3, <1>5, <3>1 DEF Computing, Keys
    <3>3. i = n
      BY <1>1, <3>1 DEF NeverReentered
    <3> QED BY <1>3, <3>1, <3>2, <3>3
  <2> QED BY <2>2, <2>3
<1>6. ASSUME NEW k \in Initialized \ (Computing \cup Elements(pending)),
             NEW r \in reads'[k], r.provisional
      PROVE  r.callee \in Computing \ Initialized
  <2>1. k \in known /\ k # Top
    BY <1>1, <1>6 DEF TypeOK
  <2> QED BY <1>2, <1>6, <2>1 DEF ProvisionalPlaced
<1> QED BY <1>4, <1>5, <1>6 DEF ProvisionalPlaced

\* A walk that ends takes with it the provisional reads of its summary: whoever
\* made one was called through a link, and is queued with the first value.
LEMMA PlacedFinish ==
    ASSUME SolverInv, SolverInv', ProvisionalPlaced, BackEdgesFirst, Finish
    PROVE  ProvisionalPlaced'
<1> DEFINE k == Top
           n == Len(stack)
           fresh == Read(k, value'[k], FALSE)
<1>1. /\ TypeOK /\ NeverReentered /\ ReadsLinked /\ QueueExact' /\ stack # <<>>
      /\ known' = known /\ links' = links
  BY DEF SolverInv, Finish
<1>2. /\ n \in Nat \ {0} /\ DOMAIN stack = 1 .. n
      /\ k = stack[n].key /\ k \in Computing /\ k \in known
  BY <1>1, TopComputing DEF Top
<1>3. /\ stack' \in Seq(Frame) /\ DOMAIN stack' = 1 .. n - 1
      /\ \A i \in DOMAIN stack' : stack'[i] = stack[i]
      /\ Computing' = Computing \ {k}
      /\ Initialized' = Initialized \cup {k}
      /\ Elements(pending) \subseteq Elements(pending')
  BY <1>1, FinishFacts
<1>4. k \notin Initialized =>
         \A c \in known : <<c, k>> \in links /\ c \notin Computing' => c \in queued'
  BY <1>1, FinishFacts
<1>5. \A z \in known :
         \/ reads'[z] = reads[z]
         \/ reads'[z] = reads[z] \cup {fresh} /\ z \in Computing'
  <2>1. CASE stack' = <<>>
    BY <2>1, <1>1, FinishFacts
  <2>2. CASE stack' # <<>>
    <3> DEFINE p == stack'[Len(stack')].key
    <3>1. /\ reads'[p] = reads[p] \cup {fresh}
          /\ \A z \in known : z # p => reads'[z] = reads[z]
      BY <2>2, <1>1, FinishFacts
    <3>2. p \in Computing'
      BY <2>2, <1>3 DEF Computing, Keys
    <3> HIDE DEF p
    <3> QED BY <3>1, <3>2
  <2> QED BY <2>1, <2>2
<1>6. fresh.provisional = FALSE
  BY DEF Read
<1>7. \A z \in known : <<z, k>> \in links /\ z \notin Computing' /\ k \notin Initialized
                       => z \in Elements(pending')
  BY <1>1, <1>4 DEF QueueExact
<1> HIDE DEF k, n, fresh
<1>8. ASSUME NEW i \in 1 .. n - 1, NEW r \in reads'[stack'[i].key], r.provisional
      PROVE  \E j \in 1 .. i : stack'[j].key = r.callee
  <2>1. i \in DOMAIN stack /\ stack'[i] = stack[i]
    BY <1>2, <1>3
  <2>2. stack[i].key \in known
    BY <2>1, <1>1 DEF TypeOK, Computing, Keys
  <2>3. r \in reads[stack[i].key]
    BY <1>5, <1>6, <1>8, <2>1, <2>2
  <2>4. PICK j \in 1 .. i : stack[j].key = r.callee
    BY <1>8, <2>1, <2>3 DEF ProvisionalPlaced
  <2>5. stack'[j] = stack[j]
    BY <1>2, <1>3
  <2> QED BY <2>4, <2>5
<1>9. ASSUME NEW z \in Initialized' \ (Computing' \cup Elements(pending')),
             NEW r \in reads'[z], r.provisional
      PROVE  r.callee \in Computing' \ Initialized'
  <2>1. z \in known /\ z \notin Computing' /\ z \notin Elements(pending')
    BY <1>1, <1>2, <1>3, <1>9 DEF TypeOK
  <2>2. r \in reads[z]
    BY <1>5, <1>9, <2>1
  <2>3. <<z, r.callee>> \in links
    BY <1>1, <2>1, <2>2 DEF ReadsLinked
  <2>4. r.callee \in Computing \ Initialized
    <3>1. CASE z = k
      <4>1. \E j \in 1 .. n : stack[j].key = r.callee
        BY <1>2, <1>9, <2>2, <3>1 DEF ProvisionalPlaced
      <4>2. r.callee \in Computing
        BY <4>1, <1>2 DEF Computing, Keys
      <4> QED BY <1>2, <1>9, <2>2, <3>1, <4>2 DEF BackEdgesFirst
    <3>2. CASE z # k
      <4>1. z \in Initialized \ (Computing \cup Elements(pending))
        BY <1>3, <1>9, <2>1, <3>2
      <4> QED BY <1>9, <2>2, <4>1 DEF ProvisionalPlaced
    <3> QED BY <3>1, <3>2
  <2>5. r.callee # k
    BY <1>7, <2>1, <2>3, <2>4
  <2> QED BY <1>3, <2>4, <2>5
<1> QED BY <1>3, <1>8, <1>9 DEF ProvisionalPlaced

\* Every step keeps provisional reads placed, while none hands out a summary
\* that had a value.
LEMMA PlacedStep ==
    ASSUME SolverInv, SolverInv', ProvisionalPlaced, BackEdgesFirst, [Next]_vars
    PROVE  ProvisionalPlaced'
<1>1. TypeOK /\ NeverReentered
  BY DEF SolverInv
<1>2. ASSUME NEW f \in File, OpenFile(f) PROVE ProvisionalPlaced'
  BY <1>2 DEF OpenFile, ProvisionalPlaced, Initialized, NoSummary
<1>3. ASSUME UNCHANGED <<stack, reads, value, pending>> PROVE ProvisionalPlaced'
  BY <1>3 DEF ProvisionalPlaced, Computing, Initialized
<1>4. ASSUME NEW k \in Root(file), RequestSummary(k) PROVE ProvisionalPlaced'
  <2>1. CASE k \in Initialized
    BY <1>3, <1>4, <2>1 DEF RequestSummary
  <2>2. CASE k \notin Initialized
    <3>1. stack = <<>> /\ Enter(k, FALSE, FALSE) /\ UNCHANGED <<value, pending>>
      BY <1>1, <1>4, <2>2 DEF RequestSummary, TypeOK
    <3>2. Elements(pending) \subseteq Elements(pending') \cup {k}
      BY <3>1
    <3> QED BY <1>1, <3>1, <3>2, PlacedFirst
  <2> QED BY <2>1, <2>2
<1>5. CASE WalkStatement
  BY <1>3, <1>5 DEF WalkStatement
<1>6. CASE Call
  <2>1. PICK c, wide, recursive :
          /\ wide \in BOOLEAN /\ recursive \in BOOLEAN
          /\ \/ UseProvisional(c, wide)
             \/ UseSummary(c, wide, recursive)
             \/ c \notin Initialized \cup Computing /\ Enter(c, wide, recursive)
    BY <1>6, CallFacts
  <2>2. stack # <<>> /\ UNCHANGED <<value, pending>>
    BY <1>6 DEF Call
  <2>3. CASE UseProvisional(c, wide)
    <3>1. /\ Continue(Top, c, Provisional(c), TRUE, wide, TRUE)
          /\ UNCHANGED <<known, stack>> /\ c \in Computing
      BY <2>3 DEF UseProvisional
    <3>2. PICK prov \in BOOLEAN : prov /\ Continue(Top, c, Provisional(c), prov, wide, TRUE)
      BY <3>1
    <3> QED BY <1>1, <2>2, <3>1, <3>2, PlacedContinue
  <2>4. CASE UseSummary(c, wide, recursive)
    <3>1. /\ Continue(Top, c, value[c], FALSE, wide, recursive)
          /\ UNCHANGED <<known, stack>>
      BY <2>4 DEF UseSummary
    <3>2. PICK prov \in BOOLEAN : ~ prov /\ Continue(Top, c, value[c], prov, wide, recursive)
      BY <3>1
    <3> QED BY <1>1, <2>2, <3>1, <3>2, PlacedContinue
  <2>5. CASE c \notin Initialized \cup Computing /\ Enter(c, wide, recursive)
    <3>1. /\ known' = known \cup {c}
          /\ DOMAIN stack' = DOMAIN stack \cup {Len(stack) + 1}
          /\ stack'[Len(stack) + 1].key = c
          /\ \A i \in DOMAIN stack : stack'[i] = stack[i]
          /\ Computing' = Computing \cup {c}
          /\ reads'[c] = {}
          /\ \A z \in known : z # c => reads'[z] = reads[z]
      <4>1. TypeOK /\ wide \in BOOLEAN /\ recursive \in BOOLEAN /\ Enter(c, wide, recursive)
        BY <1>1, <2>1, <2>5
      <4> QED BY ONLY <4>1, EnterFacts, ZenonT(60)
    <3>2. c \notin known /\ DOMAIN stack = 1 .. Len(stack) /\ Len(stack) \in Nat
      BY <1>1, <2>2, <2>5, TopComputing DEF TypeOK
    <3>3. ASSUME NEW i \in DOMAIN stack', NEW r \in reads'[stack'[i].key], r.provisional
          PROVE  \E j \in 1 .. i : stack'[j].key = r.callee
      <4>1. i \in DOMAIN stack
        BY <3>1, <3>3
      <4>2. stack[i].key \in known
        BY <4>1, <1>1 DEF TypeOK, Computing, Keys
      <4>3. r \in reads[stack[i].key]
        BY <3>1, <3>2, <3>3, <4>1, <4>2
      <4>4. PICK j \in 1 .. i : stack[j].key = r.callee
        BY <3>3, <4>1, <4>3 DEF ProvisionalPlaced
      <4>5. j \in DOMAIN stack
        BY <3>2, <4>1
      <4> QED BY <3>1, <4>4, <4>5
    <3>4. ASSUME NEW z \in Initialized \ (Computing' \cup Elements(pending)),
                 NEW r \in reads'[z], r.provisional
          PROVE  r.callee \in Computing' \ Initialized
      <4>1. z \in known /\ z # c /\ z \notin Computing
        BY <1>1, <2>5, <3>1, <3>4 DEF TypeOK
      <4>2. r \in reads[z]
        BY <3>1, <3>4, <4>1
      <4>3. r.callee \in Computing \ Initialized
        BY <3>4, <4>1, <4>2 DEF ProvisionalPlaced
      <4> QED BY <3>1, <4>3
    <3>5. Initialized' = Initialized /\ Elements(pending') = Elements(pending)
      BY <2>2 DEF Initialized
    <3> QED BY <3>3, <3>4, <3>5 DEF ProvisionalPlaced
  <2> QED BY <2>1, <2>3, <2>4, <2>5
<1>7. CASE Finish
  BY <1>7, PlacedFinish
<1>8. CASE Solve
  <2>1. /\ stack = <<>> /\ pending # <<>> /\ pending' = Tail(pending)
        /\ Enter(Head(pending), FALSE, FALSE) /\ UNCHANGED value
    BY <1>8 DEF Solve
  <2>2. Elements(pending) = {Head(pending)} \cup Elements(Tail(pending))
    BY <1>1, <2>1, ElementsTail DEF TypeOK
  <2>3. Elements(pending) \subseteq Elements(pending') \cup {Head(pending)}
    BY <2>1, <2>2
  <2> QED BY <1>1, <2>1, <2>3, PlacedFirst
<1>9. CASE Answer
  BY <1>3, <1>9 DEF Answer
<1>10. CASE UNCHANGED vars
  BY <1>3, <1>10 DEF vars
<1> QED BY <1>2, <1>4, <1>5, <1>6, <1>7, <1>8, <1>9, <1>10 DEF Next, Progress

-----------------------------------------------------------------------------
(* The theorems. *)

\* Every step preserves the invariant.
LEMMA NextInv == SolverInv /\ [Next]_vars => SolverInv'
<1> SUFFICES ASSUME SolverInv, [Next]_vars PROVE SolverInv'
  OBVIOUS
<1>1. ASSUME NEW f \in File, OpenFile(f) PROVE SolverInv'
  BY <1>1, OpenFileInv
<1>2. ASSUME NEW k \in Root(file), RequestSummary(k) PROVE SolverInv'
  BY <1>2, RequestInv
<1>3. CASE WalkStatement
  BY <1>3, WalkInv
<1>4. CASE Call
  BY <1>4, CallInv
<1>5. CASE Finish
  BY <1>5, FinishInv
<1>6. CASE Solve
  BY <1>6, SolveInv
<1>7. CASE Answer
  BY <1>7, AnswerInv
<1>8. CASE UNCHANGED vars
  BY <1>8 DEF vars, SolverInv, TypeOK, NeverReentered, StackLinked, ReadsLinked,
     InFlight, QueueExact, FreshReads, Fresh, Computing, Initialized, Idle
<1> QED BY <1>1, <1>2, <1>3, <1>4, <1>5, <1>6, <1>7, <1>8 DEF Next, Progress

\* The invariant holds of every run, for all files and all walks.
THEOREM Invariance == Spec => []SolverInv
BY InitInv, NextInv, PTL DEF Spec

\* The cache is well formed: what is known has a value or is being computed.
THEOREM TypeCorrect == Spec => []TypeOK
<1>1. SolverInv => TypeOK
  BY DEF SolverInv
<1> QED BY <1>1, Invariance, PTL

\* No body is walked inside its own walk for the same entry, and a value never
\* changes under a walk that has read it (the computing flag of a summary).
THEOREM Reentrance == Spec => []NeverReentered
<1>1. SolverInv => NeverReentered
  BY DEF SolverInv
<1> QED BY <1>1, Invariance, PTL

\* No change of a summary is lost to a finished reader (callers and queued).
THEOREM NoLostChange == Spec => []FreshReads
<1>1. SolverInv => FreshReads
  BY DEF SolverInv
<1> QED BY <1>1, Invariance, PTL

\* The queued flags and the worklist never disagree (markChanged, solve).
THEOREM FlagsExact == Spec => []QueueExact
<1>1. SolverInv => QueueExact
  BY DEF SolverInv
<1> QED BY <1>1, Invariance, PTL

\* A provisional summary is only handed out on a cycle of recorded links, so
\* that its final value, when it comes, finds its reader (summarize).
THEOREM ProvisionalCycles == Spec => []ProvisionalOnCycle
<1>1. Init => ProvisionalOnCycle
  BY DEF Init, ProvisionalOnCycle
<1>2. SolverInv /\ SolverInv' /\ ProvisionalOnCycle /\ [Next]_vars => ProvisionalOnCycle'
  BY ProvisionalStep
<1> QED BY <1>1, <1>2, Invariance, PTL DEF Spec

\* The worklist reaches a fixed point ("a worklist then propagates changes to a
\* fixed point"), unless a summary that is evaluated again is called back.
THEOREM FixedPointReached == Spec /\ []BackEdgesFirst => []FixedPoint
<1>1. Init => ProvisionalPlaced
  BY DEF Init, ProvisionalPlaced, Initialized, NoSummary
<1>2. SolverInv /\ SolverInv' /\ BackEdgesFirst /\ ProvisionalPlaced /\ [Next]_vars
         => ProvisionalPlaced'
  BY PlacedStep
<1>3. SolverInv /\ ProvisionalPlaced => FixedPoint
  <2> SUFFICES ASSUME SolverInv, ProvisionalPlaced, Idle,
                      NEW k \in Initialized, NEW r \in reads[k]
               PROVE  r.value = value[r.callee]
    BY DEF FixedPoint
  <2>1. stack = <<>> /\ pending = <<>>
    BY DEF SolverInv, TypeOK
  <2>2. Computing = {} /\ Elements(pending) = {}
    BY <2>1 DEF Computing, Keys, Elements
  <2>3. ~ r.provisional
    BY <2>2 DEF ProvisionalPlaced
  <2> QED BY <2>2, <2>3 DEF SolverInv, FreshReads, Fresh
<1> QED BY <1>1, <1>2, <1>3, Invariance, PTL DEF Spec

-----------------------------------------------------------------------------
(* The solver implements the table of SummaryMemo: what a request has     *)
(* settled stays as it is until another file is opened.                   *)

MemoInv == SolverInv /\ SettledClosed

\* Nothing is settled at first.
LEMMA InitSettled == Init => SettledClosed
BY DEF Init, SettledClosed

\* A walk that is entered is not of a settled key.
LEMMA EnterSettled ==
    ASSUME MemoInv, NEW k, NEW wide, NEW recursive, Enter(k, wide, recursive),
           k \notin settled, UNCHANGED settled,
           \A e \in links' \ links : e[1] \notin settled,
           Elements(pending') \subseteq Elements(pending)
    PROVE  SettledClosed'
<1>1. Computing' = Computing \cup {k}
  <2>1. stack \in Seq(Frame)
    BY DEF MemoInv, SolverInv, TypeOK, Frame
  <2> DEFINE f == [key |-> k, wide |-> wide, recursive |-> recursive]
             S == Frame \cup {f}
  <2>2. stack \in Seq(S) /\ f \in S /\ stack' = Append(stack, f) /\ f.key = k
    <3>1. Frame \subseteq S
      OBVIOUS
    <3>2. stack \in Seq(S)
      <4> HIDE DEF S
      <4> QED BY <2>1, <3>1, SeqMono
    <3> QED BY <3>2 DEF Enter
  <2> HIDE DEF f, S
  <2>3. Keys(stack') = Keys(stack) \cup {k}
    BY <2>2, KeysPush
  <2> QED BY <2>3 DEF Computing
<1> QED BY <1>1 DEF MemoInv, SettledClosed

\* No step walks what is settled, or links it to what is not.
LEMMA NextSettled ==
    ASSUME MemoInv, [Next]_vars
    PROVE  SettledClosed'
<1>1. /\ TypeOK /\ NeverReentered /\ QueueExact
      /\ settled \subseteq Initialized
      /\ settled \cap (Computing \cup Elements(pending)) = {}
      /\ \A e \in links : e[1] \in settled => e[2] \in settled
  BY DEF MemoInv, SolverInv, TypeOK, SettledClosed
<1>2. ASSUME NEW f \in File, OpenFile(f) PROVE SettledClosed'
  BY <1>2 DEF OpenFile, SettledClosed
<1>3. ASSUME NEW k \in Root(file), RequestSummary(k) PROVE SettledClosed'
  <2>1. UNCHANGED <<settled, links, pending>>
    BY <1>3 DEF RequestSummary
  <2>2. CASE k \in Initialized
    <3>1. UNCHANGED stack
      BY <1>3, <2>2 DEF RequestSummary
    <3> QED BY <1>1, <2>1, <3>1 DEF SettledClosed, Computing
  <2>3. CASE k \notin Initialized
    <3>1. Enter(k, FALSE, FALSE) /\ k \notin settled
      BY <1>1, <1>3, <2>3 DEF RequestSummary
    <3> QED BY <2>1, <3>1, EnterSettled
  <2> QED BY <2>2, <2>3
<1>4. CASE WalkStatement
  BY <1>4 DEF WalkStatement, MemoInv, SettledClosed, Computing
<1>5. CASE Call
  <2>1. PICK c, wide, recursive :
          /\ links' = links \cup {<<Top, c>>}
          /\ \/ UseProvisional(c, wide)
             \/ UseSummary(c, wide, recursive)
             \/ c \notin Initialized \cup Computing /\ Enter(c, wide, recursive)
    BY <1>5, CallFacts
  <2>2. UNCHANGED <<settled, pending>> /\ stack # <<>>
    BY <1>5, CallFacts
  <2>3. Top \notin settled
    BY <1>1, <2>2, TopComputing
  <2>4. CASE UseProvisional(c, wide) \/ UseSummary(c, wide, recursive)
    <3>1. UNCHANGED stack
      BY <2>4 DEF UseProvisional, UseSummary
    <3> QED BY <1>1, <2>1, <2>2, <2>3, <3>1 DEF SettledClosed, Computing
  <2>5. CASE c \notin Initialized \cup Computing /\ Enter(c, wide, recursive)
    <3>1. c \notin settled /\ \A e \in links' \ links : e[1] \notin settled
      BY <1>1, <2>1, <2>3, <2>5
    <3> QED BY <2>2, <2>5, <3>1, EnterSettled
  <2> QED BY <2>1, <2>4, <2>5
<1>6. CASE Finish
  <2>1. /\ stack # <<>> /\ Computing' \subseteq Computing
        /\ Elements(pending') \subseteq Elements(pending) \cup Woken(Top)
    BY <1>1, <1>6, FinishFacts
  <2>2. UNCHANGED <<settled, links>>
    BY <1>6 DEF Finish
  <2>3. Top \notin settled
    BY <1>1, <2>1, TopComputing
  <2>4. \A c \in Woken(Top) : c \notin settled
    BY <1>1, <2>3 DEF Woken
  <2> QED BY <1>1, <2>1, <2>2, <2>4 DEF SettledClosed
<1>7. CASE Solve
  <2>1. /\ UNCHANGED <<settled, links>> /\ pending # <<>>
        /\ pending' = Tail(pending) /\ Enter(Head(pending), FALSE, FALSE)
    BY <1>7 DEF Solve
  <2>2. Elements(pending) = {Head(pending)} \cup Elements(Tail(pending))
    BY <1>1, <2>1, ElementsTail DEF TypeOK
  <2>3. /\ Head(pending) \notin settled
        /\ Elements(pending') \subseteq Elements(pending)
    BY <1>1, <2>1, <2>2
  <2> QED BY <2>1, <2>3, EnterSettled
<1>8. CASE Answer
  <2>1. /\ UNCHANGED <<links, stack, pending>> /\ stack = <<>> /\ pending = <<>>
        /\ settled' = Initialized
    BY <1>8 DEF Answer
  <2>2. Computing = {} /\ Elements(pending) = {} /\ known = Initialized
    BY <1>1, <2>1 DEF Computing, Keys, Elements, TypeOK
  <2>3. links \subseteq known \X known
    BY <1>1 DEF TypeOK
  <2>4. \A e \in links : e[1] \in settled' => e[2] \in settled'
    BY <2>1, <2>2, <2>3
  <2>5. settled' \cap (Computing' \cup Elements(pending')) = {}
    BY <2>1, <2>2 DEF Computing
  <2> QED BY <2>1, <2>4, <2>5 DEF SettledClosed
<1>9. CASE UNCHANGED vars
  BY <1>1, <1>9 DEF vars, SettledClosed, Computing
<1> QED BY <1>2, <1>3, <1>4, <1>5, <1>6, <1>7, <1>8, <1>9 DEF Next, Progress

\* Both invariants together are preserved.
LEMMA NextMemoInv == MemoInv /\ [Next]_vars => MemoInv'
BY NextInv, NextSettled DEF MemoInv

-----------------------------------------------------------------------------
(* Every step of the solver is a step of the table, or none. *)

\* The table is untouched when the settled summaries are.
LEMMA SameAnswers ==
    ASSUME UNCHANGED settled, \A k \in settled : value'[k] = value[k]
    PROVE  Answers' = Answers
BY DEF Answers

\* An empty cache is an empty table.
LEMMA InitRefines == Init => Memo!Init
BY DEF Init, Memo!Init, Answers

\* Opening a file, requesting and answering are the steps of the table; all
\* others leave it alone.
LEMMA NextRefines ==
    ASSUME MemoInv, [Next]_vars
    PROVE  [Memo!Next]_(Memo!memoVars)
<1>1. /\ TypeOK /\ NeverReentered /\ settled \subseteq Initialized
      /\ settled \cap Computing = {}
  BY DEF MemoInv, SolverInv, TypeOK, SettledClosed
<1>2. ASSUME NEW f \in File, OpenFile(f) PROVE Memo!OpenFile(f)
  BY <1>2 DEF OpenFile, Memo!OpenFile, Answers, Idle
<1>3. ASSUME NEW k \in Root(file), RequestSummary(k) PROVE Memo!Ask(k)
  <2>1. Answers' = Answers
    BY <1>3, SameAnswers DEF RequestSummary
  <2> QED BY <1>3, <2>1 DEF RequestSummary, Memo!Ask, Idle
<1>4. CASE WalkStatement \/ Call \/ Solve \/ UNCHANGED vars
  <2>1. UNCHANGED <<file, request, value, settled>>
    BY <1>4, CallFacts DEF WalkStatement, Solve, vars
  <2>2. Answers' = Answers
    BY <2>1, SameAnswers
  <2> QED BY <2>1, <2>2 DEF Memo!memoVars
<1>5. CASE Finish
  <2>1. UNCHANGED <<file, request, settled>>
    BY <1>5 DEF Finish
  <2>2. /\ stack # <<>>
        /\ \A z \in Initialized : z # Top => value'[z] = value[z]
    BY <1>1, <1>5, FinishFacts
  <2>3. Top \notin settled
    BY <1>1, <2>2, TopComputing
  <2>4. Answers' = Answers
    BY <1>1, <2>1, <2>2, <2>3, SameAnswers
  <2> QED BY <2>1, <2>4 DEF Memo!memoVars
<1>6. CASE Answer
  <2>1. /\ ~ Idle /\ stack = <<>> /\ request' = NoKey /\ settled' = Initialized
        /\ UNCHANGED <<file, value>>
    BY <1>6 DEF Answer
  <2>2. request \in Initialized
    BY <1>1, <2>1 DEF TypeOK, Idle, Computing, Keys
  <2>3. DOMAIN Answers = settled /\ \A k \in settled : Answers[k] = value[k]
    BY DEF Answers
  <2>4. DOMAIN Answers' = Initialized /\ \A k \in Initialized : Answers'[k] = value[k]
    BY <2>1 DEF Answers
  <2>5. Memo!Extends(Answers', Answers)
    BY <1>1, <2>3, <2>4 DEF Memo!Extends
  <2> QED BY <2>1, <2>2, <2>4, <2>5 DEF Memo!Reply, Memo!Next, Idle
<1> QED BY <1>2, <1>3, <1>4, <1>5, <1>6 DEF Next, Progress, Memo!Next

\* For all files and all walks: a summary a request has returned, and every
\* summary solved along with it, keeps its value while the file is analysed.
THEOREM Refinement == Spec => MemoSpec
<1>1. Init => MemoInv
  BY InitInv, InitSettled DEF MemoInv
<1>2. Spec => []MemoInv
  BY <1>1, NextMemoInv, PTL DEF Spec
<1>3. MemoInv /\ [Next]_vars => [Memo!Next]_(Memo!memoVars)
  BY NextRefines
<1> QED BY <1>2, <1>3, InitRefines, PTL DEF Spec, MemoSpec, Memo!Spec
=============================================================================
