--------------------------- MODULE DataInduction ---------------------------
(***************************************************************************)
(* Induction over data, for the proofs about what the folds and the        *)
(* recursive functions of the model compute.                               *)
(*                                                                         *)
(* The induction rules here speak of sets, not of operators: a property    *)
(* proved by induction is the set of the numbers that have it.  They       *)
(* follow from the least element of a set of numbers, and that from strict *)
(* inclusion of finite sets being well-founded.  The rest is about         *)
(* FlattenSeq, with which the model puts the low-level writes of the       *)
(* actions of a request, and the registers of the mappings of a snapshot,  *)
(* one after the other.                                                    *)
(***************************************************************************)
EXTENDS Integers, Sequences, SequencesExt, FiniteSets, FiniteSetTheorems, SequenceTheorems,
        WellFoundedInduction, TLAPS

\* A number as the finite set of the smaller ones.
Below(n) == 0 .. n - 1

\* Every set of numbers that is not empty has a least element.
LEMMA LeastNumber ==
    ASSUME NEW S, S \subseteq Nat, S # {}
    PROVE  \E n \in S : \A m \in S : n <= m
<1> DEFINE T == {Below(n) : n \in S}
<1>1. \A n \in Nat : Below(n) \in FiniteSubsetsOf(Nat)
  BY FS_Interval DEF FiniteSubsetsOf, Below
<1>2. T \subseteq FiniteSubsetsOf(Nat) /\ T # {}
  BY <1>1
<1>3. \E x \in T : \A y \in T : <<y, x>> \notin StrictSubsetOrdering(Nat)
  <2> HIDE DEF T
  <2> QED BY <1>2, FS_StrictSubsetOrderingWellFounded, WFMin
<1>4. PICK n \in S : \A m \in S : <<Below(m), Below(n)>> \notin StrictSubsetOrdering(Nat)
  BY <1>3
<1>5. ASSUME NEW m \in S, m < n PROVE FALSE
  <2>1. Below(m) \subseteq Below(n) /\ m \in Below(n) /\ m \notin Below(m)
    BY <1>5 DEF Below
  <2>2. Below(m) \in SUBSET Nat /\ Below(n) \in SUBSET Nat
    BY <1>1 DEF FiniteSubsetsOf
  <2>3. <<Below(m), Below(n)>> \in StrictSubsetOrdering(Nat)
    BY <2>1, <2>2 DEF StrictSubsetOrdering
  <2> QED BY <2>3, <1>4
<1> QED BY <1>4, <1>5

\* A set with 0 that is closed under successor holds every number.
LEMMA Induction ==
    ASSUME NEW S, 0 \in S, \A n \in Nat : n \in S => n + 1 \in S
    PROVE  Nat \subseteq S
<1> SUFFICES ASSUME Nat \ S # {} PROVE FALSE
  OBVIOUS
<1>1. PICK n \in Nat \ S : \A m \in Nat \ S : n <= m
  BY LeastNumber
<1>2. n # 0 /\ n - 1 \in Nat /\ n - 1 \in S
  BY <1>1
<1> QED BY <1>1, <1>2

\* The same up to a bound.
LEMMA BoundedInduction ==
    ASSUME NEW n \in Nat, NEW S, 0 \in S, \A k \in 0 .. n - 1 : k \in S => k + 1 \in S
    PROVE  0 .. n \subseteq S
<1> DEFINE D == {k \in Nat : k <= n => k \in S}
<1>1. 0 \in D
  OBVIOUS
<1>2. \A k \in Nat : k \in D => k + 1 \in D
  OBVIOUS
<1>3. Nat \subseteq D
  <2> HIDE DEF D
  <2> QED BY <1>1, <1>2, Induction
<1> QED BY <1>3

\* f lists the results of applying next[1], ..., next[n] in turn, from v on.
Iterates(f, n, v, next) == f[0] = v /\ \A i \in 1 .. n : f[i] = next[i][f[i - 1]]

\* Steps given by functions can be iterated: what a recursive function over an
\* interval of numbers defines exists.
LEMMA IterationExists ==
    ASSUME NEW n \in Nat, NEW V, NEW v \in V, NEW next \in [1 .. n -> [V -> V]]
    PROVE  \E f \in [0 .. n -> V] : Iterates(f, n, v, next)
<1> DEFINE Upto(k) == \E f \in [0 .. k -> V] : Iterates(f, k, v, next)
           D == {k \in 0 .. n : Upto(k)}
<1>1. 0 \in D
  <2> DEFINE f == [i \in 0 .. 0 |-> v]
  <2>1. f \in [0 .. 0 -> V] /\ Iterates(f, 0, v, next)
    BY DEF Iterates
  <2>2. Upto(0)
    <3> HIDE DEF f
    <3> QED BY <2>1
  <2> QED BY <2>2
<1>2. ASSUME NEW k \in 0 .. n - 1, k \in D PROVE k + 1 \in D
  <2>1. PICK f \in [0 .. k -> V] : Iterates(f, k, v, next)
    BY <1>2
  <2> DEFINE g == [i \in 0 .. k + 1 |-> IF i = k + 1 THEN next[k + 1][f[k]] ELSE f[i]]
  <2>2. g \in [0 .. k + 1 -> V]
    BY <1>2
  <2>3. Iterates(g, k + 1, v, next)
    BY <2>1 DEF Iterates
  <2>4. Upto(k + 1)
    <3> HIDE DEF g
    <3> QED BY <2>2, <2>3
  <2> HIDE DEF Upto
  <2> QED BY <2>4, <1>2
<1>3. 0 .. n \subseteq D
  <2>1. \A k \in 0 .. n - 1 : k \in D => k + 1 \in D
    BY <1>2
  <2> HIDE DEF D
  <2> QED BY <1>1, <2>1, BoundedInduction
<1> QED BY <1>3

\* f[i] is the concatenation of the first i sequences.
Joins(f, n, seqs) == f[1] = seqs[1] /\ \A i \in 2 .. n : f[i] = f[i - 1] \o seqs[i]

\* The recursion in the definition of FlattenSeq, unfolded once.
LEMMA FlattenUnfold ==
    ASSUME NEW seqs, NEW n, n = Len(seqs), n \in Nat \ {0}, NEW f, Joins(f, n, seqs)
    PROVE  \E h : FlattenSeq(seqs) = h[n] /\ Joins(h, n, seqs)
<1> DEFINE Def(h) == [i \in 1 .. n |-> IF i = 1 THEN seqs[i] ELSE h[i - 1] \o seqs[i]]
           flat == CHOOSE h : h = Def(h)
           g == [i \in 1 .. n |-> f[i]]
<1>1. FlattenSeq(seqs) = flat[n]
  BY DEF FlattenSeq
<1>2. g = Def(g)
  <2>1. ASSUME NEW i \in 1 .. n
        PROVE  f[i] = IF i = 1 THEN seqs[i] ELSE g[i - 1] \o seqs[i]
    <3>1. CASE i = 1
      BY <3>1 DEF Joins
    <3>2. CASE i # 1
      <4>1. i \in 2 .. n /\ i - 1 \in 1 .. n
        BY <3>2
      <4>2. g[i - 1] = f[i - 1]
        BY <4>1
      <4> QED BY <4>1, <4>2, <3>2 DEF Joins
    <3> QED BY <3>1, <3>2
  <2> QED BY <2>1
<1>3. flat = Def(flat)
  <2> HIDE DEF Def, g
  <2> QED BY <1>2
<1> HIDE DEF flat
<1>4. flat[1] = seqs[1] /\ \A i \in 2 .. n : flat[i] = flat[i - 1] \o seqs[i]
  <2>1. \A i \in 1 .. n : flat[i] = Def(flat)[i]
    <3> HIDE DEF Def
    <3> QED BY <1>3
  <2>2. \A i \in 1 .. n : flat[i] = IF i = 1 THEN seqs[i] ELSE flat[i - 1] \o seqs[i]
    BY <2>1
  <2>3. 1 \in 1 .. n /\ \A i \in 2 .. n : i \in 1 .. n /\ i # 1
    OBVIOUS
  <2> HIDE DEF Def, g
  <2> QED BY <2>2, <2>3
<1> QED BY <1>1, <1>4 DEF Joins

\* f[i] is the concatenation of the first i sequences, that of none included.
Flattens(f, seqs) ==
    /\ f[0] = <<>>
    /\ \A i \in 1 .. Len(seqs) : f[i] = f[i - 1] \o seqs[i]
    /\ FlattenSeq(seqs) = f[Len(seqs)]

\* FlattenSeq is the result of appending the sequences one by one to the empty one.
LEMMA FlattenIteration ==
    ASSUME NEW S, NEW seqs \in Seq(Seq(S))
    PROVE  \E f \in [0 .. Len(seqs) -> Seq(S)] : Flattens(f, seqs)
<1> DEFINE n == Len(seqs)
           next == [i \in 1 .. n |-> [s \in Seq(S) |-> s \o seqs[i]]]
<1>0. n \in Nat /\ \A i \in 1 .. n : seqs[i] \in Seq(S)
  OBVIOUS
<1>1. next \in [1 .. n -> [Seq(S) -> Seq(S)]]
  BY <1>0
<1>e. <<>> \in Seq(S)
  OBVIOUS
<1>2. PICK f \in [0 .. n -> Seq(S)] : Iterates(f, n, <<>>, next)
  <2> DEFINE V == Seq(S)
             v == <<>>
  <2>1. v \in V /\ next \in [1 .. n -> [V -> V]]
    BY <1>1, <1>e
  <2>2. \E f \in [0 .. n -> V] : Iterates(f, n, v, next)
    <3> HIDE DEF next, n, V, v
    <3> QED BY <1>0, <2>1, IterationExists
  <2> QED BY <2>2
<1>3. \A i \in 1 .. n : f[i - 1] \in Seq(S) /\ f[i] = f[i - 1] \o seqs[i]
  <2> SUFFICES ASSUME NEW i \in 1 .. n PROVE f[i - 1] \in Seq(S) /\ f[i] = f[i - 1] \o seqs[i]
    OBVIOUS
  <2>1. i - 1 \in 0 .. n
    BY <1>0
  <2>2. f[i - 1] \in Seq(S)
    <3> HIDE DEF n
    <3> QED BY <2>1
  <2>3. next[i][f[i - 1]] = f[i - 1] \o seqs[i]
    <3> HIDE DEF n
    <3> QED BY <2>2
  <2> QED BY <2>2, <2>3, <1>2 DEF Iterates
<1>z. f[0] = <<>>
  BY <1>2 DEF Iterates
<1> HIDE DEF next
<1>4. CASE n = 0
  <2>1. FlattenSeq(seqs) = <<>>
    BY <1>4 DEF FlattenSeq
  <2> QED BY <2>1, <1>z, <1>3, <1>4 DEF Flattens
<1>5. CASE n # 0
  <2> HIDE DEF next
  <2>0. seqs[1] \in Seq(S) /\ \A s \in Seq(S) : <<>> \o s = s
    BY <1>5, <1>0
  <2>1. f[1] = seqs[1]
    <3>1. f[1] = f[0] \o seqs[1]
      <4>1. 1 \in 1 .. n /\ 1 - 1 = 0
        BY <1>5, <1>0
      <4> HIDE DEF n
      <4> QED BY <1>3, <4>1
    <3> QED BY <3>1, <1>z, <2>0
  <2>2. PICK h : FlattenSeq(seqs) = h[n] /\ Joins(h, n, seqs)
    <3>1. \A i \in 2 .. n : f[i] = f[i - 1] \o seqs[i]
      <4>1. \A i \in 2 .. n : i \in 1 .. n
        BY <1>0
      <4> HIDE DEF n
      <4> QED BY <1>3, <4>1
    <3>2. n = Len(seqs) /\ n \in Nat \ {0}
      BY <1>5, <1>0
    <3>3. Joins(f, n, seqs)
      BY <2>1, <3>1 DEF Joins
    <3> HIDE DEF n
    <3> QED BY <3>2, <3>3, FlattenUnfold
  <2> DEFINE D == {i \in 0 .. n : i # 0 => h[i] = f[i]}
  <2>3. 0 \in D
    BY <1>0
  <2>4. \A k \in 0 .. n - 1 : k \in D => k + 1 \in D
    <3> SUFFICES ASSUME NEW k \in 0 .. n - 1, k \in D PROVE k + 1 \in D
      OBVIOUS
    <3> HIDE DEF n
    <3>1. k + 1 \in 1 .. n /\ (k + 1) - 1 = k
      BY <1>0
    <3>2. CASE k = 0
      BY <3>1, <3>2, <2>1, <2>2 DEF Joins
    <3>3. CASE k # 0
      <4>1. k + 1 \in 2 .. n
        BY <3>3, <3>1
      <4>2. h[k + 1] = h[k] \o seqs[k + 1] /\ f[k + 1] = f[k] \o seqs[k + 1]
        BY <4>1, <3>1, <2>2, <1>3 DEF Joins
      <4>3. h[k + 1] = f[k + 1]
        BY <4>2, <3>3
      <4> QED BY <4>3, <3>1
    <3> QED BY <3>2, <3>3
  <2>5. 0 .. n \subseteq D
    <3> HIDE DEF D, n
    <3> QED BY <2>3, <2>4, <1>0, BoundedInduction
  <2>6. h[n] = f[n]
    <3> HIDE DEF n
    <3> QED BY <2>5, <1>5, <1>0
  <2> QED BY <2>2, <2>6, <1>z, <1>3 DEF Flattens
<1> QED BY <1>4, <1>5

\* Nothing comes of no sequences (an action_sequence without actions).
LEMMA FlattenEmpty == FlattenSeq(<<>>) = <<>>
BY DEF FlattenSeq

\* The elements of the concatenation are elements of the sequences.
LEMMA FlattenType ==
    ASSUME NEW S, NEW seqs \in Seq(Seq(S))
    PROVE  FlattenSeq(seqs) \in Seq(S)
<1>1. PICK f \in [0 .. Len(seqs) -> Seq(S)] : Flattens(f, seqs)
  BY FlattenIteration
<1> QED BY <1>1 DEF Flattens

\* One more sequence goes to the end (the next action of the loop in execute).
LEMMA FlattenAppend ==
    ASSUME NEW S, NEW seqs \in Seq(Seq(S)), NEW last \in Seq(S)
    PROVE  FlattenSeq(Append(seqs, last)) = FlattenSeq(seqs) \o last
<1> DEFINE n == Len(seqs)
           more == Append(seqs, last)
<1>1. /\ n \in Nat /\ more \in Seq(Seq(S)) /\ Len(more) = n + 1
      /\ more[n + 1] = last /\ \A i \in 1 .. n : more[i] = seqs[i]
  OBVIOUS
<1>f. PICK f \in [0 .. n -> Seq(S)] : Flattens(f, seqs)
  BY FlattenIteration
<1>2. f[0] = <<>> /\ (\A i \in 1 .. n : f[i] = f[i - 1] \o seqs[i]) /\ FlattenSeq(seqs) = f[n]
  BY <1>f DEF Flattens
<1>g. PICK g \in [0 .. n + 1 -> Seq(S)] : Flattens(g, more)
  <2>1. PICK g \in [0 .. Len(more) -> Seq(S)] : Flattens(g, more)
    <3> HIDE DEF more, n
    <3> QED BY <1>1, FlattenIteration
  <2> HIDE DEF more, n
  <2> QED BY <2>1, <1>1
<1>3. g[0] = <<>> /\ (\A i \in 1 .. n + 1 : g[i] = g[i - 1] \o more[i]) /\ FlattenSeq(more) = g[n + 1]
  <2> HIDE DEF more, n
  <2> QED BY <1>1, <1>g DEF Flattens
<1> DEFINE D == {i \in 0 .. n : f[i] = g[i]}
<1> HIDE DEF more, n
<1>4. 0 \in D
  BY <1>1, <1>2, <1>3
<1>5. \A k \in 0 .. n - 1 : k \in D => k + 1 \in D
  <2> SUFFICES ASSUME NEW k \in 0 .. n - 1, k \in D PROVE k + 1 \in D
    OBVIOUS
  <2>1. k + 1 \in 1 .. n /\ k + 1 \in 1 .. n + 1 /\ (k + 1) - 1 = k /\ k + 1 \in 0 .. n
    BY <1>1
  <2>2. f[k + 1] = f[k] \o seqs[k + 1] /\ g[k + 1] = g[k] \o more[k + 1]
    BY <2>1, <1>2, <1>3
  <2>3. f[k + 1] = g[k + 1]
    BY <2>2, <2>1, <1>1
  <2> QED BY <2>1, <2>3
<1>6. 0 .. n \subseteq D
  <2> HIDE DEF D
  <2> QED BY <1>1, <1>4, <1>5, BoundedInduction
<1>7. f[n] = g[n]
  BY <1>6, <1>1
<1>8. g[n + 1] = g[n] \o last
  <2>1. n + 1 \in 1 .. n + 1 /\ (n + 1) - 1 = n
    BY <1>1
  <2> QED BY <2>1, <1>1, <1>3
<1> QED BY <1>2, <1>3, <1>7, <1>8 DEF more, n

\* The concatenation of the first k of the sequences.
Joined(seqs, k) == FlattenSeq(SubSeq(seqs, 1, k))

\* The first k actions of a request give Joined(seqs, k), and the next one is
\* appended to that.
LEMMA JoinedStep ==
    ASSUME NEW S, NEW seqs \in Seq(Seq(S))
    PROVE  /\ Joined(seqs, 0) = <<>>
           /\ Joined(seqs, Len(seqs)) = FlattenSeq(seqs)
           /\ \A k \in 0 .. Len(seqs) : Joined(seqs, k) \in Seq(S)
           /\ \A k \in 0 .. Len(seqs) - 1 : Joined(seqs, k + 1) = Joined(seqs, k) \o seqs[k + 1]
<1>1. SubSeq(seqs, 1, 0) = <<>> /\ SubSeq(seqs, 1, Len(seqs)) = seqs
  OBVIOUS
<1>2. \A k \in 0 .. Len(seqs) : SubSeq(seqs, 1, k) \in Seq(Seq(S))
  OBVIOUS
<1>3. ASSUME NEW k \in 0 .. Len(seqs) - 1
      PROVE  Joined(seqs, k + 1) = Joined(seqs, k) \o seqs[k + 1]
  <2>1. SubSeq(seqs, 1, k + 1) = Append(SubSeq(seqs, 1, k), seqs[k + 1])
    OBVIOUS
  <2>2. seqs[k + 1] \in Seq(S) /\ SubSeq(seqs, 1, k) \in Seq(Seq(S))
    OBVIOUS
  <2> QED BY <2>1, <2>2, FlattenAppend DEF Joined
<1> QED BY <1>1, <1>2, <1>3, FlattenEmpty, FlattenType DEF Joined

\* What the first k actions give is a prefix of what all of them give.
LEMMA JoinedPrefix ==
    ASSUME NEW S, NEW seqs \in Seq(Seq(S)), NEW k \in 0 .. Len(seqs)
    PROVE  \E rest \in Seq(S) : FlattenSeq(seqs) = Joined(seqs, k) \o rest
<1> DEFINE n == Len(seqs)
           Continues(i) == \E rest \in Seq(S) : Joined(seqs, i) = Joined(seqs, k) \o rest
           D == {j \in 0 .. n - k : Continues(k + j)}
<1>0. n \in Nat /\ n - k \in Nat /\ Joined(seqs, k) \in Seq(S)
  BY JoinedStep
<1>1. 0 \in D
  <2>1. <<>> \in Seq(S) /\ Joined(seqs, k) = Joined(seqs, k) \o <<>>
    BY <1>0
  <2>2. Continues(k)
    BY <2>1
  <2>3. k + 0 = k
    OBVIOUS
  <2> HIDE DEF Continues
  <2> QED BY <2>2, <2>3, <1>0
<1>2. \A j \in 0 .. (n - k) - 1 : j \in D => j + 1 \in D
  <2> SUFFICES ASSUME NEW j \in 0 .. (n - k) - 1, j \in D PROVE j + 1 \in D
    OBVIOUS
  <2>1. PICK rest \in Seq(S) : Joined(seqs, k + j) = Joined(seqs, k) \o rest
    OBVIOUS
  <2>2. k + j \in 0 .. n - 1 /\ seqs[(k + j) + 1] \in Seq(S)
    BY <1>0
  <2>3. Joined(seqs, (k + j) + 1) = Joined(seqs, k + j) \o seqs[(k + j) + 1]
    BY <2>2, JoinedStep
  <2> DEFINE more == rest \o seqs[(k + j) + 1]
  <2>4. more \in Seq(S) /\ Joined(seqs, (k + j) + 1) = Joined(seqs, k) \o more
    <3>1. PICK a \in Seq(S) : a = Joined(seqs, k)
      BY <1>0
    <3>2. PICK b \in Seq(S) : b = seqs[(k + j) + 1]
      BY <2>2
    <3>3. rest \o b \in Seq(S) /\ (a \o rest) \o b = a \o (rest \o b)
      <4> HIDE DEF more, Continues, D, n
      <4>1. rest \o b \in Seq(S)
        OBVIOUS
      <4> QED BY <4>1, ConcatAssociative
    <3>4. Joined(seqs, (k + j) + 1) = (a \o rest) \o b
      BY <2>1, <2>3, <3>1, <3>2
    <3> QED BY <3>1, <3>2, <3>3, <3>4
  <2>5. Continues((k + j) + 1)
    BY <2>4
  <2>6. (k + j) + 1 = k + (j + 1) /\ j + 1 \in 0 .. n - k
    BY <1>0
  <2> HIDE DEF Continues
  <2> QED BY <2>5, <2>6
<1>3. 0 .. n - k \subseteq D
  <2> HIDE DEF D
  <2> QED BY <1>0, <1>1, <1>2, BoundedInduction
<1>4. Continues(n)
  <2> HIDE DEF D, n
  <2>1. n - k \in D
    BY <1>0, <1>3
  <2>2. Continues(k + (n - k))
    BY <2>1 DEF D
  <2>3. k + (n - k) = n
    BY <1>0
  <2> HIDE DEF Continues
  <2> QED BY <2>2, <2>3
<1> QED BY <1>4, JoinedStep

\* A list cut after its first i elements.
LEMMA ListCut ==
    ASSUME NEW S, NEW s \in Seq(S), NEW i \in 0 .. Len(s)
    PROVE  /\ SubSeq(s, 1, i) \in Seq(S) /\ SubSeq(s, i + 1, Len(s)) \in Seq(S)
           /\ Len(SubSeq(s, i + 1, Len(s))) = Len(s) - i
           /\ s = SubSeq(s, 1, i) \o SubSeq(s, i + 1, Len(s))
<1> DEFINE n == Len(s)
           u == SubSeq(s, 1, i)
           v == SubSeq(s, i + 1, n)
<1>1. n \in Nat /\ i \in Nat /\ i <= n
  OBVIOUS
<1>2. u \in Seq(S) /\ Len(u) = i /\ \A k \in 1 .. i : u[k] = s[k]
  OBVIOUS
<1>3. v \in Seq(S) /\ Len(v) = n - i /\ \A k \in 1 .. n - i : v[k] = s[i + k]
  OBVIOUS
<1> HIDE DEF u, v
<1>4. u \o v \in Seq(S) /\ Len(u \o v) = n
  BY <1>1, <1>2, <1>3
<1>5. \A k \in 1 .. n : (u \o v)[k] = s[k]
  <2> SUFFICES ASSUME NEW k \in 1 .. n PROVE (u \o v)[k] = s[k]
    OBVIOUS
  <2>0. k \in Nat
    BY <1>1
  <2>1. CASE k <= i
    BY <2>1, <1>1, <1>2, <1>3
  <2>2. CASE k > i
    <3>1. k - i \in 1 .. n - i /\ i + (k - i) = k BY <2>2, <1>1
    <3>2. (u \o v)[k] = v[k - i] BY <2>2, <1>1, <1>2, <1>3
    <3> QED BY <3>1, <3>2, <1>3
  <2>3. k <= i \/ k > i
    BY <2>0, <1>1
  <2> QED BY <2>1, <2>2, <2>3
<1>6. s = u \o v
  BY <1>1, <1>4, <1>5, SeqEqual
<1> QED BY <1>2, <1>3, <1>6 DEF u, v

\* The element after the cut moves to the first part.
LEMMA ListCutNext ==
    ASSUME NEW S, NEW s \in Seq(S), NEW i \in 0 .. Len(s) - 1
    PROVE  /\ s[i + 1] \in S
           /\ Head(SubSeq(s, i + 1, Len(s))) = s[i + 1]
           /\ Tail(SubSeq(s, i + 1, Len(s))) = SubSeq(s, (i + 1) + 1, Len(s))
           /\ SubSeq(s, 1, i + 1) = Append(SubSeq(s, 1, i), s[i + 1])
<1> DEFINE n == Len(s)
           v == SubSeq(s, i + 1, n)
           w == SubSeq(s, (i + 1) + 1, n)
<1>1. n \in Nat /\ i \in Nat /\ i < n /\ s[i + 1] \in S
  OBVIOUS
<1>2. v \in Seq(S) /\ Len(v) = n - i /\ \A k \in 1 .. n - i : v[k] = s[i + k]
  OBVIOUS
<1>3. w \in Seq(S) /\ Len(w) = n - (i + 1) /\ \A k \in 1 .. n - (i + 1) : w[k] = s[(i + 1) + k]
  OBVIOUS
<1> HIDE DEF v, w
<1>4. Tail(v) \in Seq(S) /\ Len(Tail(v)) = n - (i + 1)
      /\ \A k \in 1 .. n - (i + 1) : Tail(v)[k] = v[k + 1]
  BY <1>1, <1>2
<1>5. \A k \in 1 .. n - (i + 1) : v[k + 1] = s[(i + 1) + k]
  <2> SUFFICES ASSUME NEW k \in 1 .. n - (i + 1) PROVE v[k + 1] = s[(i + 1) + k]
    OBVIOUS
  <2>1. k + 1 \in 1 .. n - i /\ i + (k + 1) = (i + 1) + k BY <1>1
  <2> QED BY <2>1, <1>2
<1>6. Tail(v) = w
  <2>1. \A k \in 1 .. Len(w) : Tail(v)[k] = w[k]
    BY <1>3, <1>4, <1>5
  <2> QED BY <2>1, <1>3, <1>4, SeqEqual
<1>7. Head(v) = s[i + 1]
  BY <1>1, <1>2
<1>8. SubSeq(s, 1, i + 1) = Append(SubSeq(s, 1, i), s[i + 1])
  OBVIOUS
<1> QED BY <1>1, <1>6, <1>7, <1>8 DEF v, w

\* Concatenation and one more element.
LEMMA AppendLast ==
    ASSUME NEW S, NEW a \in Seq(S), NEW b \in Seq(S), NEW x \in S
    PROVE  Append(a \o b, x) = a \o Append(b, x)
<1> DEFINE l == Append(a \o b, x)
           r == a \o Append(b, x)
           n == Len(a) + Len(b) + 1
<1>1. Len(a) \in Nat /\ Len(b) \in Nat /\ n \in Nat
  OBVIOUS
<1>2. a \o b \in Seq(S) /\ Len(a \o b) = Len(a) + Len(b)
  OBVIOUS
<1>3. Append(b, x) \in Seq(S) /\ Len(Append(b, x)) = Len(b) + 1
  OBVIOUS
<1>4. l \in Seq(S) /\ Len(l) = n
  BY <1>1, <1>2
<1>5. r \in Seq(S) /\ Len(r) = n
  BY <1>1, <1>3
<1>6. ASSUME NEW k \in 1 .. n PROVE l[k] = r[k]
  <2>1. CASE k <= Len(a)
    BY <2>1, <1>1, <1>2, <1>3
  <2>2. CASE k > Len(a) /\ k < n
    <3>1. r[k] = Append(b, x)[k - Len(a)] BY <2>2, <1>1, <1>3
    <3>2. Append(b, x)[k - Len(a)] = b[k - Len(a)] BY <2>2, <1>1
    <3>3. l[k] = (a \o b)[k] BY <2>2, <1>1, <1>2
    <3>4. (a \o b)[k] = b[k - Len(a)] BY <2>2, <1>1
    <3> QED BY <3>1, <3>2, <3>3, <3>4
  <2>3. CASE k = n
    <3>1. r[k] = Append(b, x)[k - Len(a)] BY <2>3, <1>1, <1>3
    <3>2. Append(b, x)[k - Len(a)] = x BY <2>3, <1>1
    <3>3. l[k] = x BY <2>3, <1>1, <1>2
    <3> QED BY <3>1, <3>2, <3>3
  <2> QED BY <2>1, <2>2, <2>3, <1>1
<1> HIDE DEF l, r, n
<1>7. l = r
  BY <1>1, <1>4, <1>5, <1>6
<1> QED BY <1>7 DEF l, r

\* What is left of a list has one element when the cut is before the last one.
LEMMA ListCutLast ==
    ASSUME NEW S, NEW s \in Seq(S), NEW i \in 0 .. Len(s)
    PROVE  /\ SubSeq(s, i + 1, Len(s)) = <<>> => i = Len(s)
           /\ Len(SubSeq(s, i + 1, Len(s))) = 1 => i + 1 = Len(s) /\ SubSeq(s, 1, i + 1) = s
           /\ Len(SubSeq(s, i + 1, Len(s))) > 1 => i + 1 \in 0 .. Len(s) - 1
<1>1. Len(SubSeq(s, i + 1, Len(s))) = Len(s) - i
  BY ListCut
<1>2. Len(s) \in Nat /\ i \in Nat /\ i <= Len(s)
  OBVIOUS
<1> DEFINE u == SubSeq(s, i + 1, Len(s))
<1> HIDE DEF u
<1>3. u = <<>> => Len(u) = 0
  <2>1. Len(<<>>) = 0
    OBVIOUS
  <2> QED BY <2>1
<1>4. \A m, n \in Nat : n = m - i => /\ (n = 0 => i = m) /\ (n = 1 => i + 1 = m)
                                     /\ (n > 1 => i + 1 \in 0 .. m - 1)
  BY <1>2
<1>5. Len(u) \in Nat /\ Len(u) = Len(s) - i
  BY <1>1, <1>2 DEF u
<1>6. /\ Len(u) = 0 => i = Len(s)
      /\ Len(u) = 1 => i + 1 = Len(s)
      /\ Len(u) > 1 => i + 1 \in 0 .. Len(s) - 1
  BY <1>2, <1>4, <1>5
<1>7. i + 1 = Len(s) => SubSeq(s, 1, i + 1) = s
  <2>1. SubSeq(s, 1, Len(s)) = s
    OBVIOUS
  <2> SUFFICES ASSUME i + 1 = Len(s) PROVE SubSeq(s, 1, i + 1) = s
    OBVIOUS
  <2> QED BY <2>1, Zenon
<1> QED BY <1>3, <1>6, <1>7 DEF u

\* One element more of a list that is appended to another one.
LEMMA AppendNext ==
    ASSUME NEW S, NEW b \in Seq(S), NEW s \in Seq(S), NEW i \in 0 .. Len(s) - 1
    PROVE  Append(b \o SubSeq(s, 1, i), s[i + 1]) = b \o SubSeq(s, 1, i + 1)
<1>1. i \in 0 .. Len(s)
  OBVIOUS
<1>2. PICK u \in Seq(S) : u = SubSeq(s, 1, i)
  BY <1>1, ListCut
<1>3. PICK x \in S : x = s[i + 1]
  BY ListCutNext
<1>4. SubSeq(s, 1, i + 1) = Append(u, x)
  BY <1>2, <1>3, ListCutNext
<1>5. Append(b \o u, x) = b \o Append(u, x)
  BY SMTT(30), AppendLast
<1> QED BY <1>2, <1>3, <1>4, <1>5

\* A list that goes on with another one is a prefix of the whole.
LEMMA GoesOn ==
    ASSUME NEW S, NEW a \in Seq(S), NEW b \in Seq(S)
    PROVE  IsPrefix(a, a \o b)
<1>1. Len(a) <= Len(a \o b) /\ SubSeq(a \o b, 1, Len(a)) = a /\ SubSeq(a, 1, Len(a)) = a
  OBVIOUS
<1> QED BY <1>1 DEF IsPrefix

\* The same for a list in the middle of a concatenation.
LEMMA GoesOnInside ==
    ASSUME NEW S
    PROVE  \A a, b, c, d \in Seq(S) : IsPrefix(a \o b, (a \o (b \o c)) \o d)
<1> DEFINE T == Seq(S)
<1>1. \A s, t \in T : s \o t \in T
  OBVIOUS
<1>2. \A s, t, u \in T : (s \o t) \o u = s \o (t \o u)
  BY ConcatAssociative
<1>3. \A s, t \in T : IsPrefix(s, s \o t)
  BY GoesOn
<1> HIDE DEF T
<1>4. ASSUME NEW a \in T, NEW b \in T, NEW c \in T, NEW d \in T
      PROVE  IsPrefix(a \o b, (a \o (b \o c)) \o d)
  <2> DEFINE p == b \o c
             q == c \o d
  <2>1. p \in T /\ q \in T
    BY <1>1
  <2>2. p \o d = b \o q
    BY <1>2
  <2> HIDE DEF p, q
  <2>3. (a \o p) \o d = a \o (p \o d)
    BY SMTT(30), <2>1, <1>2
  <2>4. (a \o b) \o q = a \o (b \o q)
    <3>1. \A u \in T : (a \o b) \o u = a \o (b \o u)
      BY <1>2
    <3> QED BY <3>1, <2>1
  <2>5. IsPrefix(a \o b, (a \o b) \o q)
    BY <2>1, <1>1, <1>3
  <2>6. IsPrefix(a \o b, (a \o p) \o d)
    BY <2>2, <2>3, <2>4, <2>5
  <2> QED BY <2>6 DEF p
<1> QED BY <1>4 DEF T
=============================================================================
