-------------------------- MODULE PlcAdapterProofs --------------------------
(***************************************************************************)
(* Theorems about the PLC adapter: its locks, the flags of a connection,   *)
(* what its callers see of a device, and what a virtual runtime promises,  *)
(* for any number of threads, assets and connections and any mappings and  *)
(* programs.                                                               *)
(*                                                                         *)
(* The argument: the registers behind a held connection are those found    *)
(* when the lock was taken, overlaid with a run of the holder's program    *)
(* that was cut off and a run that is under way.  On the virtual path a    *)
(* request that was left alone finds in its asset's runtime the words it   *)
(* wrote so far, or the image it preloaded.                                *)
(***************************************************************************)
EXTENDS PlcAdapter, DataInduction, FiniteSetTheorems, SequenceTheorems, WellFoundedInduction,
        TLAPS

Inside == {"connect", "run"}     \* the with-block of _run_with_recovery
Statuses == {"ok", "failed", "http_404", "http_500"}

Words == 0 .. Word - 1

Plain ==
    /\ regs \in [Conn -> [Reg -> Words]] /\ base \in [Conn -> [Reg -> Words]]
    /\ connected \in [Conn -> BOOLEAN] /\ client \in [Conn -> BOOLEAN]
    /\ lastError \in [Conn -> BOOLEAN] /\ lastFailed \in [Conn -> BOOLEAN]
    /\ holder \in [Conn -> Thread \cup {NoThread}]
    /\ pc \in [Thread -> Pc]
    /\ req \in [Thread -> Requests \cup {NoRequest}]
    /\ attempt \in [Thread -> {1, 2}]
    /\ todo = [th \in Thread |-> todo[th]]
    /\ got = [th \in Thread |-> got[th]]
    /\ ans = [th \in Thread |-> ans[th]]

\* The runtimes that exist, and those that accepted preloads will add.
Store ==
    /\ IsSeq(runtimes)
    /\ current \in [Asset -> 0 .. Len(runtimes)]
    /\ PreloadsUsed <= MaxPreload

\* A lock is held by the thread that is in the with-block.
Lock(d, o) == holder[d] = o <=> pc[o] \in Inside /\ req[o].conn = d

\* Where a thread is, and what it then has.
Shape(th) ==
    /\ pc[th] = "idle" <=> req[th] = NoRequest
    /\ IF pc[th] = "done" THEN ans[th].status \in Statuses ELSE ans[th] = NoAnswer
    /\ pc[th] \notin {"idle", "done"} => Refusal(req[th]) = "none"
    /\ pc[th] \notin Inside => attempt[th] = 1
    /\ pc[th] \notin Inside \cup {"v_read"} => got[th] = <<>>
    /\ pc[th] = "lock" => todo[th] = WorkList(req[th])

\* n actions of the list have been done, none of them untranslatable.
Translated(prog, n) == n \in 0 .. Len(prog) /\ \A k \in 1 .. n : prog[k] # Raise

\* A run that was cut off, if there was one, and the run under way.
Written(th) ==
    LET r == req[th] IN
    \E i, j \in Nat :
        /\ Translated(r.prog, i) /\ Translated(r.prog, j)
        /\ attempt[th] = 1 => i = 0
        /\ pc[th] = "connect" => j = 0
        /\ regs[r.conn] = Overlay(Overlay(base[r.conn], SubSeq(r.prog, 1, i)),
                                  SubSeq(r.prog, 1, j))
        /\ IsWrite(r) => todo[th] = SubSeq(r.prog, j + 1, Len(r.prog))

\* The mappings read so far: what the device does not change is as it was when
\* the lock was taken.
ReadSoFar(th) ==
    LET r == req[th] IN
    \E n \in 0 .. Len(r.maps) :
        /\ todo[th] = SubSeq(r.maps, n + 1, Len(r.maps))
        /\ IsSeq(got[th]) /\ Len(got[th]) = n
        /\ \A k \in 1 .. n :
              Avoids(r.maps[k], Measured) => got[th][k] = RegistersOf(base[r.conn], r.maps[k])
        /\ pc[th] = "connect" => n = 0

Progress(th) ==
    pc[th] \in Inside => Written(th) /\ (~IsWrite(req[th]) => ReadSoFar(th))

\* The flags of a connection that nobody works on tell its last outcome, and
\* an operation under way found, or made, the connection sound.
Flags(c) ==
    holder[c] = NoThread => /\ lastError[c] <=> lastFailed[c]
                            /\ lastFailed[c] => ~connected[c]
Sound(th) == pc[th] = "run" => ~lastError[req[th].conn]

IInv ==
    /\ Plain /\ Store
    /\ \A d \in Conn, o \in Thread : Lock(d, o)
    /\ \A th \in Thread : Shape(th) /\ Progress(th) /\ Sound(th)
    /\ \A c \in Conn : Flags(c)

\* What the device changes by itself.
Drifting == live \in [Conn -> [Measured -> Words]]

-----------------------------------------------------------------------------
(* Overlays. *)

\* A nonempty set of positions has a last one.
LEMMA LastPosition ==
    ASSUME NEW n \in Nat, NEW S \in SUBSET (1 .. n), S # {}
    PROVE  Max(S) \in S /\ \A y \in S : y <= Max(S)
<1> DEFINE From(m) == {y \in S : y >= m}
           T == {From(m) : m \in S}
<1>1. IsFiniteSet(S)
  <2>1. IsFiniteSet(1 .. n)
    BY FS_Interval
  <2> QED BY <2>1, FS_Subset
<1>2. T \subseteq FiniteSubsetsOf(S) /\ T # {}
  <2>1. \A m \in S : From(m) \subseteq S /\ IsFiniteSet(From(m))
    BY <1>1, FS_Subset
  <2> QED BY <2>1 DEF FiniteSubsetsOf
<1>3. PICK x \in T : \A y \in T : ~(<<y, x>> \in StrictSubsetOrdering(S))
  <2> HIDE DEF T
  <2> QED BY <1>2, FS_StrictSubsetOrderingWellFounded, WFMin
<1>4. PICK m \in S : x = From(m)
  BY <1>3
<1>5. ASSUME NEW y \in S, ~(m >= y) PROVE FALSE
  <2>1. From(y) \in SUBSET S /\ From(m) \in SUBSET S /\ From(y) \in T
    OBVIOUS
  <2>2. From(y) \subseteq From(m) /\ m \in From(m) /\ m \notin From(y)
    <3>1. m \in Int /\ y \in Int /\ S \subseteq Int
      OBVIOUS
    <3>2. ASSUME NEW z \in From(y) PROVE z \in From(m)
      <4>1. z \in S /\ z \in Int /\ z >= y
        BY <3>1
      <4>2. z >= m
        BY <4>1, <3>1, <1>5
      <4> QED BY <4>1, <4>2
    <3>3. m \in From(m)
      BY <3>1
    <3>4. m \notin From(y)
      BY <3>1, <1>5
    <3> QED BY <3>2, <3>3, <3>4
  <2>3. <<From(y), From(m)>> \in StrictSubsetOrdering(S)
    <3> HIDE DEF From
    <3> QED BY <2>1, <2>2 DEF StrictSubsetOrdering
  <2> HIDE DEF From, T
  <2> QED BY <1>3, <1>4, <2>1, <2>3
<1>6. \A y \in S : m >= y
  BY <1>5
<1>7. Max(S) \in S /\ \A y \in S : Max(S) >= y
  <2> HIDE DEF From, T
  <2> QED BY <1>6 DEF Max
<1> HIDE DEF From, T
<1> QED BY <1>7

\* Of the writes to a register the last one counts.
LEMMA OverlayAt ==
    ASSUME NEW file, NEW r \in DOMAIN file, NEW p, IsSeq(p)
    PROVE  /\ (\A k \in 1 .. Len(p) : ~Covers(p[k], r)) => Overlay(file, p)[r] = file[r]
           /\ \A k \in 1 .. Len(p) :
                 Covers(p[k], r) /\ (\A m \in k + 1 .. Len(p) : ~Covers(p[m], r))
                   => Overlay(file, p)[r] = p[k].vals[r - p[k].reg + 1]
           /\ \/ \A k \in 1 .. Len(p) : ~Covers(p[k], r)
              \/ \E k \in 1 .. Len(p) :
                    Covers(p[k], r) /\ \A m \in k + 1 .. Len(p) : ~Covers(p[m], r)
<1> DEFINE writes == {i \in DOMAIN p : Covers(p[i], r)}
<1>1. Len(p) \in Nat /\ DOMAIN p = 1 .. Len(p)
  BY DEF IsSeq
<1>2. Overlay(file, p)[r] = IF writes = {} THEN file[r] ELSE ApplyWrite(file, p[Max(writes)])[r]
  BY DEF Overlay
<1>3. writes \in SUBSET (1 .. Len(p))
  BY <1>1
<1>4. ASSUME writes # {}
      PROVE  Max(writes) \in writes /\ \A y \in writes : y <= Max(writes)
  <2> HIDE DEF writes
  <2> QED BY <1>1, <1>3, <1>4, LastPosition
<1>5. (\A k \in 1 .. Len(p) : ~Covers(p[k], r)) => writes = {}
  BY <1>1
<1>6. ASSUME NEW k \in 1 .. Len(p), Covers(p[k], r), \A m \in k + 1 .. Len(p) : ~Covers(p[m], r)
      PROVE  Overlay(file, p)[r] = p[k].vals[r - p[k].reg + 1]
  <2>1. k \in writes
    BY <1>1, <1>6
  <2>2. Max(writes) = k
    <3>1. Max(writes) \in 1 .. Len(p) /\ Covers(p[Max(writes)], r) /\ k <= Max(writes)
      BY <1>1, <1>4, <2>1
    <3> HIDE DEF writes
    <3> QED BY <3>1, <1>6, <1>1
  <2> QED BY <1>2, <1>6, <2>1, <2>2 DEF ApplyWrite
<1>7. ASSUME writes # {}
      PROVE  \E k \in 1 .. Len(p) : Covers(p[k], r) /\ \A m \in k + 1 .. Len(p) : ~Covers(p[m], r)
  <2>1. Max(writes) \in 1 .. Len(p) /\ Covers(p[Max(writes)], r)
    BY <1>1, <1>4, <1>7
  <2>2. \A m \in Max(writes) + 1 .. Len(p) : ~Covers(p[m], r)
    <3> SUFFICES ASSUME NEW m \in Max(writes) + 1 .. Len(p), Covers(p[m], r) PROVE FALSE
      OBVIOUS
    <3>1. m \in 1 .. Len(p)
      BY <2>1, <1>1
    <3>2. m \in writes
      BY <3>1, <1>1
    <3>3. m <= Max(writes)
      BY <3>2, <1>4, <1>7
    <3> HIDE DEF writes
    <3> QED BY <3>3, <2>1, <1>1
  <2> HIDE DEF writes
  <2> QED BY <2>1, <2>2
<1>8. writes = {} => \A k \in 1 .. Len(p) : ~Covers(p[k], r)
  BY <1>1
<1> HIDE DEF writes
<1> QED BY <1>2, <1>5, <1>6, <1>7, <1>8

\* The first n actions of a list are a list of n actions.
LEMMA Prefix ==
    ASSUME NEW p, IsSeq(p), NEW n \in 0 .. Len(p)
    PROVE  /\ IsSeq(SubSeq(p, 1, n)) /\ Len(SubSeq(p, 1, n)) = n
           /\ \A k \in 1 .. n : SubSeq(p, 1, n)[k] = p[k]
<1>1. p \in Seq(ToSet(p)) /\ Len(p) \in Nat
  BY DEF IsSeq
<1>2. /\ Len(SubSeq(p, 1, n)) = n /\ DOMAIN SubSeq(p, 1, n) = 1 .. n
      /\ \A k \in 1 .. n : SubSeq(p, 1, n)[k] = p[k]
  <2> HIDE DEF ToSet
  <2> QED BY <1>1
<1>3. SubSeq(p, 1, n) = [k \in 1 .. n |-> SubSeq(p, 1, n)[k]]
  <2> HIDE DEF ToSet
  <2> QED BY <1>1
<1> DEFINE s == SubSeq(p, 1, n)
<1>4. s = [k \in 1 .. n |-> s[k]] /\ n \in Nat /\ DOMAIN s = 1 .. n
  BY <1>1, <1>2, <1>3
<1> HIDE DEF s
<1>5. \A k \in 1 .. n : s[k] \in ToSet(s)
  BY <1>4 DEF ToSet
<1>6. s \in Seq(ToSet(s))
  BY <1>4, <1>5
<1> USE DEF s
<1> QED BY <1>2, <1>6 DEF IsSeq

\* An overlay is a register file again, and that of no action changes nothing.
LEMMA OverlayNothing ==
    ASSUME NEW D, NEW file \in [Reg -> D], NEW p
    PROVE  /\ DOMAIN Overlay(file, p) = Reg
           /\ Overlay(file, p) = [r \in Reg |-> Overlay(file, p)[r]]
           /\ Overlay(file, <<>>) = file
<1>1. DOMAIN <<>> = {}
  OBVIOUS
<1> QED BY <1>1 DEF Overlay

\* One more action of the list is one more write.
LEMMA OverlayStep ==
    ASSUME NEW file, NEW p, IsSeq(p), NEW n \in Nat, n + 1 \in 1 .. Len(p)
    PROVE  Overlay(file, SubSeq(p, 1, n + 1)) = ApplyWrite(Overlay(file, SubSeq(p, 1, n)), p[n + 1])
<1> DEFINE s == SubSeq(p, 1, n)
           t == SubSeq(p, 1, n + 1)
<1>0. Len(p) \in Nat /\ n \in 0 .. Len(p) /\ n + 1 \in 0 .. Len(p)
  BY DEF IsSeq
<1>1. /\ IsSeq(s) /\ Len(s) = n /\ \A k \in 1 .. n : s[k] = p[k]
      /\ IsSeq(t) /\ Len(t) = n + 1 /\ \A k \in 1 .. n + 1 : t[k] = p[k]
  BY <1>0, Prefix
<1> HIDE DEF s, t
<1>2. ASSUME NEW r \in DOMAIN file
      PROVE  Overlay(file, t)[r] = IF Covers(p[n + 1], r) THEN p[n + 1].vals[r - p[n + 1].reg + 1]
                                   ELSE Overlay(file, s)[r]
  <2>1. CASE Covers(p[n + 1], r)
    <3>1. n + 1 \in 1 .. Len(t) /\ Covers(t[n + 1], r) /\ \A m \in (n + 1) + 1 .. Len(t) : ~Covers(t[m], r)
      BY <1>1, <2>1
    <3>2. Overlay(file, t)[r] = t[n + 1].vals[r - t[n + 1].reg + 1]
      BY <1>1, <3>1, OverlayAt
    <3> QED BY <3>2, <1>1, <2>1
  <2>2. CASE ~Covers(p[n + 1], r)
    <3>1. CASE \A k \in 1 .. Len(s) : ~Covers(s[k], r)
      <4>1. \A k \in 1 .. Len(t) : ~Covers(t[k], r)
        BY <1>1, <2>2, <3>1
      <4> QED BY <1>1, <2>2, <3>1, <4>1, OverlayAt
    <3>2. CASE \E k \in 1 .. Len(s) : Covers(s[k], r) /\ \A m \in k + 1 .. Len(s) : ~Covers(s[m], r)
      <4>1. PICK k \in 1 .. Len(s) : Covers(s[k], r) /\ \A m \in k + 1 .. Len(s) : ~Covers(s[m], r)
        BY <3>2
      <4>2. k \in 1 .. Len(t) /\ Covers(t[k], r) /\ \A m \in k + 1 .. Len(t) : ~Covers(t[m], r)
        BY <1>1, <2>2, <4>1
      <4>3. Overlay(file, t)[r] = t[k].vals[r - t[k].reg + 1]
        <5>1. IsSeq(t)
          BY <1>1
        <5> QED BY <5>1, <4>2, OverlayAt
      <4>4. Overlay(file, s)[r] = s[k].vals[r - s[k].reg + 1]
        <5>1. IsSeq(s)
          BY <1>1
        <5> QED BY <5>1, <4>1, OverlayAt
      <4> QED BY <4>3, <4>4, <1>1, <2>2, <4>1
    <3> QED BY <3>1, <3>2, <1>1, OverlayAt
  <2> QED BY <2>1, <2>2
<1>3. /\ Overlay(file, t) = [r \in DOMAIN file |-> Overlay(file, t)[r]]
      /\ DOMAIN Overlay(file, s) = DOMAIN file
  BY DEF Overlay
<1>4. ApplyWrite(Overlay(file, s), p[n + 1])
        = [r \in DOMAIN file |-> IF Covers(p[n + 1], r) THEN p[n + 1].vals[r - p[n + 1].reg + 1]
                                 ELSE Overlay(file, s)[r]]
  BY <1>3 DEF ApplyWrite
<1>5. Overlay(file, t) = ApplyWrite(Overlay(file, s), p[n + 1])
  BY <1>2, <1>3, <1>4
<1> QED BY <1>5 DEF s, t

\* A whole run hides what a run that was cut off has written.
LEMMA OverlayAgain ==
    ASSUME NEW file, NEW p, IsSeq(p), NEW n \in 0 .. Len(p)
    PROVE  Overlay(Overlay(file, SubSeq(p, 1, n)), p) = Overlay(file, p)
<1> DEFINE s == SubSeq(p, 1, n)
           f == Overlay(file, s)
<1>0. Len(p) \in Nat
  BY DEF IsSeq
<1>1. IsSeq(s) /\ Len(s) = n /\ \A k \in 1 .. n : s[k] = p[k]
  BY Prefix
<1>2. DOMAIN f = DOMAIN file
  BY DEF Overlay
<1> HIDE DEF s
<1>3. ASSUME NEW r \in DOMAIN file
      PROVE  Overlay(f, p)[r] = Overlay(file, p)[r]
  <2>1. CASE \A k \in 1 .. Len(p) : ~Covers(p[k], r)
    <3>1. \A k \in 1 .. Len(s) : ~Covers(s[k], r)
      BY <1>0, <1>1, <2>1
    <3>2. f[r] = file[r]
      BY <1>1, <3>1, OverlayAt
    <3> HIDE DEF f
    <3>3. Overlay(f, p)[r] = f[r]
      BY <1>2, <2>1, OverlayAt
    <3>4. Overlay(file, p)[r] = file[r]
      BY <2>1, OverlayAt
    <3> QED BY <3>2, <3>3, <3>4
  <2>2. CASE \E k \in 1 .. Len(p) : Covers(p[k], r) /\ \A m \in k + 1 .. Len(p) : ~Covers(p[m], r)
    <3> HIDE DEF f
    <3>1. PICK k \in 1 .. Len(p) : Covers(p[k], r) /\ \A m \in k + 1 .. Len(p) : ~Covers(p[m], r)
      BY <2>2
    <3>2. Overlay(f, p)[r] = p[k].vals[r - p[k].reg + 1]
      BY <1>2, <3>1, OverlayAt
    <3>3. Overlay(file, p)[r] = p[k].vals[r - p[k].reg + 1]
      BY <3>1, OverlayAt
    <3> QED BY <3>2, <3>3
  <2> QED BY <2>1, <2>2, OverlayAt
<1>4. /\ Overlay(f, p) = [r \in DOMAIN file |-> Overlay(f, p)[r]]
      /\ Overlay(file, p) = [r \in DOMAIN file |-> Overlay(file, p)[r]]
  <2> HIDE DEF f
  <2> QED BY <1>2 DEF Overlay
<1> HIDE DEF f
<1>5. Overlay(f, p) = Overlay(file, p)
  BY <1>3, <1>4
<1> QED BY <1>5 DEF f, s

-----------------------------------------------------------------------------
(* The parts of a list. *)

\* What is left of a list: it is empty at the end, and otherwise begins with
\* the next element.
LEMMA Rest ==
    ASSUME NEW p, IsSeq(p), NEW n \in 0 .. Len(p)
    PROVE  /\ SubSeq(p, n + 1, Len(p)) = <<>> <=> n = Len(p)
           /\ n < Len(p) => /\ Head(SubSeq(p, n + 1, Len(p))) = p[n + 1]
                            /\ Tail(SubSeq(p, n + 1, Len(p))) = SubSeq(p, n + 2, Len(p))
<1>1. p \in Seq(ToSet(p)) /\ Len(p) \in Nat
  BY DEF IsSeq
<1> DEFINE X == ToSet(p)
           s == SubSeq(p, n + 1, Len(p))
<1> HIDE DEF X
<1>2. p \in Seq(X)
  BY <1>1 DEF X
<1>3. s \in Seq(X) /\ Len(s) = Len(p) - n
  BY <1>1, <1>2
<1>4. s = <<>> <=> n = Len(p)
  <2>1. s = <<>> <=> Len(s) = 0
    <3> HIDE DEF s
    <3> QED BY <1>3
  <2> HIDE DEF s
  <2> QED BY <2>1, <1>1, <1>3
<1>5. ASSUME n < Len(p)
      PROVE  Head(s) = p[n + 1] /\ Tail(s) = SubSeq(p, n + 2, Len(p))
  <2>1. Head(s) = p[n + 1]
    BY <1>1, <1>2, <1>3, <1>5
  <2>2. Tail(s) = SubSeq(p, n + 2, Len(p))
    <3>1. Tail(s) = [k \in 1 .. Len(p) - (n + 1) |-> p[k + n + 1]]
      BY <1>1, <1>2, <1>3, <1>5
    <3>2. SubSeq(p, n + 2, Len(p)) = [k \in 1 .. Len(p) - (n + 1) |-> p[k + n + 1]]
      BY <1>1, <1>2, <1>5
    <3> QED BY <3>1, <3>2
  <2> QED BY <2>1, <2>2
<1> QED BY <1>4, <1>5

\* A list is its own longest prefix; the shortest is empty.
LEMMA Whole ==
    ASSUME NEW p, IsSeq(p)
    PROVE  SubSeq(p, 1, Len(p)) = p /\ SubSeq(p, 1, 0) = <<>>
<1> DEFINE X == ToSet(p)
<1> HIDE DEF X
<1>1. p \in Seq(X) /\ Len(p) \in Nat
  BY DEF IsSeq, X
<1> QED BY <1>1

-----------------------------------------------------------------------------
(* The invariant. *)

\* A device word can be zero.
LEMMA ZeroIsWord == 0 \in Words /\ ZeroRegs \in [Reg -> Words]
BY DEF Words, Word, ZeroRegs

\* What a request that is being served has.
LEMMA Engaged ==
    ASSUME IInv, NEW th \in Thread, pc[th] \notin {"idle", "done"}
    PROVE  /\ req[th] \in Requests /\ req[th].conn \in Conn
           /\ IsSeq(req[th].prog) /\ IsSeq(req[th].maps)
           /\ pc[th] \in Inside => holder[req[th].conn] = th
<1>1. req[th] \in Requests /\ Refusal(req[th]) = "none"
  BY DEF IInv, Plain, Shape
<1> DEFINE r == req[th]
<1>2. r \in Requests /\ Refusal(r) = "none"
  BY <1>1
<1> HIDE DEF r
<1>3. r.conn \in Conn
  BY <1>2, RequestAssumption
<1>4. IsSeq(r.prog)
  BY <1>2, RequestAssumption
<1>5. IsSeq(r.maps)
  BY <1>2, RequestAssumption
<1> QED BY <1>1, <1>3, <1>4, <1>5 DEF IInv, Lock, r

\* A step of th that concerns no connections but those in C.
Alone(th, C) ==
    /\ \A o \in Thread \ {th} :
          /\ pc'[o] = pc[o] /\ req'[o] = req[o] /\ ans'[o] = ans[o]
          /\ todo'[o] = todo[o] /\ got'[o] = got[o] /\ attempt'[o] = attempt[o]
    /\ \A d \in Conn \ C :
          /\ regs'[d] = regs[d] /\ base'[d] = base[d] /\ holder'[d] = holder[d]
          /\ connected'[d] = connected[d] /\ lastError'[d] = lastError[d]
          /\ lastFailed'[d] = lastFailed[d]
    /\ \A c \in C : holder[c] \in {th, NoThread} /\ holder'[c] \in {th, NoThread}

\* Such a step leaves the other threads and connections as they are.
LEMMA OthersKept ==
    ASSUME IInv, NEW th \in Thread, NEW C \in SUBSET Conn, Alone(th, C)
    PROVE  /\ \A o \in Thread \ {th} :
                 Shape(o)' /\ Progress(o)' /\ Sound(o)' /\ \A d \in Conn : Lock(d, o)'
           /\ \A d \in Conn \ C : Flags(d)'
<1>1. ASSUME NEW o \in Thread \ {th}
      PROVE  Shape(o)' /\ Progress(o)' /\ Sound(o)' /\ \A d \in Conn : Lock(d, o)'
  <2>1. /\ pc'[o] = pc[o] /\ req'[o] = req[o] /\ ans'[o] = ans[o]
        /\ todo'[o] = todo[o] /\ got'[o] = got[o] /\ attempt'[o] = attempt[o]
    BY <1>1 DEF Alone
  <2>2. Shape(o) /\ Progress(o) /\ Sound(o) /\ \A d \in Conn : Lock(d, o)
    BY <1>1 DEF IInv
  <2>3. o # NoThread /\ o # th
    BY <1>1, PlcAssumption
  <2>4. Shape(o)'
    BY <2>1, <2>2 DEF Shape
  <2>5. \A d \in Conn : Lock(d, o)'
    <3> SUFFICES ASSUME NEW d \in Conn PROVE Lock(d, o)'
      OBVIOUS
    <3>1. CASE d \in C
      <4>1. holder[d] # o /\ holder'[d] # o
        BY <3>1, <2>3 DEF Alone
      <4> QED BY <4>1, <2>1, <2>2 DEF Lock
    <3>2. CASE d \notin C
      BY <3>2, <2>1, <2>2 DEF Lock, Alone
    <3> QED BY <3>1, <3>2
  <2>6. ASSUME pc[o] \in Inside
        PROVE  /\ regs'[req[o].conn] = regs[req[o].conn] /\ base'[req[o].conn] = base[req[o].conn]
               /\ lastError'[req[o].conn] = lastError[req[o].conn]
    <3>1. req[o].conn \in Conn /\ holder[req[o].conn] = o
      BY <2>6, Engaged DEF Inside
    <3>2. req[o].conn \notin C
      BY <3>1, <2>3 DEF Alone
    <3> QED BY <3>1, <3>2 DEF Alone
  <2>7. Progress(o)'
    <3>1. CASE pc[o] \in Inside
      <4>1. Written(o)'
        <5>1. Written(o)
          BY <3>1, <2>2 DEF Progress
        <5>2. regs'[req[o].conn] = regs[req[o].conn] /\ base'[req[o].conn] = base[req[o].conn]
          BY <2>6, <3>1
        <5> QED BY <5>1, <5>2, <2>1 DEF Written
      <4>2. ~IsWrite(req[o]) => ReadSoFar(o)'
        <5>1. ~IsWrite(req[o]) => ReadSoFar(o)
          BY <3>1, <2>2 DEF Progress
        <5>2. base'[req[o].conn] = base[req[o].conn]
          BY <2>6, <3>1
        <5> QED BY <5>1, <5>2, <2>1 DEF ReadSoFar
      <4> QED BY <4>1, <4>2, <2>1 DEF Progress
    <3>2. CASE pc[o] \notin Inside
      BY <3>2, <2>1 DEF Progress
    <3> QED BY <3>1, <3>2
  <2>8. Sound(o)'
    BY <2>1, <2>2, <2>6 DEF Sound, Inside
  <2> QED BY <2>4, <2>5, <2>7, <2>8
<1>2. ASSUME NEW d \in Conn \ C PROVE Flags(d)'
  BY <1>2 DEF Flags, IInv, Alone
<1> QED BY <1>1, <1>2

\* Freeing runtimes keeps their places.
LEMMA CollectedSeq ==
    ASSUME NEW s, IsSeq(s)
    PROVE  IsSeq(Collected(s)) /\ Len(Collected(s)) = Len(s)
<1> DEFINE t == Collected(s)
<1>1. Len(s) \in Nat /\ DOMAIN s = 1 .. Len(s)
  BY DEF IsSeq
<1>2. t = [i \in 1 .. Len(s) |-> t[i]]
  BY <1>1 DEF Collected
<1> HIDE DEF t
<1>3. \A i \in 1 .. Len(s) : t[i] \in ToSet(t)
  BY <1>2 DEF ToSet
<1>4. t \in Seq(ToSet(t)) /\ Len(t) = Len(s)
  BY <1>1, <1>2, <1>3
<1> QED BY <1>4 DEF IsSeq, t

\* The store is kept by a step that neither accepts nor publishes a preload.
LEMMA StoreKept ==
    ASSUME IInv, NEW th \in Thread, NEW q, q # "preload", pc[th] # "preload",
           pc' = [pc EXCEPT ![th] = q], current' = current,
           IsSeq(runtimes'), Len(runtimes') = Len(runtimes)
    PROVE  Store'
<1>1. {o \in Thread : pc'[o] = "preload"} = {o \in Thread : pc[o] = "preload"}
  BY DEF IInv, Plain
<1>2. PreloadsUsed' = PreloadsUsed
  BY <1>1 DEF PreloadsUsed
<1> QED BY <1>2 DEF IInv, Store

\* It remains to look at the thread that takes the step and its connection.
LEMMA Combined ==
    ASSUME IInv, NEW th \in Thread, NEW C \in SUBSET Conn, Alone(th, C),
           Plain', Store', Shape(th)', Progress(th)', Sound(th)',
           \A d \in Conn : Lock(d, th)', \A c \in C : Flags(c)'
    PROVE  IInv'
<1>1. \A o \in Thread : Shape(o)' /\ Progress(o)' /\ Sound(o)' /\ \A d \in Conn : Lock(d, o)'
  BY OthersKept
<1>2. \A d \in Conn : Flags(d)'
  BY OthersKept
<1> QED BY <1>1, <1>2 DEF IInv

\* A step outside the with-block, of a request that is being served.
LEMMA OutsideKept ==
    ASSUME IInv, NEW th \in Thread,
           pc[th] \notin Inside \cup {"idle", "done"},
           NEW q \in Pc \ (Inside \cup {"idle", "lock"}), NEW x, NEW y, NEW z,
           pc' = [pc EXCEPT ![th] = q], req' = req,
           todo' = [todo EXCEPT ![th] = x], got' = [got EXCEPT ![th] = y],
           ans' = [ans EXCEPT ![th] = z], attempt' = [attempt EXCEPT ![th] = 1],
           UNCHANGED <<connVars, base, lastFailed>>,
           Store',
           IF q = "done" THEN z.status \in Statuses ELSE z = NoAnswer,
           q # "v_read" => y = <<>>
    PROVE  IInv'
<1>p. Plain
  BY DEF IInv
<1>1. Plain'
  BY <1>p DEF Plain, connVars
<1>2. Alone(th, {})
  BY <1>p DEF Alone, Plain, connVars
<1>3. pc'[th] = q /\ req'[th] = req[th] /\ got'[th] = y /\ ans'[th] = z /\ attempt'[th] = 1
  BY <1>p DEF Plain
<1>4. Shape(th)
  BY DEF IInv
<1>5. Shape(th)'
  BY <1>3, <1>4 DEF Shape
<1>6. Progress(th)' /\ Sound(th)'
  BY <1>3 DEF Progress, Sound, Inside
<1>7. \A d \in Conn : Lock(d, th)'
  BY <1>3 DEF Lock, IInv, connVars
<1> QED BY <1>1, <1>2, <1>5, <1>6, <1>7, Combined

\* What stays the same is what is set to what it was.
LEMMA Same ==
    ASSUME IInv, NEW th \in Thread
    PROVE  /\ todo = [todo EXCEPT ![th] = todo[th]]
           /\ got = [got EXCEPT ![th] = got[th]]
           /\ ans = [ans EXCEPT ![th] = ans[th]]
           /\ attempt = [attempt EXCEPT ![th] = attempt[th]]
           /\ pc = [pc EXCEPT ![th] = pc[th]]
BY DEF IInv, Plain

-----------------------------------------------------------------------------
(* The virtual path. *)

\* A function on 1 .. n is a list.
LEMMA FunSeq ==
    ASSUME NEW n \in Nat, NEW t, t = [i \in 1 .. n |-> t[i]]
    PROVE  IsSeq(t) /\ Len(t) = n
<1>1. \A i \in 1 .. n : t[i] \in ToSet(t)
  BY DEF ToSet
<1>2. t \in Seq(ToSet(t)) /\ Len(t) = n
  BY <1>1
<1> QED BY <1>2 DEF IsSeq

\* A list and one more element.
LEMMA AppendSeq ==
    ASSUME NEW s, IsSeq(s), NEW e
    PROVE  /\ IsSeq(Append(s, e)) /\ Len(Append(s, e)) = Len(s) + 1
           /\ \A i \in 1 .. Len(s) : Append(s, e)[i] = s[i]
           /\ Append(s, e)[Len(s) + 1] = e
<1> DEFINE X == ToSet(s) \cup {e}
           n == Len(s) + 1
           t == Append(s, e)
<1>1. s \in Seq(ToSet(s)) /\ Len(s) \in Nat
  BY DEF IsSeq
<1>2. s \in Seq(X) /\ e \in X
  <2>1. ToSet(s) \subseteq X
    OBVIOUS
  <2> HIDE DEF X
  <2>2. Seq(ToSet(s)) \subseteq Seq(X)
    BY <2>1, SeqMonotonic
  <2> USE DEF X
  <2> QED BY <1>1, <2>2
<1> HIDE DEF X
<1>3. /\ t \in Seq(X) /\ Len(t) = n /\ t[n] = e
      /\ \A i \in 1 .. Len(s) : t[i] = s[i]
  BY <1>2, AppendProperties
<1>4. n \in Nat /\ t = [i \in 1 .. n |-> t[i]]
  <2> HIDE DEF t, n
  <2>1. n \in Nat
    BY <1>1 DEF n
  <2> QED BY <1>3, <2>1
<1> HIDE DEF n, t
<1>5. IsSeq(t)
  BY <1>4, FunSeq
<1> QED BY <1>3, <1>5 DEF n, t

\* VirtualFetch, and the two ends of a virtual request.
LEMMA VirtualFetchKeeps ==
    ASSUME IInv, NEW th \in Thread, VirtualFetch(th)
    PROVE  IInv'
<1> DEFINE x == todo[th]
           y == got[th]
           z == ans[th]
           q == "v_word"
<1>1. /\ pc[th] = "v_write" /\ pc' = [pc EXCEPT ![th] = q]
      /\ UNCHANGED <<connVars, virtualVars, req, ans, todo, got, attempt, base, lastFailed>>
  BY DEF VirtualFetch, Goto, historyVars
<1>2. got[th] = <<>> /\ ans[th] = NoAnswer /\ attempt[th] = 1
  BY <1>1 DEF IInv, Shape, Inside
<1>3. /\ todo' = [todo EXCEPT ![th] = x] /\ got' = [got EXCEPT ![th] = y]
      /\ ans' = [ans EXCEPT ![th] = z] /\ attempt' = [attempt EXCEPT ![th] = 1]
      /\ y = <<>> /\ z = NoAnswer
  BY <1>1, <1>2, Same
<1>4. q \in Pc \ (Inside \cup {"idle", "lock"}) /\ q # "preload" /\ q # "done" /\ q # "v_read"
  BY DEF Pc, Inside
<1> HIDE DEF x, y, z, q
<1>5. Store'
  <2>1. IsSeq(runtimes') /\ Len(runtimes') = Len(runtimes) /\ current' = current
    BY <1>1 DEF virtualVars, IInv, Store
  <2> QED BY <1>1, <1>4, <2>1, StoreKept
<1>6. /\ pc[th] \notin Inside \cup {"idle", "done"} /\ pc' = [pc EXCEPT ![th] = q]
      /\ req' = req /\ UNCHANGED <<connVars, base, lastFailed>>
  BY <1>1 DEF Inside
<1> QED BY <1>3, <1>4, <1>5, <1>6, OutsideKept

\* A virtual answer is given outside the with-block.
LEMMA VirtualReplyKeeps ==
    ASSUME IInv, NEW th \in Thread, pc[th] \in {"v_write", "v_read"},
           NEW s \in Statuses, NEW v, NEW snap, VirtualReply(th, Answer(s, v, snap)),
           UNCHANGED <<connVars, historyVars>>
    PROVE  IInv'
<1> DEFINE z == Answer(s, v, snap)
<1>1. /\ pc' = [pc EXCEPT ![th] = "done"] /\ req' = req
      /\ todo' = [todo EXCEPT ![th] = <<>>] /\ got' = [got EXCEPT ![th] = <<>>]
      /\ ans' = [ans EXCEPT ![th] = z] /\ attempt' = [attempt EXCEPT ![th] = 1]
      /\ current' = current /\ runtimes' = Collected(runtimes)
  BY DEF VirtualReply, Reply, Goto
<1>2. Store'
  <2>1. IsSeq(runtimes') /\ Len(runtimes') = Len(runtimes)
    BY <1>1, CollectedSeq DEF IInv, Store
  <2> QED BY <1>1, <2>1, StoreKept
<1>3. z.status \in Statuses
  BY DEF Answer
<1>4. UNCHANGED <<connVars, base, lastFailed>>
  BY DEF historyVars
<1> HIDE DEF z
<1> QED BY <1>1, <1>2, <1>3, <1>4, OutsideKept DEF Inside, Pc

\* One word of a virtual write.
LEMMA VirtualWordKeeps ==
    ASSUME IInv, NEW th \in Thread, VirtualWord(th)
    PROVE  IInv'
<1> DEFINE last == word[th] = Len(Head(todo[th]).vals)
           x == IF last THEN Tail(todo[th]) ELSE todo[th]
           q == IF last THEN "v_write" ELSE "v_word"
           t == [runtimes EXCEPT ![rt[th]].image[Head(todo[th]).reg + word[th] - 1] =
                    Head(todo[th]).vals[word[th]]]
           y == got[th]
           z == ans[th]
<1>1. /\ pc[th] = "v_word" /\ pc' = [pc EXCEPT ![th] = q]
      /\ todo' = [todo EXCEPT ![th] = x] /\ current' = current /\ runtimes' = Collected(t)
      /\ UNCHANGED <<connVars, req, ans, got, attempt, base, lastFailed>>
  BY DEF VirtualWord, Goto
<1>2. got[th] = <<>> /\ ans[th] = NoAnswer /\ attempt[th] = 1
  BY <1>1 DEF IInv, Shape, Inside
<1>3. IsSeq(runtimes) /\ Len(runtimes) \in Nat /\ DOMAIN runtimes = 1 .. Len(runtimes)
  BY DEF IInv, Store, IsSeq
<1>4. t = [i \in 1 .. Len(runtimes) |-> t[i]]
  BY <1>3
<1>5. q \in Pc \ (Inside \cup {"idle", "lock"}) /\ q # "preload" /\ q # "done" /\ q # "v_read"
  BY DEF Pc, Inside
<1>6. /\ got' = [got EXCEPT ![th] = y] /\ ans' = [ans EXCEPT ![th] = z]
      /\ attempt' = [attempt EXCEPT ![th] = 1] /\ y = <<>> /\ z = NoAnswer
  BY <1>1, <1>2, Same
<1> HIDE DEF x, q, t, y, z
<1>7. Store'
  <2>1. IsSeq(t) /\ Len(t) = Len(runtimes)
    BY <1>3, <1>4, FunSeq
  <2>2. IsSeq(runtimes') /\ Len(runtimes') = Len(runtimes)
    BY <1>1, <2>1, CollectedSeq
  <2> QED BY <1>1, <1>5, <2>2, StoreKept
<1> QED BY <1>1, <1>5, <1>6, <1>7, OutsideKept DEF Inside

\* A virtual read takes its reference.
LEMMA ReadFetchKeeps ==
    ASSUME IInv, NEW th \in Thread, ReadFetch(th)
    PROVE  IInv'
<1> DEFINE x == ReadList(req[th].maps)
           y == got[th]
           z == ans[th]
<1>1. /\ pc[th] = "v_fetch" /\ pc' = [pc EXCEPT ![th] = "v_read"]
      /\ todo' = [todo EXCEPT ![th] = x]
      /\ UNCHANGED <<connVars, virtualVars, req, ans, got, attempt, base, lastFailed>>
  BY DEF ReadFetch, Goto, historyVars
<1>2. ans[th] = NoAnswer /\ attempt[th] = 1
  BY <1>1 DEF IInv, Shape, Inside
<1>3. /\ got' = [got EXCEPT ![th] = y] /\ ans' = [ans EXCEPT ![th] = z]
      /\ attempt' = [attempt EXCEPT ![th] = 1] /\ z = NoAnswer
  BY <1>1, <1>2, Same
<1> HIDE DEF x, y, z
<1>4. Store'
  <2>1. IsSeq(runtimes') /\ Len(runtimes') = Len(runtimes) /\ current' = current
    BY <1>1 DEF virtualVars, IInv, Store
  <2> QED BY <1>1, <2>1, StoreKept
<1> QED BY <1>1, <1>3, <1>4, OutsideKept DEF Inside, Pc

\* One word of a virtual read.
LEMMA VirtualReadWordKeeps ==
    ASSUME IInv, NEW th \in Thread, VirtualReadWord(th)
    PROVE  IInv'
<1> DEFINE x == Tail(todo[th])
           y == Append(got[th], runtimes[rt[th]].image[Head(todo[th])])
           z == ans[th]
<1>1. /\ pc[th] = "v_read" /\ pc' = pc
      /\ todo' = [todo EXCEPT ![th] = x] /\ got' = [got EXCEPT ![th] = y]
      /\ UNCHANGED <<connVars, virtualVars, req, ans, attempt, base, lastFailed>>
  BY DEF VirtualReadWord, historyVars
<1>2. ans[th] = NoAnswer /\ attempt[th] = 1
  BY <1>1 DEF IInv, Shape, Inside
<1>3. /\ pc' = [pc EXCEPT ![th] = "v_read"] /\ ans' = [ans EXCEPT ![th] = z]
      /\ attempt' = [attempt EXCEPT ![th] = 1] /\ z = NoAnswer
  BY <1>1, <1>2, Same
<1> HIDE DEF x, y, z
<1>4. Store'
  <2>1. IsSeq(runtimes') /\ Len(runtimes') = Len(runtimes) /\ current' = current
    BY <1>1 DEF virtualVars, IInv, Store
  <2> QED BY <1>1, <1>3, <2>1, StoreKept
<1> QED BY <1>1, <1>3, <1>4, OutsideKept DEF Inside, Pc

\* A preload that was accepted has a place kept for it.
LEMMA PreloadKeeps ==
    ASSUME IInv, NEW th \in Thread, Preload(th)
    PROVE  IInv'
<1> DEFINE x == todo[th]
           y == got[th]
           z == ans[th]
           a == req[th].asset
           q == "v_fetch"
           o == [image |-> PreloadImage(req[th]), overlay |-> req[th].init.overlay]
           t == Append(runtimes, o)
           P == {p \in Thread : pc[p] = "preload"}
<1>1. /\ pc[th] = "preload" /\ pc' = [pc EXCEPT ![th] = q]
      /\ current' = [current EXCEPT ![a] = Len(runtimes) + 1] /\ runtimes' = Collected(t)
      /\ UNCHANGED <<connVars, req, ans, todo, got, attempt, base, lastFailed>>
  BY DEF Preload, Goto
<1>2. got[th] = <<>> /\ ans[th] = NoAnswer /\ attempt[th] = 1
  BY <1>1 DEF IInv, Shape, Inside
<1>3. /\ todo' = [todo EXCEPT ![th] = x] /\ got' = [got EXCEPT ![th] = y]
      /\ ans' = [ans EXCEPT ![th] = z] /\ attempt' = [attempt EXCEPT ![th] = 1]
      /\ y = <<>> /\ z = NoAnswer
  BY <1>1, <1>2, Same
<1>4. IsFiniteSet(P) /\ th \in P /\ {p \in Thread : pc'[p] = "preload"} = P \ {th}
  <2>1. P \subseteq Thread /\ IsFiniteSet(Thread)
    BY PlcAssumption
  <2>2. IsFiniteSet(P)
    <3> HIDE DEF P
    <3> QED BY <2>1, FS_Subset
  <2> QED BY <1>1, <2>2 DEF IInv, Plain
<1>0. q \in Pc \ (Inside \cup {"idle", "lock"}) /\ q # "preload" /\ q # "done" /\ q # "v_read"
  BY DEF Pc, Inside
<1>5. PreloadsUsed = Len(runtimes) + Cardinality(P) /\ PreloadsUsed <= MaxPreload
  BY DEF PreloadsUsed, IInv, Store
<1> HIDE DEF x, y, z, q, o, P, a
<1>6. Cardinality(P \ {th}) = Cardinality(P) - 1 /\ Cardinality(P) \in Nat
  BY <1>4, FS_RemoveElement, FS_CardinalityType
<1>7. /\ IsSeq(runtimes) /\ Len(runtimes) \in Nat /\ DOMAIN runtimes = 1 .. Len(runtimes)
      /\ runtimes \in Seq(ToSet(runtimes)) /\ current \in [Asset -> 0 .. Len(runtimes)]
  BY DEF IInv, Store, IsSeq
<1>8. IsSeq(runtimes') /\ Len(runtimes') = Len(runtimes) + 1
  <2>1. IsSeq(t) /\ Len(t) = Len(runtimes) + 1
    BY <1>7, AppendSeq
  <2> HIDE DEF t
  <2> QED BY <2>1, <1>1, CollectedSeq
<1>9. Store'
  <2>1. PreloadsUsed' = PreloadsUsed
    <3>1. PreloadsUsed' = Len(runtimes') + Cardinality(P \ {th})
      BY <1>4 DEF PreloadsUsed
    <3> QED BY <3>1, <1>5, <1>6, <1>7, <1>8
  <2>2. current' \in [Asset -> 0 .. Len(runtimes')]
    <3> DEFINE n == Len(runtimes)
    <3>1. n \in Nat /\ current \in [Asset -> 0 .. n] /\ Len(runtimes') = n + 1
      BY <1>7, <1>8
    <3>2. current' = [current EXCEPT ![a] = n + 1]
      BY <1>1
    <3> HIDE DEF n
    <3>3. current \in [Asset -> 0 .. n + 1] /\ n + 1 \in 0 .. n + 1
      BY <3>1
    <3>4. current' \in [Asset -> 0 .. n + 1]
      <4> DEFINE m == n + 1
                 R == 0 .. n + 1
      <4>1. current' = [current EXCEPT ![a] = m] /\ current \in [Asset -> R] /\ m \in R
        BY <3>2, <3>3
      <4> HIDE DEF m, R
      <4>2. current' \in [Asset -> R]
        BY <4>1
      <4> QED BY <4>2 DEF R
    <3> QED BY <3>1, <3>4
  <2> QED BY <2>1, <2>2, <1>5, <1>8 DEF Store
<1> HIDE DEF t
<1>10. /\ pc[th] \notin Inside \cup {"idle", "done"} /\ pc' = [pc EXCEPT ![th] = q]
       /\ req' = req /\ UNCHANGED <<connVars, base, lastFailed>>
  BY <1>1 DEF Inside
<1> QED BY <1>0, <1>3, <1>9, <1>10, OutsideKept

\* The virtual steps together.
LEMMA VirtualKeeps ==
    ASSUME IInv, NEW th \in Thread, VirtualStep(th)
    PROVE  IInv'
<1>1. ASSUME VirtualWriteEnds(th) PROVE IInv'
  <2>1. pc[th] = "v_write" /\ UNCHANGED <<connVars, historyVars>>
    BY <1>1 DEF VirtualWriteEnds
  <2>2. \/ VirtualReply(th, Answer("ok", TRUE, <<>>))
        \/ VirtualReply(th, Answer("failed", TRUE, <<>>))
    BY <1>1 DEF VirtualWriteEnds
  <2> QED BY <2>1, <2>2, VirtualReplyKeeps DEF Statuses
<1>2. ASSUME VirtualReadEnds(th) PROVE IInv'
  <2>1. pc[th] = "v_read" /\ UNCHANGED <<connVars, historyVars>>
    BY <1>2 DEF VirtualReadEnds
  <2>2. \E snap : VirtualReply(th, Answer("ok", TRUE, snap))
    BY <1>2 DEF VirtualReadEnds
  <2> QED BY <2>1, <2>2, VirtualReplyKeeps DEF Statuses
<1> QED
  BY <1>1, <1>2, VirtualFetchKeeps, VirtualWordKeeps, ReadFetchKeeps, VirtualReadWordKeeps
  DEF VirtualStep

-----------------------------------------------------------------------------
(* The physical path. *)

\* A step that changes no registers and no flags but those of c.
Touched(c) ==
    /\ regs' \in [Conn -> [Reg -> Words]] /\ connected' \in [Conn -> BOOLEAN]
    /\ client' \in [Conn -> BOOLEAN] /\ lastError' \in [Conn -> BOOLEAN]
    /\ \A d \in Conn \ {c} :
          regs'[d] = regs[d] /\ connected'[d] = connected[d] /\ lastError'[d] = lastError[d]

\* A step inside the with-block.
LEMMA InsideKept ==
    ASSUME IInv, NEW th \in Thread, pc[th] \in Inside, NEW q \in Inside,
           NEW x, NEW y, NEW k \in {1, 2},
           pc' = [pc EXCEPT ![th] = q], todo' = [todo EXCEPT ![th] = x],
           got' = [got EXCEPT ![th] = y], attempt' = [attempt EXCEPT ![th] = k],
           UNCHANGED <<req, ans, holder, base, lastFailed, virtualVars>>,
           Touched(req[th].conn), Progress(th)',
           q = "run" => ~lastError'[req[th].conn]
    PROVE  IInv'
<1> DEFINE c == req[th].conn
<1>0. c \in Conn /\ holder[c] = th /\ req[th] \in Requests
  BY Engaged DEF Inside
<1>p. Plain
  BY DEF IInv
<1>1. Plain'
  BY <1>p DEF Plain, Touched, Inside, Pc
<1>2. Alone(th, {c})
  BY <1>p, <1>0 DEF Alone, Plain, Touched
<1>3. pc'[th] = q /\ req'[th] = req[th] /\ ans'[th] = ans[th]
  BY <1>p DEF Plain
<1>4. Shape(th)'
  <2>1. Shape(th)
    BY DEF IInv
  <2> QED BY <1>3, <2>1 DEF Shape, Inside
<1>5. Sound(th)'
  BY <1>3 DEF Sound
<1>6. \A d \in Conn : Lock(d, th)'
  BY <1>3 DEF Lock, IInv
<1>7. Flags(c)'
  BY <1>0, PlcAssumption DEF Flags
<1>8. Store'
  <2>1. IsSeq(runtimes') /\ Len(runtimes') = Len(runtimes) /\ current' = current
    BY DEF virtualVars, IInv, Store
  <2>2. q # "preload" /\ pc[th] # "preload"
    BY DEF Inside
  <2> QED BY <2>1, <2>2, StoreKept
<1> QED BY <1>0, <1>1, <1>2, <1>4, <1>5, <1>6, <1>7, <1>8, Combined

\* The end of the with-block: the flags agree with the outcome.
LEMMA ReleaseKept ==
    ASSUME IInv, NEW th \in Thread, pc[th] \in Inside,
           NEW failed \in BOOLEAN, NEW s \in Statuses, NEW snap,
           Release(th, failed, Answer(s, FALSE, snap)), UNCHANGED virtualVars,
           Touched(req[th].conn),
           lastError'[req[th].conn] <=> failed, failed => ~connected'[req[th].conn]
    PROVE  IInv'
<1> DEFINE z == Answer(s, FALSE, snap)
<1>c. PICK c \in Conn : c = req[th].conn
  BY Engaged DEF Inside
<1>0. holder[c] = th /\ req[th] \in Requests
  BY <1>c, Engaged DEF Inside
<1>p. Plain
  BY DEF IInv
<1>r. /\ holder' = [holder EXCEPT ![c] = NoThread] /\ base' = [base EXCEPT ![c] = ZeroRegs]
      /\ lastFailed' = [lastFailed EXCEPT ![c] = failed]
      /\ pc' = [pc EXCEPT ![th] = "done"] /\ ans' = [ans EXCEPT ![th] = z]
      /\ todo' = [todo EXCEPT ![th] = <<>>] /\ got' = [got EXCEPT ![th] = <<>>]
      /\ attempt' = [attempt EXCEPT ![th] = 1] /\ req' = req
  BY <1>c DEF Release, Reply, Goto
<1>z. z.status \in Statuses
  BY DEF Answer
<1> HIDE DEF z
<1>1. Plain'
  BY <1>p, <1>r, ZeroIsWord DEF Plain, Touched, Pc
<1>2. Alone(th, {c})
  BY <1>c, <1>p, <1>0, <1>r DEF Alone, Plain, Touched
<1>3. /\ pc'[th] = "done" /\ req'[th] = req[th] /\ ans'[th] = z
      /\ got'[th] = <<>> /\ attempt'[th] = 1
  BY <1>p, <1>r DEF Plain
<1>4. Shape(th)'
  <2>1. Shape(th)
    BY DEF IInv
  <2> QED BY <1>3, <1>z, <2>1 DEF Shape, Inside
<1>5. Sound(th)' /\ Progress(th)'
  BY <1>3 DEF Sound, Progress, Inside
<1>6. \A d \in Conn : Lock(d, th)'
  <2> SUFFICES ASSUME NEW d \in Conn PROVE holder'[d] # th
    BY <1>3 DEF Lock, Inside
  <2>1. CASE d = c
    BY <2>1, <1>r, <1>p, PlcAssumption DEF Plain
  <2>2. CASE d # c
    BY <2>2, <1>c, <1>r, <1>p DEF Plain, IInv, Lock
  <2> QED BY <2>1, <2>2
<1>7. Flags(c)'
  BY <1>c, <1>p, <1>r DEF Flags, Plain
<1>8. Store'
  <2>1. IsSeq(runtimes') /\ Len(runtimes') = Len(runtimes) /\ current' = current
    BY DEF virtualVars, IInv, Store
  <2>2. "done" # "preload" /\ pc[th] # "preload"
    BY DEF Inside
  <2> QED BY <2>1, <2>2, <1>r, StoreKept
<1>9. {c} \in SUBSET Conn /\ \A d \in {c} : Flags(d)'
  BY <1>7
<1> QED BY <1>1, <1>2, <1>4, <1>5, <1>6, <1>8, <1>9, Combined

\* What two runs of the holder's list can have left in file.
Cut(th, file) ==
    LET r == req[th] IN
    \E i, j \in Nat :
        /\ Translated(r.prog, i) /\ Translated(r.prog, j)
        /\ attempt[th] = 1 => i = 0
        /\ file = Overlay(Overlay(base[r.conn], SubSeq(r.prog, 1, i)), SubSeq(r.prog, 1, j))

\* An empty run.
LEMMA NoRun ==
    ASSUME NEW p, IsSeq(p), NEW file, NEW q
    PROVE  /\ Translated(p, 0)
           /\ Overlay(Overlay(file, q), SubSeq(p, 1, 0)) = Overlay(file, q)
           /\ Overlay(Overlay(file, SubSeq(p, 1, 0)), q) = Overlay(file, q)
<1>1. Len(p) \in Nat
  BY DEF IsSeq
<1>2. SubSeq(p, 1, 0) = <<>> /\ DOMAIN <<>> = {}
  BY Whole
<1>3. Translated(p, 0)
  BY <1>1 DEF Translated
<1>4. Overlay(Overlay(file, q), <<>>) = Overlay(file, q)
  BY <1>2 DEF Overlay
<1>5. Overlay(Overlay(file, <<>>), q) = Overlay(file, q)
  BY <1>2 DEF Overlay, ApplyWrite
<1> QED BY <1>2, <1>3, <1>4, <1>5

\* What the holder has written so far, and with the next write.
LEMMA CutNow ==
    ASSUME IInv, NEW th \in Thread, pc[th] \in Inside
    PROVE  Cut(th, regs[req[th].conn])
<1>1. Written(th)
  BY DEF IInv, Progress
<1> QED BY <1>1 DEF Written, Cut

\* A write that lands lengthens the run under way by one action.
LEMMA CutNext ==
    ASSUME IInv, NEW th \in Thread, pc[th] = "run", todo[th] # <<>>, IsWrite(req[th]),
           Head(todo[th]) # Raise
    PROVE  /\ Cut(th, ApplyWrite(regs[req[th].conn], Head(todo[th])))
           /\ \E i, j \in Nat :
                 /\ Translated(req[th].prog, i) /\ Translated(req[th].prog, j)
                 /\ attempt[th] = 1 => i = 0
                 /\ ApplyWrite(regs[req[th].conn], Head(todo[th]))
                      = Overlay(Overlay(base[req[th].conn], SubSeq(req[th].prog, 1, i)),
                                SubSeq(req[th].prog, 1, j))
                 /\ Tail(todo[th]) = SubSeq(req[th].prog, j + 1, Len(req[th].prog))
<1> DEFINE p == req[th].prog
           b == base[req[th].conn]
           f == regs[req[th].conn]
<1>1. IsSeq(p) /\ Len(p) \in Nat
  BY Engaged DEF IsSeq
<1>2. Written(th)
  BY DEF IInv, Progress, Inside
<1>3. PICK i, j \in Nat :
        /\ Translated(p, i) /\ Translated(p, j)
        /\ attempt[th] = 1 => i = 0
        /\ f = Overlay(Overlay(b, SubSeq(p, 1, i)), SubSeq(p, 1, j))
        /\ todo[th] = SubSeq(p, j + 1, Len(p))
  BY <1>2 DEF Written
<1>4. j \in 0 .. Len(p) /\ \A k \in 1 .. j : p[k] # Raise
  BY <1>3 DEF Translated
<1> HIDE DEF p, b, f
<1>5. j < Len(p)
  BY <1>1, <1>3, <1>4, Rest
<1>6. Head(todo[th]) = p[j + 1] /\ Tail(todo[th]) = SubSeq(p, (j + 1) + 1, Len(p))
  <2>1. j + 2 = (j + 1) + 1
    BY <1>3
  <2> QED BY <1>1, <1>3, <1>4, <1>5, <2>1, Rest
<1>7. Translated(p, j + 1)
  <2>1. p[j + 1] # Raise
    BY <1>6
  <2> QED BY <1>1, <1>4, <1>5, <2>1 DEF Translated
<1>8. ApplyWrite(f, p[j + 1]) = Overlay(Overlay(b, SubSeq(p, 1, i)), SubSeq(p, 1, j + 1))
  <2>1. j + 1 \in 1 .. Len(p)
    BY <1>1, <1>4, <1>5
  <2> QED BY <1>1, <1>3, <2>1, OverlayStep
<1>9. \E i0, j0 \in Nat :
        /\ Translated(p, i0) /\ Translated(p, j0)
        /\ attempt[th] = 1 => i0 = 0
        /\ ApplyWrite(f, Head(todo[th])) = Overlay(Overlay(b, SubSeq(p, 1, i0)), SubSeq(p, 1, j0))
        /\ Tail(todo[th]) = SubSeq(p, j0 + 1, Len(p))
  <2> WITNESS i \in Nat, j + 1 \in Nat
  <2> QED BY <1>3, <1>6, <1>7, <1>8
<1> QED BY <1>9 DEF Cut, p, b, f

\* The lock is taken.
LEMMA AcquireKeeps ==
    ASSUME IInv, NEW th \in Thread, Acquire(th)
    PROVE  IInv'
<1>c. PICK c \in Conn : c = req[th].conn
  BY Engaged DEF Acquire
<1> DEFINE q == IF connected[c] /\ client[c] THEN "run" ELSE "connect"
           p == req[th].prog
           m == req[th].maps
<1>0. /\ pc[th] = "lock" /\ holder[c] = NoThread /\ holder' = [holder EXCEPT ![c] = th]
      /\ base' = [base EXCEPT ![c] = regs[c]] /\ pc' = [pc EXCEPT ![th] = q]
      /\ UNCHANGED <<regs, connected, client, lastError, virtualVars, req, ans,
                     todo, got, attempt, lastFailed>>
  BY <1>c DEF Acquire, Goto, localVars
<1>p. Plain
  BY DEF IInv
<1>s. Shape(th)
  BY DEF IInv
<1>q. q \in Inside /\ q \in Pc /\ q # "preload" /\ q # "idle" /\ q # "done"
  BY DEF Inside, Pc
<1>e. IsSeq(p) /\ IsSeq(m) /\ Len(p) \in Nat /\ Len(m) \in Nat
  BY <1>0, Engaged DEF IsSeq
<1>f. q = "run" => ~lastError[c]
  <2>1. Flags(c)
    BY DEF IInv
  <2> QED BY <2>1, <1>0, <1>p DEF Flags, Plain
<1> HIDE DEF q
<1>1. Plain'
  BY <1>p, <1>0, <1>q DEF Plain
<1>2. Alone(th, {c})
  BY <1>p, <1>0 DEF Alone, Plain
<1>3. /\ pc'[th] = q /\ req'[th] = req[th] /\ ans'[th] = ans[th] /\ todo'[th] = todo[th]
      /\ got'[th] = got[th] /\ attempt'[th] = attempt[th] /\ base'[c] = regs[c] /\ regs'[c] = regs[c]
  BY <1>p, <1>0 DEF Plain
<1>4. Shape(th)'
  BY <1>0, <1>3, <1>q, <1>s DEF Shape
<1>5. Sound(th)'
  BY <1>0, <1>3, <1>c, <1>f DEF Sound
<1>6. \A d \in Conn : Lock(d, th)'
  <2> SUFFICES ASSUME NEW d \in Conn PROVE holder'[d] = th <=> d = c
    BY <1>3, <1>q, <1>c DEF Lock
  <2>1. holder[d] # th
    BY <1>0 DEF IInv, Lock, Inside
  <2> QED BY <2>1, <1>0, <1>p DEF Plain
<1>7. Flags(c)'
  BY <1>0, <1>p, PlcAssumption DEF Flags, Plain
<1>8. Store'
  <2>1. IsSeq(runtimes') /\ Len(runtimes') = Len(runtimes) /\ current' = current
    BY <1>0 DEF virtualVars, IInv, Store
  <2> QED BY <2>1, <1>0, <1>q, StoreKept
<1>9. Progress(th)'
  <2>1. attempt[th] = 1 /\ got[th] = <<>> /\ todo[th] = WorkList(req[th])
    BY <1>0, <1>s DEF Shape, Inside
  <2>2. Written(th)'
    <3>1. /\ Translated(p, 0)
          /\ Overlay(Overlay(regs[c], SubSeq(p, 1, 0)), SubSeq(p, 1, 0)) = regs[c]
      <4>1. Translated(p, 0) /\ Overlay(Overlay(regs[c], <<>>), SubSeq(p, 1, 0)) = Overlay(regs[c], <<>>)
        BY <1>e, NoRun
      <4>2. Overlay(regs[c], <<>>) = regs[c]
        <5>1. regs[c] \in [Reg -> Words]
          BY <1>p, <1>c DEF Plain
        <5> QED BY <5>1, OverlayNothing
      <4> QED BY <4>1, <4>2, <1>e, Whole
    <3>2. IsWrite(req[th]) => todo[th] = SubSeq(p, 0 + 1, Len(p))
      <4>1. 0 + 1 = 1
        OBVIOUS
      <4> QED BY <4>1, <2>1, <1>e, Whole DEF WorkList
    <3> QED BY <3>1, <3>2, <1>3, <1>c DEF Written
  <2>3. ~IsWrite(req[th]) => ReadSoFar(th)'
    <3>1. ~IsWrite(req[th]) => todo[th] = SubSeq(m, 0 + 1, Len(m))
      <4>1. 0 + 1 = 1
        OBVIOUS
      <4> QED BY <4>1, <2>1, <1>e, Whole DEF WorkList
    <3>2. IsSeq(<<>>) /\ Len(<<>>) = 0 /\ 0 \in 0 .. Len(m)
      BY <1>e DEF IsSeq
    <3> QED BY <3>1, <3>2, <2>1, <1>3, <1>c DEF ReadSoFar
  <2> QED BY <2>2, <2>3, <1>3 DEF Progress
<1> QED BY <1>1, <1>2, <1>4, <1>5, <1>6, <1>7, <1>8, <1>9, Combined

\* A connect or reconnect that succeeds.
LEMMA ConnectSucceedsKeeps ==
    ASSUME IInv, NEW th \in Thread, ConnectSucceeds(th)
    PROVE  IInv'
<1> DEFINE q == "run"
           x == todo[th]
           y == got[th]
           k == attempt[th]
<1>c. PICK c \in Conn : c = req[th].conn
  BY Engaged DEF ConnectSucceeds
<1>0. /\ pc[th] = "connect" /\ pc' = [pc EXCEPT ![th] = q]
      /\ connected' = [connected EXCEPT ![c] = TRUE] /\ client' = [client EXCEPT ![c] = TRUE]
      /\ lastError' = [lastError EXCEPT ![c] = FALSE]
      /\ UNCHANGED <<regs, holder, virtualVars, req, ans, todo, got, attempt, base, lastFailed>>
  BY <1>c DEF ConnectSucceeds, Goto, localVars, historyVars
<1>p. Plain
  BY DEF IInv
<1>q. q \in Inside /\ pc[th] \in Inside /\ k \in {1, 2}
  BY <1>0, <1>p DEF Inside, Plain
<1>1. Touched(c) /\ ~lastError'[c]
  BY <1>0, <1>p DEF Touched, Plain
<1>2. pc'[th] = "run"
  BY <1>0, <1>p DEF Plain
<1>3. Progress(th)'
  <2>1. Progress(th)
    BY DEF IInv
  <2>2. Written(th)'
    <3>1. Written(th)
      BY <2>1, <1>q DEF Progress
    <3> QED BY <3>1, <1>0, <1>2 DEF Written
  <2>3. ~IsWrite(req[th]) => ReadSoFar(th)'
    <3>1. ~IsWrite(req[th]) => ReadSoFar(th)
      BY <2>1, <1>q DEF Progress
    <3> QED BY <3>1, <1>0, <1>2 DEF ReadSoFar
  <2> QED BY <2>2, <2>3, <1>0 DEF Progress
<1>4. /\ pc' = [pc EXCEPT ![th] = q] /\ todo' = [todo EXCEPT ![th] = x]
      /\ got' = [got EXCEPT ![th] = y] /\ attempt' = [attempt EXCEPT ![th] = k]
  BY <1>0, Same
<1>5. UNCHANGED <<req, ans, holder, base, lastFailed, virtualVars>>
  BY <1>0
<1>6. Touched(req[th].conn) /\ ~lastError'[req[th].conn]
  BY <1>1, <1>c
<1> HIDE DEF q, x, y, k
<1> QED BY <1>q, <1>3, <1>4, <1>5, <1>6, InsideKept

\* A connect that fails ends the operation.
LEMMA ConnectFailsKeeps ==
    ASSUME IInv, NEW th \in Thread, ConnectFails(th)
    PROVE  IInv'
<1>c. PICK c \in Conn : c = req[th].conn
  BY Engaged DEF ConnectFails
<1> DEFINE s == FailStatus(req[th])
<1>0. /\ pc[th] = "connect" /\ Release(th, TRUE, Answer(s, FALSE, <<>>))
      /\ connected' = [connected EXCEPT ![c] = FALSE] /\ client' = [client EXCEPT ![c] = TRUE]
      /\ lastError' = [lastError EXCEPT ![c] = TRUE] /\ UNCHANGED <<regs, virtualVars>>
  BY <1>c DEF ConnectFails
<1>1. s \in Statuses
  BY DEF FailStatus, Statuses
<1>2. Touched(c) /\ lastError'[c] /\ ~connected'[c]
  BY <1>0 DEF Touched, IInv, Plain
<1> HIDE DEF s
<1> QED BY <1>0, <1>1, <1>2, <1>c, ReleaseKept DEF Inside

\* The operation is over and the lock given back.
LEMMA RunDoneKeeps ==
    ASSUME IInv, NEW th \in Thread, RunDone(th)
    PROVE  IInv'
<1>c. PICK c \in Conn : c = req[th].conn
  BY Engaged DEF RunDone
<1>0. PICK snap :
        /\ pc[th] = "run" /\ Release(th, FALSE, Answer("ok", FALSE, snap))
        /\ UNCHANGED <<regs, connected, client, lastError, virtualVars>>
  BY DEF RunDone
<1>1. "ok" \in Statuses /\ ~lastError[c]
  BY <1>0, <1>c DEF Statuses, IInv, Sound
<1>2. Touched(c) /\ ~lastError'[c]
  BY <1>0, <1>1 DEF Touched, IInv, Plain
<1> QED BY <1>0, <1>1, <1>2, <1>c, ReleaseKept DEF Inside

\* A write that fits keeps the registers words.
LEMMA WriteTyped ==
    ASSUME NEW file \in [Reg -> Words], NEW w, FitsWords(w)
    PROVE  ApplyWrite(file, w) \in [Reg -> Words]
BY DEF ApplyWrite, FitsWords, Covers, Words

\* A write request that succeeds.
LEMMA WriteSucceedsKeeps ==
    ASSUME IInv, NEW th \in Thread, WriteSucceeds(th)
    PROVE  IInv'
<1> DEFINE q == "run"
           x == Tail(todo[th])
           y == got[th]
           k == attempt[th]
<1>c. PICK c \in Conn : c = req[th].conn
  BY Engaged DEF WriteSucceeds
<1> DEFINE f == ApplyWrite(regs[c], Head(todo[th]))
<1>0. /\ pc[th] = "run" /\ todo[th] # <<>> /\ IsWrite(req[th])
      /\ Head(todo[th]) # Raise /\ FitsWords(Head(todo[th]))
      /\ regs' = [regs EXCEPT ![c] = f] /\ todo' = [todo EXCEPT ![th] = x]
      /\ UNCHANGED <<connected, client, lastError, holder, virtualVars, pc, req, ans,
                     got, attempt, base, lastFailed>>
  BY <1>c DEF WriteSucceeds, Land, historyVars
<1>p. Plain
  BY DEF IInv
<1>q. q \in Inside /\ pc[th] \in Inside /\ k \in {1, 2}
  BY <1>0, <1>p DEF Inside, Plain
<1>f. f \in [Reg -> Words]
  BY <1>0, <1>p, WriteTyped DEF Plain
<1>w. \E i, j \in Nat :
         /\ Translated(req[th].prog, i) /\ Translated(req[th].prog, j)
         /\ attempt[th] = 1 => i = 0
         /\ f = Overlay(Overlay(base[c], SubSeq(req[th].prog, 1, i)), SubSeq(req[th].prog, 1, j))
         /\ x = SubSeq(req[th].prog, j + 1, Len(req[th].prog))
  BY <1>0, <1>c, CutNext
<1> HIDE DEF f, x
<1>1. Touched(c) /\ ~lastError'[c]
  BY <1>0, <1>p, <1>c, <1>f DEF Touched, Plain, IInv, Sound
<1>2. pc'[th] = "run" /\ regs'[c] = f /\ todo'[th] = x
  BY <1>0, <1>p DEF Plain
<1>3. Progress(th)'
  <2>1. Written(th)'
    BY <1>w, <1>0, <1>2, <1>c DEF Written
  <2> QED BY <2>1, <1>0 DEF Progress
<1>4. /\ pc' = [pc EXCEPT ![th] = q] /\ todo' = [todo EXCEPT ![th] = x]
      /\ got' = [got EXCEPT ![th] = y] /\ attempt' = [attempt EXCEPT ![th] = k]
  BY <1>0, Same
<1>5. UNCHANGED <<req, ans, holder, base, lastFailed, virtualVars>>
  BY <1>0
<1>6. Touched(req[th].conn) /\ ~lastError'[req[th].conn]
  BY <1>1, <1>c
<1> HIDE DEF q, y, k
<1> QED BY <1>q, <1>3, <1>4, <1>5, <1>6, InsideKept

\* The device sends what requests have left in the registers it does not change.
LEMMA SettledWords ==
    ASSUME NEW file, NEW now, NEW m, Avoids(m, DOMAIN now)
    PROVE  DeviceWords(file, now, m) = RegistersOf(file, m)
BY DEF DeviceWords, RegistersOf, Avoids

\* A reader leaves the registers as it found them.
LEMMA ReaderLeaves ==
    ASSUME IInv, NEW th \in Thread, pc[th] = "run", ~IsWrite(req[th])
    PROVE  regs[req[th].conn] = base[req[th].conn]
<1>c. PICK c \in Conn : c = req[th].conn
  BY Engaged
<1>p. Plain
  BY DEF IInv
<1>e. Written(th)
  BY DEF IInv, Progress, Inside
<1>b. regs[c] = base[c]
  <2>1. req[th].prog = <<>>
    <3>1. req[th] \in Requests
      BY Engaged
    <3> QED BY <3>1
        DEF Requests, IsWrite, ReadRequest, PreloadRequest, ExecuteRequest, SafeStateRequest
  <2>2. PICK i, j \in Nat :
          /\ Translated(<<>>, i) /\ Translated(<<>>, j)
          /\ regs[c] = Overlay(Overlay(base[c], SubSeq(<<>>, 1, i)), SubSeq(<<>>, 1, j))
    BY <1>e, <2>1, <1>c DEF Written
  <2>3. i = 0 /\ j = 0
    BY <2>2 DEF Translated
  <2>4. SubSeq(<<>>, 1, 0) = <<>>
    OBVIOUS
  <2>5. Overlay(base[c], <<>>) = base[c]
    <3>1. base[c] \in [Reg -> Words]
      BY <1>p, <1>c DEF Plain
    <3> QED BY <3>1, OverlayNothing
  <2> QED BY <2>2, <2>3, <2>4, <2>5
<1> QED BY <1>b, <1>c

\* A read request that succeeds.
LEMMA ReadSucceedsKeeps ==
    ASSUME IInv, Drifting, NEW th \in Thread, ReadSucceeds(th)
    PROVE  IInv'
<1> DEFINE q == "run"
           x == Tail(todo[th])
           k == attempt[th]
           m == req[th].maps
<1>c. PICK c \in Conn : c = req[th].conn
  BY Engaged DEF ReadSucceeds
<1> DEFINE e == DeviceWords(regs[c], live[c], Head(todo[th]))
           y == Append(got[th], e)
<1>0. /\ pc[th] = "run" /\ todo[th] # <<>> /\ ~IsWrite(req[th])
      /\ got' = [got EXCEPT ![th] = y] /\ todo' = [todo EXCEPT ![th] = x]
      /\ UNCHANGED <<connVars, virtualVars, pc, req, ans, attempt, base, lastFailed>>
  BY <1>c DEF ReadSucceeds, historyVars
<1>p. Plain
  BY DEF IInv
<1>q. q \in Inside /\ pc[th] \in Inside /\ k \in {1, 2}
  BY <1>0, <1>p DEF Inside, Plain
<1>e. /\ IsSeq(m) /\ Len(m) \in Nat /\ IsSeq(req[th].prog)
      /\ Written(th) /\ ReadSoFar(th)
  BY <1>0, <1>q, Engaged DEF IsSeq, IInv, Progress
<1>1. Touched(c) /\ ~lastError'[c]
  BY <1>0, <1>p, <1>c DEF Touched, Plain, IInv, Sound, connVars
<1>b. regs[c] = base[c]
  BY <1>0, <1>c, ReaderLeaves
<1>r. PICK n \in 0 .. Len(m) :
        /\ todo[th] = SubSeq(m, n + 1, Len(m))
        /\ IsSeq(got[th]) /\ Len(got[th]) = n
        /\ \A i \in 1 .. n : Avoids(m[i], Measured) => got[th][i] = RegistersOf(base[c], m[i])
  BY <1>e, <1>c DEF ReadSoFar
<1> HIDE DEF m
<1>n. n < Len(m) /\ n \in Nat
  BY <1>0, <1>e, <1>r, Rest
<1>t. Head(todo[th]) = m[n + 1] /\ x = SubSeq(m, (n + 1) + 1, Len(m))
  <2>1. n + 2 = (n + 1) + 1
    BY <1>n
  <2> QED BY <1>e, <1>r, <1>n, <2>1, Rest
<1>a. /\ IsSeq(y) /\ Len(y) = n + 1 /\ \A i \in 1 .. n : y[i] = got[th][i]
      /\ Avoids(m[n + 1], Measured) => y[n + 1] = RegistersOf(base[c], m[n + 1])
  <2>1. Avoids(m[n + 1], Measured) => e = RegistersOf(base[c], m[n + 1])
    <3>1. DOMAIN live[c] = Measured
      BY <1>c DEF Drifting
    <3> QED BY <3>1, <1>t, <1>b, SettledWords
  <2> HIDE DEF e
  <2> QED BY <2>1, <1>r, AppendSeq
<1> HIDE DEF x, y, e
<1>2. pc'[th] = "run" /\ got'[th] = y /\ todo'[th] = x
  BY <1>0, <1>p DEF Plain
<1>3. Progress(th)'
  <2>1. Written(th)'
    <3>1. pc[th] = "run" /\ ~IsWrite(req[th]) /\ Written(th)
      BY <1>0, <1>e
    <3> QED BY <3>1, <1>0 DEF Written, connVars
  <2>2. ReadSoFar(th)'
    <3>1. n + 1 \in 0 .. Len(m)
      BY <1>n, <1>e
    <3>2. \A i \in 1 .. n + 1 : Avoids(m[i], Measured) => y[i] = RegistersOf(base[c], m[i])
      <4> SUFFICES ASSUME NEW i \in 1 .. n + 1, Avoids(m[i], Measured)
                   PROVE  y[i] = RegistersOf(base[c], m[i])
        OBVIOUS
      <4>1. i \in 1 .. n \/ i = n + 1
        BY <1>n
      <4>2. i \in 1 .. n => y[i] = got[th][i] /\ got[th][i] = RegistersOf(base[c], m[i])
        BY <1>a, <1>r
      <4> QED BY <4>1, <4>2, <1>a
    <3>3. \E j \in 0 .. Len(m) :
            /\ x = SubSeq(m, j + 1, Len(m)) /\ IsSeq(y) /\ Len(y) = j
            /\ \A i \in 1 .. j : Avoids(m[i], Measured) => y[i] = RegistersOf(base[c], m[i])
      <4> WITNESS n + 1 \in 0 .. Len(m)
      <4> QED BY <1>t, <1>a, <3>2
    <3> QED BY <3>3, <1>0, <1>2, <1>c DEF ReadSoFar, m
  <2> QED BY <2>1, <2>2, <1>0 DEF Progress
<1>4. /\ pc' = [pc EXCEPT ![th] = q] /\ todo' = [todo EXCEPT ![th] = x]
      /\ got' = [got EXCEPT ![th] = y] /\ attempt' = [attempt EXCEPT ![th] = k]
  BY <1>0, Same
<1>5. UNCHANGED <<req, ans, holder, base, lastFailed, virtualVars>>
  BY <1>0 DEF connVars
<1>6. Touched(req[th].conn) /\ ~lastError'[req[th].conn]
  BY <1>1, <1>c
<1> HIDE DEF q, k
<1> QED BY <1>q, <1>3, <1>4, <1>5, <1>6, InsideKept

\* fn raised: the connection is given up, and the list starts over or the
\* operation ends.
LEMMA FnRaisesKept ==
    ASSUME IInv, NEW th \in Thread, pc[th] = "run", FnRaises(th), UNCHANGED virtualVars,
           regs' \in [Conn -> [Reg -> Words]],
           \A d \in Conn \ {req[th].conn} : regs'[d] = regs[d],
           Cut(th, regs'[req[th].conn]),
           ~IsWrite(req[th]) => regs' = regs
    PROVE  IInv'
<1>c. PICK c \in Conn : c = req[th].conn
  BY Engaged
<1> DEFINE r == req[th]
           q == "connect"
           k == 2
           x == WorkList(r)
           y == <<>>
           s == FailStatus(r)
<1>p. Plain
  BY DEF IInv
<1>0. /\ connected' = [connected EXCEPT ![c] = FALSE] /\ client' = [client EXCEPT ![c] = FALSE]
      /\ lastError' = [lastError EXCEPT ![c] = TRUE]
  BY <1>c DEF FnRaises
<1>1. Touched(c) /\ lastError'[c] /\ ~connected'[c]
  BY <1>0, <1>p, <1>c DEF Touched, Plain
<1>2. CASE attempt[th] # 1
  <2>1. Release(th, TRUE, Answer(s, FALSE, <<>>))
    BY <1>2 DEF FnRaises
  <2>2. s \in Statuses
    BY DEF FailStatus, Statuses
  <2> HIDE DEF s
  <2> QED BY <2>1, <2>2, <1>1, <1>c, ReleaseKept DEF Inside
<1>3. CASE attempt[th] = 1
  <2>0. /\ pc' = [pc EXCEPT ![th] = q] /\ attempt' = [attempt EXCEPT ![th] = k]
        /\ todo' = [todo EXCEPT ![th] = x] /\ got' = [got EXCEPT ![th] = y]
        /\ UNCHANGED <<holder, req, ans, base, lastFailed>>
    BY <1>3 DEF FnRaises, Goto, historyVars
  <2>1. pc'[th] = "connect" /\ attempt'[th] = 2 /\ todo'[th] = x /\ got'[th] = y
    BY <2>0, <1>p DEF Plain
  <2>e. /\ IsSeq(r.prog) /\ IsSeq(r.maps)
        /\ Len(r.prog) \in Nat /\ Len(r.maps) \in Nat
    BY Engaged DEF IsSeq
  <2>2. PICK i, j \in Nat :
          /\ Translated(r.prog, i) /\ Translated(r.prog, j) /\ i = 0
          /\ regs'[c] = Overlay(Overlay(base[c], SubSeq(r.prog, 1, i)), SubSeq(r.prog, 1, j))
    BY <1>3, <1>c DEF Cut
  <2>3. /\ Translated(r.prog, 0)
        /\ regs'[c] = Overlay(Overlay(base[c], SubSeq(r.prog, 1, j)), SubSeq(r.prog, 1, 0))
    <3> DEFINE p == r.prog
    <3>1. IsSeq(p) /\ regs'[c] = Overlay(Overlay(base[c], SubSeq(p, 1, 0)), SubSeq(p, 1, j))
      BY <2>e, <2>2
    <3> HIDE DEF p
    <3>2. /\ Translated(p, 0)
          /\ Overlay(Overlay(base[c], SubSeq(p, 1, 0)), SubSeq(p, 1, j)) = Overlay(base[c], SubSeq(p, 1, j))
          /\ Overlay(Overlay(base[c], SubSeq(p, 1, j)), SubSeq(p, 1, 0)) = Overlay(base[c], SubSeq(p, 1, j))
      BY <3>1, NoRun
    <3> QED BY <3>1, <3>2 DEF p
  <2>4. /\ IsWrite(r) => x = SubSeq(r.prog, 0 + 1, Len(r.prog))
        /\ ~IsWrite(r) => x = SubSeq(r.maps, 0 + 1, Len(r.maps))
    <3>1. 0 + 1 = 1
      OBVIOUS
    <3> QED BY <3>1, <2>e, Whole DEF WorkList
  <2>5. Written(th)'
    BY <2>0, <2>1, <2>2, <2>3, <2>4, <1>c DEF Written
  <2>6. ~IsWrite(r) => ReadSoFar(th)'
    <3>1. IsSeq(<<>>) /\ Len(<<>>) = 0 /\ 0 \in 0 .. Len(r.maps)
      BY <2>e DEF IsSeq
    <3> QED BY SMTT(20), <3>1, <2>0, <2>1, <2>4 DEF ReadSoFar
  <2>7. Progress(th)'
    BY <2>0, <2>5, <2>6 DEF Progress
  <2>8. /\ q \in Inside /\ pc[th] \in Inside /\ k \in {1, 2} /\ q # "run"
        /\ Touched(req[th].conn)
        /\ UNCHANGED <<req, ans, holder, base, lastFailed, virtualVars>>
    BY <1>1, <1>c, <2>0 DEF Inside
  <2> HIDE DEF q, k, x, y
  <2> QED BY <2>0, <2>7, <2>8, InsideKept
<1> QED BY <1>2, <1>3

\* A request that never reached the registers.
LEMMA IoFailsKeeps ==
    ASSUME IInv, NEW th \in Thread, IoFails(th)
    PROVE  IInv'
<1>1. pc[th] = "run" /\ FnRaises(th) /\ UNCHANGED virtualVars /\ regs' = regs
  BY DEF IoFails
<1>2. Cut(th, regs'[req[th].conn])
  BY <1>1, CutNow DEF Inside
<1>3. regs' \in [Conn -> [Reg -> Words]]
  BY <1>1 DEF IInv, Plain
<1> QED BY <1>1, <1>2, <1>3, FnRaisesKept

\* A write that landed while its response was lost.
LEMMA ResponseLostKeeps ==
    ASSUME IInv, NEW th \in Thread, ResponseLost(th)
    PROVE  IInv'
<1>c. PICK c \in Conn : c = req[th].conn
  BY Engaged DEF ResponseLost
<1> DEFINE f == ApplyWrite(regs[c], Head(todo[th]))
<1>1. /\ pc[th] = "run" /\ todo[th] # <<>> /\ IsWrite(req[th])
      /\ Head(todo[th]) # Raise /\ FitsWords(Head(todo[th]))
      /\ regs' = [regs EXCEPT ![c] = f] /\ FnRaises(th) /\ UNCHANGED virtualVars
  BY <1>c DEF ResponseLost, Land
<1>2. Cut(th, f)
  BY <1>1, <1>c, CutNext
<1>3. f \in [Reg -> Words]
  BY <1>1, WriteTyped DEF IInv, Plain
<1> HIDE DEF f
<1>4. regs' \in [Conn -> [Reg -> Words]] /\ regs'[c] = f /\ \A d \in Conn \ {c} : regs'[d] = regs[d]
  BY <1>1, <1>3 DEF IInv, Plain
<1> QED BY <1>1, <1>2, <1>4, <1>c, FnRaisesKept

-----------------------------------------------------------------------------
(* Requests, returns and crashes. *)

\* Where a request goes.
LEMMA Routes ==
    ASSUME NEW r
    PROVE  /\ Refusal(r) \in {"http_404", "http_500", "none"}
           /\ Refusal(r) # "none" => Route(r) = "done"
           /\ Refusal(r) = "none" => Route(r) \in {"preload", "lock", "v_write", "v_fetch"}
           /\ Refusal(r) = "none" /\ r.op = "preload" => Route(r) = "preload"
           /\ Route(r) = "preload" => r.op = "preload"
<1>1. Refusal(r) \in {"http_404", "http_500", "none"}
  BY DEF Refusal
<1> QED BY <1>1 DEF Route

\* A request arrives.
LEMMA RequestKeeps ==
    ASSUME IInv, NEW th \in Thread, Request(th)
    PROVE  IInv'
<1>r. PICK r \in Requests :
        /\ r.op = "preload" => PreloadsUsed < MaxPreload
        /\ req' = [req EXCEPT ![th] = r]
        /\ todo' = [todo EXCEPT ![th] = IF Refusal(r) = "none" THEN WorkList(r) ELSE <<>>]
        /\ ans' = [ans EXCEPT ![th] = IF Refusal(r) = "none" THEN NoAnswer
                                      ELSE Answer(Refusal(r), FALSE, <<>>)]
        /\ pc' = [pc EXCEPT ![th] = Route(r)]
  BY DEF Request, Goto
<1>0. /\ pc[th] = "idle"
      /\ UNCHANGED <<connVars, virtualVars, got, attempt, base, lastFailed>>
  BY DEF Request
<1>p. Plain
  BY DEF IInv
<1>s. Shape(th)
  BY DEF IInv
<1> DEFINE q == Route(r)
           z == IF Refusal(r) = "none" THEN NoAnswer ELSE Answer(Refusal(r), FALSE, <<>>)
           x == IF Refusal(r) = "none" THEN WorkList(r) ELSE <<>>
<1>q. /\ q \in Pc /\ q \notin Inside \cup {"idle", "v_read"}
      /\ q # "done" => Refusal(r) = "none"
      /\ q = "preload" => r.op = "preload"
  BY Routes DEF Pc, Inside
<1>z. IF q = "done" THEN z.status \in Statuses ELSE z = NoAnswer
  BY Routes DEF Answer, Statuses
<1>x. q = "lock" => x = WorkList(r)
  BY <1>q
<1>1. /\ pc' = [pc EXCEPT ![th] = q] /\ ans' = [ans EXCEPT ![th] = z]
      /\ todo' = [todo EXCEPT ![th] = x]
  BY <1>r
<1> HIDE DEF q, x, z
<1>2. Plain'
  <2>1. req' = [req EXCEPT ![th] = r]
    BY <1>r
  <2>2. req' \in [Thread -> Requests \cup {NoRequest}] /\ pc' \in [Thread -> Pc]
    BY <2>1, <1>p, <1>1, <1>q DEF Plain
  <2>3. todo' = [o \in Thread |-> todo'[o]] /\ ans' = [o \in Thread |-> ans'[o]]
    BY <1>p, <1>1 DEF Plain
  <2> QED BY <2>2, <2>3, <1>p, <1>0 DEF Plain, connVars
<1>3. Alone(th, {})
  BY <1>p, <1>0, <1>1, <1>r DEF Alone, Plain, connVars
<1>4. /\ pc'[th] = q /\ req'[th] = r /\ ans'[th] = z /\ todo'[th] = x
      /\ got'[th] = got[th] /\ attempt'[th] = attempt[th]
  BY <1>p, <1>0, <1>1, <1>r DEF Plain
<1>5. Shape(th)'
  <2>1. r # NoRequest
    BY RequestAssumption
  <2>2. got[th] = <<>> /\ attempt[th] = 1
    BY <1>0, <1>s DEF Shape, Inside
  <2> QED BY <2>1, <2>2, <1>4, <1>q, <1>z, <1>x DEF Shape
<1>6. Progress(th)' /\ Sound(th)'
  BY <1>4, <1>q DEF Progress, Sound, Inside
<1>7. \A d \in Conn : Lock(d, th)'
  <2> SUFFICES ASSUME NEW d \in Conn PROVE holder'[d] # th
    BY <1>4, <1>q DEF Lock
  <2> QED BY <1>0 DEF IInv, Lock, Inside, connVars
<1>8. Store'
  <2>1. IsSeq(runtimes') /\ Len(runtimes') = Len(runtimes) /\ current' = current
    BY <1>0 DEF virtualVars, IInv, Store
  <2>2. CASE q # "preload"
    BY <2>1, <2>2, <1>0, <1>1, StoreKept
  <2>3. CASE q = "preload"
    <3> DEFINE P == {o \in Thread : pc[o] = "preload"}
    <3>1. IsFiniteSet(P) /\ th \notin P /\ {o \in Thread : pc'[o] = "preload"} = P \cup {th}
      <4>1. P \subseteq Thread /\ IsFiniteSet(Thread)
        BY PlcAssumption
      <4>2. IsFiniteSet(P)
        <5> HIDE DEF P
        <5> QED BY <4>1, FS_Subset
      <4> QED BY <4>2, <1>0, <1>1, <1>p, <2>3 DEF Plain
    <3>2. PreloadsUsed = Len(runtimes) + Cardinality(P) /\ PreloadsUsed < MaxPreload
      BY <1>q, <1>r, <2>3 DEF PreloadsUsed
    <3>3. PreloadsUsed' = Len(runtimes) + Cardinality(P \cup {th})
      BY <3>1, <2>1 DEF PreloadsUsed
    <3> HIDE DEF P
    <3>4. Cardinality(P \cup {th}) = Cardinality(P) + 1 /\ Cardinality(P) \in Nat
      BY <3>1, FS_AddElement, FS_CardinalityType
    <3>5. PreloadsUsed' <= MaxPreload
      <4>1. Len(runtimes) \in Nat /\ MaxPreload \in Nat
        BY PlcAssumption DEF IInv, Store, IsSeq
      <4> QED BY <3>2, <3>3, <3>4, <4>1
    <3> QED BY <3>5, <2>1 DEF Store, IInv
  <2> QED BY <2>2, <2>3
<1> QED BY <1>2, <1>3, <1>5, <1>6, <1>7, <1>8, Combined

\* An answer is collected.
LEMMA ReturnKeeps ==
    ASSUME IInv, NEW th \in Thread, Return(th)
    PROVE  IInv'
<1> DEFINE z == NoAnswer
<1>0. /\ pc[th] = "done" /\ pc' = [pc EXCEPT ![th] = "idle"]
      /\ req' = [req EXCEPT ![th] = NoRequest] /\ ans' = [ans EXCEPT ![th] = z]
      /\ UNCHANGED <<connVars, virtualVars, todo, got, attempt, base, lastFailed>>
  BY DEF Return, Goto, localVars
<1>p. Plain
  BY DEF IInv
<1>s. Shape(th)
  BY DEF IInv
<1>z. z = NoAnswer
  OBVIOUS
<1> HIDE DEF z
<1>2. Plain'
  BY <1>p, <1>0 DEF Plain, connVars, Pc
<1>3. Alone(th, {})
  BY <1>p, <1>0 DEF Alone, Plain, connVars
<1>4. /\ pc'[th] = "idle" /\ req'[th] = NoRequest /\ ans'[th] = z
      /\ got'[th] = got[th] /\ attempt'[th] = attempt[th]
  BY <1>p, <1>0 DEF Plain
<1>5. Shape(th)'
  BY <1>0, <1>4, <1>s, <1>z DEF Shape, Inside
<1>6. Progress(th)' /\ Sound(th)'
  BY <1>4 DEF Progress, Sound, Inside
<1>7. \A d \in Conn : Lock(d, th)'
  <2> SUFFICES ASSUME NEW d \in Conn PROVE holder'[d] # th
    BY <1>4 DEF Lock, Inside
  <2> QED BY <1>0 DEF IInv, Lock, Inside, connVars
<1>8. Store'
  <2>1. IsSeq(runtimes') /\ Len(runtimes') = Len(runtimes) /\ current' = current
    BY <1>0 DEF virtualVars, IInv, Store
  <2>2. "idle" # "preload" /\ pc[th] # "preload"
    BY <1>0
  <2> QED BY <2>1, <2>2, <1>0, StoreKept
<1> QED BY <1>2, <1>3, <1>5, <1>6, <1>7, <1>8, Combined

\* A process that starts, for the first time or again.
Fresh ==
    /\ regs \in [Conn -> [Reg -> Words]] /\ base = [c \in Conn |-> ZeroRegs]
    /\ connected = [c \in Conn |-> FALSE] /\ client = [c \in Conn |-> FALSE]
    /\ lastError = [c \in Conn |-> FALSE] /\ lastFailed = [c \in Conn |-> FALSE]
    /\ holder = [c \in Conn |-> NoThread] /\ current = [a \in Asset |-> 0] /\ runtimes = <<>>
    /\ pc = [th \in Thread |-> "idle"] /\ req = [th \in Thread |-> NoRequest]
    /\ ans = [th \in Thread |-> NoAnswer] /\ todo = [th \in Thread |-> <<>>]
    /\ got = [th \in Thread |-> <<>>] /\ attempt = [th \in Thread |-> 1]

\* A process that has just started satisfies the invariant.
LEMMA FreshProcess == Fresh => IInv
<1> SUFFICES ASSUME Fresh PROVE IInv
  OBVIOUS
<1> USE DEF Fresh
<1>1. Plain
  BY ZeroIsWord DEF Plain, Pc
<1>2. Store
  <2>1. IsSeq(<<>>) /\ Len(<<>>) = 0
    BY DEF IsSeq
  <2>2. {o \in Thread : pc[o] = "preload"} = {} /\ runtimes = <<>>
    OBVIOUS
  <2>3. current \in [Asset -> 0 .. 0]
    OBVIOUS
  <2> HIDE DEF Fresh
  <2>4. PreloadsUsed = Len(<<>>) + Cardinality({})
    BY <2>2 DEF PreloadsUsed
  <2>5. PreloadsUsed = 0
    BY <2>1, <2>4, FS_EmptySet
  <2> QED BY <2>1, <2>2, <2>3, <2>5, PlcAssumption DEF Store
<1>3. ASSUME NEW th \in Thread PROVE Shape(th) /\ Progress(th) /\ Sound(th)
  <2> DEFINE z == NoAnswer
  <2>1. pc[th] = "idle" /\ req[th] = NoRequest /\ ans[th] = z /\ got[th] = <<>> /\ attempt[th] = 1
    OBVIOUS
  <2>2. z = NoAnswer
    OBVIOUS
  <2> HIDE DEF z
  <2> QED BY <2>1, <2>2 DEF Shape, Progress, Sound, Inside
<1>4. \A d \in Conn, o \in Thread : Lock(d, o)
  BY PlcAssumption DEF Lock, Inside
<1>5. \A c \in Conn : Flags(c)
  BY DEF Flags
<1> QED BY <1>1, <1>2, <1>3, <1>4, <1>5 DEF IInv

\* The same of the state after a step.
LEMMA FreshNext == Fresh' => IInv'
BY FreshProcess, PTL

\* The first start.
LEMMA InitKeeps == Init => IInv
<1>1. Init => Fresh
  BY ZeroIsWord DEF Init, Fresh
<1> QED BY <1>1, FreshProcess

\* A restart: the registers are all that is left.
LEMMA CrashKeeps ==
    ASSUME IInv, Crash
    PROVE  IInv'
<1>1. Fresh'
  BY DEF Crash, Fresh, IInv, Plain
<1> QED BY <1>1, FreshNext

\* Every step of the adapter keeps the invariant.
LEMMA IInvStep == IInv /\ Drifting /\ [Next]_vars => IInv'
<1> SUFFICES ASSUME IInv, Drifting, [Next]_vars PROVE IInv'
  OBVIOUS
<1>1. CASE Crash
  BY <1>1, CrashKeeps
<1>2. ASSUME NEW th \in Thread, Request(th) PROVE IInv'
  BY <1>2, RequestKeeps
<1>3. ASSUME NEW th \in Thread, Return(th) PROVE IInv'
  BY <1>3, ReturnKeeps
<1>4. ASSUME NEW th \in Thread, Acquire(th) PROVE IInv'
  BY <1>4, AcquireKeeps
<1>5. ASSUME NEW th \in Thread, Preload(th) PROVE IInv'
  BY <1>5, PreloadKeeps
<1>6. ASSUME NEW th \in Thread, PhysicalStep(th) PROVE IInv'
  BY <1>6, ConnectSucceedsKeeps, ConnectFailsKeeps, RunDoneKeeps, WriteSucceedsKeeps,
     ReadSucceedsKeeps, IoFailsKeeps, ResponseLostKeeps DEF PhysicalStep
<1>7. ASSUME NEW th \in Thread, VirtualStep(th) PROVE IInv'
  BY <1>7, VirtualKeeps
<1>8. CASE UNCHANGED vars \/ \E c \in Conn : Drift(c)
  <2>1. UNCHANGED <<regs, connected, client, lastError, holder, current, runtimes,
                    pc, req, ans, todo, got, attempt, base, lastFailed>>
    BY <1>8 DEF Drift, vars, connVars, virtualVars, callVars, localVars, historyVars
  <2>2. Plain' /\ Store'
    BY <2>1 DEF IInv, Plain, Store, PreloadsUsed
  <2>3. \A d \in Conn, o \in Thread : Lock(d, o)'
    BY <2>1 DEF IInv, Lock
  <2>4. ASSUME NEW th \in Thread PROVE Shape(th)' /\ Progress(th)' /\ Sound(th)'
    <3>1. Shape(th) /\ Progress(th) /\ Sound(th)
      BY DEF IInv
    <3>2. Shape(th)' /\ Sound(th)'
      BY <2>1, <3>1 DEF Shape, Sound
    <3>3. Written(th)' = Written(th) /\ ReadSoFar(th)' = ReadSoFar(th)
      BY <2>1 DEF Written, ReadSoFar
    <3> QED BY <2>1, <3>1, <3>2, <3>3 DEF Progress
  <2>5. \A c \in Conn : Flags(c)'
    BY <2>1 DEF IInv, Flags
  <2> QED BY <2>2, <2>3, <2>4, <2>5 DEF IInv
<1> QED BY <1>1, <1>2, <1>3, <1>4, <1>5, <1>6, <1>7, <1>8 DEF Next, Step

-----------------------------------------------------------------------------
(* What holds of the adapter. *)

\* What the device changes by itself stays 16-bit words.
LEMMA DriftingStep == Drifting /\ [Next]_vars => Drifting'
<1> SUFFICES ASSUME Drifting, [Next]_vars PROVE Drifting'
  OBVIOUS
<1>1. ASSUME NEW c, NEW w, Land(c, w), FitsWords(w) PROVE Drifting'
  <2>1. ASSUME c \in Conn PROVE ApplyWrite(live[c], w) \in [Measured -> Words]
    <3>1. live[c] \in [Measured -> Words]
      BY <2>1 DEF Drifting
    <3> QED BY <3>1, <1>1 DEF ApplyWrite, FitsWords, Covers, Words
  <2> QED BY <1>1, <2>1 DEF Land, Drifting
<1>2. ASSUME NEW c \in Conn, Drift(c) PROVE Drifting'
  BY <1>2, PlcAssumption DEF Drift, Drifting, Words
<1>3. ASSUME live' = live PROVE Drifting'
  BY <1>3 DEF Drifting
<1>4. ASSUME NEW th \in Thread, WriteSucceeds(th) \/ ResponseLost(th) PROVE Drifting'
  BY <1>1, <1>4 DEF WriteSucceeds, ResponseLost
<1>5. ASSUME NEW th \in Thread, Request(th) \/ Return(th) \/ Acquire(th) \/ Preload(th)
      PROVE  Drifting'
  BY <1>3, <1>5 DEF Request, Return, Acquire, Preload, connVars
<1>6. ASSUME NEW th \in Thread, PhysicalStep(th) PROVE Drifting'
  <2>1. CASE WriteSucceeds(th) \/ ResponseLost(th)
    BY <1>4, <2>1
  <2>2. CASE ConnectSucceeds(th) \/ ConnectFails(th)
    <3>1. live' = live
      BY <2>2 DEF ConnectSucceeds, ConnectFails
    <3> QED BY <1>3, <3>1
  <2>3. CASE RunDone(th) \/ ReadSucceeds(th) \/ IoFails(th)
    <3>1. live' = live
      BY <2>3 DEF RunDone, ReadSucceeds, IoFails, connVars
    <3> QED BY <1>3, <3>1
  <2> QED BY <1>6, <2>1, <2>2, <2>3 DEF PhysicalStep
<1>7. ASSUME NEW th \in Thread, VirtualStep(th) PROVE Drifting'
  <2>1. CASE VirtualFetch(th) \/ VirtualWord(th) \/ VirtualWriteEnds(th)
    <3>1. live' = live
      BY <2>1 DEF VirtualFetch, VirtualWord, VirtualWriteEnds, connVars
    <3> QED BY <1>3, <3>1
  <2>2. CASE ReadFetch(th) \/ VirtualReadWord(th) \/ VirtualReadEnds(th)
    <3>1. live' = live
      BY <2>2 DEF ReadFetch, VirtualReadWord, VirtualReadEnds, connVars
    <3> QED BY <1>3, <3>1
  <2> QED BY <1>7, <2>1, <2>2 DEF VirtualStep
<1>8. CASE Crash
  BY <1>3, <1>8 DEF Crash
<1>9. CASE UNCHANGED vars
  BY <1>3, <1>9 DEF vars, connVars
<1> QED BY <1>2, <1>5, <1>6, <1>7, <1>8, <1>9 DEF Next, Step

\* The device's first readings.
LEMMA DriftingInit == Init => Drifting
BY PlcAssumption DEF Init, Drifting, Words

\* The inductive invariant holds in every reachable state.
THEOREM PlcInvariant == Spec => [](IInv /\ Drifting)
BY InitKeeps, IInvStep, DriftingInit, DriftingStep, PTL DEF Spec

\* Device registers stay 16-bit words, preloads stay within their bound, and a
\* lock is held by the thread inside _run_with_recovery on that connection and
\* by nobody else.
THEOREM PlcTypeCorrect == Spec => []TypeOK
<1>1. IInv /\ Drifting => TypeOK
  <2> SUFFICES ASSUME IInv, Drifting PROVE TypeOK
    OBVIOUS
  <2>1. Len(runtimes) <= MaxPreload
    <3> DEFINE P == {o \in Thread : pc[o] = "preload"}
    <3>1. P \subseteq Thread /\ IsFiniteSet(Thread)
      BY PlcAssumption
    <3>2. PreloadsUsed = Len(runtimes) + Cardinality(P) /\ PreloadsUsed <= MaxPreload
      BY DEF PreloadsUsed, IInv, Store
    <3> HIDE DEF P
    <3>3. Cardinality(P) \in Nat
      BY <3>1, FS_Subset, FS_CardinalityType
    <3>4. Len(runtimes) \in Nat /\ MaxPreload \in Nat
      BY PlcAssumption DEF IInv, Store, IsSeq
    <3> QED BY <3>2, <3>3, <3>4
  <2> QED BY <2>1 DEF IInv, Drifting, Plain, Store, Lock, Inside, Words, TypeOK
<1> QED BY <1>1, PlcInvariant, PTL

\* While no operation is under way, get_health is DEGRADED exactly when the
\* last operation on some connection failed, and such a connection is one the
\* next operation reconnects.
THEOREM HealthTellsLastOutcomeHolds == Spec => []HealthTellsLastOutcome
<1>1. IInv => HealthTellsLastOutcome
  <2> SUFFICES ASSUME IInv, \A c \in Conn : holder[c] = NoThread
               PROVE  /\ Health = "DEGRADED" <=> \E c \in Conn : lastFailed[c]
                      /\ \A c \in Conn : lastFailed[c] => ~connected[c]
    BY DEF HealthTellsLastOutcome
  <2>1. \A c \in Conn : (lastError[c] <=> lastFailed[c]) /\ (lastFailed[c] => ~connected[c])
    BY DEF IInv, Flags
  <2>2. Health = "DEGRADED" <=> \E c \in Conn : lastError[c]
    BY DEF Health
  <2> QED BY <2>1, <2>2
<1> QED BY <1>1, PlcInvariant, PTL

-----------------------------------------------------------------------------
(* The refinement: the adapter implements AtomicPlc. *)

\* The specification's overlays and snapshots are the adapter's.
LEMMA SameOverlay ==
    ASSUME NEW file, NEW p
    PROVE  Abstract!Overlay(file, p) = Overlay(file, p)
<1>1. ASSUME NEW w, NEW r PROVE Abstract!Covers(w, r) <=> Covers(w, r)
  BY DEF Covers, Abstract!Covers
<1>2. ASSUME NEW f, NEW w PROVE Abstract!ApplyWrite(f, w) = ApplyWrite(f, w)
  BY <1>1 DEF ApplyWrite, Abstract!ApplyWrite
<1>3. ASSUME NEW S PROVE Abstract!Max(S) = Max(S)
  BY DEF Max, Abstract!Max
<1> QED BY <1>1, <1>2, <1>3 DEF Overlay, Abstract!Overlay

\* Both specifications decode a snapshot alike.
LEMMA SameSnapshot ==
    ASSUME NEW file, NEW maps
    PROVE  Abstract!Snapshot(file, maps) = Snapshot(file, maps)
<1>1. ASSUME NEW m PROVE Abstract!RegistersOf(file, m) = RegistersOf(file, m)
  BY DEF RegistersOf, Abstract!RegistersOf, RegisterCount, Abstract!RegisterCount
<1>2. ASSUME NEW ws, NEW m PROVE Abstract!DecodeRegisters(ws, m) = DecodeRegisters(ws, m)
  BY DEF DecodeRegisters, Abstract!DecodeRegisters, FloatOf, Abstract!FloatOf, Word, Abstract!Word
<1>3. ASSUME NEW S PROVE Abstract!Max(S) = Max(S)
  BY DEF Max, Abstract!Max
<1>4. ASSUME NEW f PROVE Abstract!MappingOf(maps, f) = MappingOf(maps, f)
  BY <1>3 DEF MappingOf, Abstract!MappingOf
<1>5. Abstract!Fields(maps) = Fields(maps)
  BY DEF Fields, Abstract!Fields, ToSet, Abstract!ToSet
<1> QED BY <1>1, <1>2, <1>4, <1>5 DEF Snapshot, Abstract!Snapshot

\* Both specifications make the same snapshot of the same words.
LEMMA SameDecoded ==
    ASSUME NEW words, NEW maps
    PROVE  /\ Abstract!Decoded(words, maps) = Decoded(words, maps)
           /\ Abstract!Fields(maps) = Fields(maps)
           /\ \A f : Abstract!MappingOf(maps, f) = MappingOf(maps, f)
<1>1. ASSUME NEW ws, NEW m PROVE Abstract!DecodeRegisters(ws, m) = DecodeRegisters(ws, m)
  BY DEF DecodeRegisters, Abstract!DecodeRegisters, FloatOf, Abstract!FloatOf, Word, Abstract!Word
<1>2. ASSUME NEW S PROVE Abstract!Max(S) = Max(S)
  BY DEF Max, Abstract!Max
<1>3. ASSUME NEW f PROVE Abstract!MappingOf(maps, f) = MappingOf(maps, f)
  BY <1>2 DEF MappingOf, Abstract!MappingOf
<1>4. Abstract!Fields(maps) = Fields(maps)
  BY DEF Fields, Abstract!Fields, ToSet, Abstract!ToSet
<1>5. Abstract!Decoded(words, maps) = Decoded(words, maps)
  BY <1>1, <1>3, <1>4 DEF Decoded, Abstract!Decoded
<1> QED BY <1>3, <1>4, <1>5

\* What the device sends is the same word in both.
LEMMA SameWords ==
    ASSUME NEW m
    PROVE  /\ \A file, now : Abstract!DeviceWords(file, now, m) = DeviceWords(file, now, m)
           /\ \A S : Abstract!Avoids(m, S) <=> Avoids(m, S)
<1>1. Abstract!RegisterCount(m) = RegisterCount(m)
  BY DEF RegisterCount, Abstract!RegisterCount
<1>2. ASSUME NEW file, NEW now
      PROVE  Abstract!DeviceWords(file, now, m) = DeviceWords(file, now, m)
  BY <1>1 DEF DeviceWords, Abstract!DeviceWords
<1>3. ASSUME NEW S PROVE Abstract!Avoids(m, S) <=> Avoids(m, S)
  BY <1>1 DEF Avoids, Abstract!Avoids
<1> QED BY <1>2, <1>3

\* What a thread has been sent, as the specification sees it.
LEMMA SensedMoves ==
    ASSUME NEW th \in Thread,
           \A o \in Thread \ {th} : pc'[o] = pc[o] /\ req'[o] = req[o] /\ got'[o] = got[o]
    PROVE  /\ Sensed[th] = IF pc[th] = "run" /\ ~IsWrite(req[th]) THEN got[th] ELSE <<>>
           /\ Sensed'[th] = IF pc'[th] = "run" /\ ~IsWrite(req'[th]) THEN got'[th] ELSE <<>>
           /\ \A o \in Thread \ {th} : Sensed'[o] = Sensed[o]
           /\ Sensed'[th] = Sensed[th] => Sensed' = Sensed
<1>1. /\ Sensed = [o \in Thread |-> IF pc[o] = "run" /\ ~IsWrite(req[o]) THEN got[o] ELSE <<>>]
      /\ Sensed' = [o \in Thread |-> IF pc'[o] = "run" /\ ~IsWrite(req'[o]) THEN got'[o] ELSE <<>>]
  BY DEF Sensed, IsWrite
<1>2. \A o \in Thread \ {th} : Sensed'[o] = Sensed[o]
  BY <1>1
<1>3. ASSUME Sensed'[th] = Sensed[th] PROVE Sensed' = Sensed
  <2>1. \A o \in Thread : Sensed'[o] = Sensed[o]
    BY <1>2, <1>3
  <2>2. DOMAIN Sensed = Thread /\ DOMAIN Sensed' = Thread
    BY <1>1
  <2>3. Sensed = [o \in Thread |-> Sensed[o]] /\ Sensed' = [o \in Thread |-> Sensed'[o]]
    BY <1>1, <2>2
  <2> HIDE DEF Sensed
  <2> QED BY <2>1, <2>3
<1> QED BY <1>1, <1>2, <1>3

\* It changes only with the thread's place, request and words.
LEMMA SensedSame ==
    ASSUME UNCHANGED <<pc, req, got>>
    PROVE  Sensed' = Sensed
BY DEF Sensed

\* A thread that answers has nothing left of what it was sent.
LEMMA SensedAnswered ==
    ASSUME IInv, NEW th \in Thread, NEW z, Reply(th, z)
    PROVE  /\ Sensed'[th] = <<>>
           /\ \A o \in Thread \ {th} : Sensed'[o] = Sensed[o]
<1>1. pc' = [pc EXCEPT ![th] = "done"] /\ got' = [got EXCEPT ![th] = <<>>] /\ req' = req
  BY DEF Reply, Goto
<1>2. /\ pc'[th] = "done"
      /\ \A o \in Thread \ {th} : pc'[o] = pc[o] /\ req'[o] = req[o] /\ got'[o] = got[o]
  BY <1>1 DEF IInv, Plain
<1> QED BY <1>2, SensedMoves

\* A holder's cut-off runs, as the specification sees them.
LEMMA CutSeen ==
    ASSUME IInv, NEW th \in Thread, pc[th] \in Inside, NEW file, Cut(th, file)
    PROVE  Abstract!CutShort(VisibleRegs[req[th].conn], req[th].prog, file)
<1> DEFINE p == req[th].prog
           c == req[th].conn
           b == base[c]
<1>1. c \in Conn /\ holder[c] = th /\ th # NoThread
  BY Engaged, PlcAssumption DEF Inside
<1>2. VisibleRegs[c] = b
  BY <1>1 DEF VisibleRegs
<1>3. PICK i, j \in Nat :
        /\ Translated(p, i) /\ Translated(p, j)
        /\ file = Overlay(Overlay(b, SubSeq(p, 1, i)), SubSeq(p, 1, j))
  BY DEF Cut
<1> HIDE DEF p, c, b
<1>4. SubSeq(p, 1, i) \in Abstract!Runs(p) /\ SubSeq(p, 1, j) \in Abstract!Runs(p)
  BY <1>3 DEF Translated, Abstract!Runs, Abstract!Raise, Raise
<1>5. file = Abstract!Overlay(Abstract!Overlay(b, SubSeq(p, 1, i)), SubSeq(p, 1, j))
  BY <1>3, SameOverlay
<1> QED BY <1>2, <1>4, <1>5 DEF Abstract!CutShort, p, c

\* A request that is being served waits for its answer.
LEMMA IsWaiting ==
    ASSUME IInv, NEW th \in Thread, pc[th] \notin {"idle", "done"}
    PROVE  Abstract!Waiting(th)
<1>1. Shape(th)
  BY DEF IInv
<1> DEFINE z == NoAnswer
<1>2. req[th] # NoRequest /\ ans[th] = z
  BY <1>1 DEF Shape
<1> HIDE DEF z
<1> QED BY <1>2 DEF Abstract!Waiting, z

\* What happens behind a held lock is not seen.
LEMMA Hidden ==
    ASSUME IInv, NEW th \in Thread, pc[th] \in Inside,
           UNCHANGED <<holder, base>>,
           \A d \in Conn \ {req[th].conn} : regs'[d] = regs[d]
    PROVE  VisibleRegs' = VisibleRegs
<1> DEFINE c == req[th].conn
<1>1. c \in Conn /\ holder[c] = th /\ th # NoThread
  BY Engaged, PlcAssumption DEF Inside
<1>2. ASSUME NEW d \in Conn
      PROVE  (IF holder'[d] = NoThread THEN regs'[d] ELSE base'[d])
               = (IF holder[d] = NoThread THEN regs[d] ELSE base[d])
  BY <1>1
<1> QED BY <1>2 DEF VisibleRegs

\* A release shows the registers the holder leaves.
LEMMA Shown ==
    ASSUME IInv, NEW th \in Thread, pc[th] \in Inside, NEW failed, NEW z,
           Release(th, failed, z),
           \A d \in Conn \ {req[th].conn} : regs'[d] = regs[d]
    PROVE  \E c \in Conn :
              /\ c = req[th].conn /\ VisibleRegs[c] = base[c] /\ VisibleRegs'[c] = regs'[c]
              /\ \A d \in Conn \ {c} : VisibleRegs'[d] = VisibleRegs[d]
              /\ req' = req /\ ans'[th] = z /\ Sensed'[th] = <<>>
              /\ \A o \in Thread \ {th} : ans'[o] = ans[o] /\ Sensed'[o] = Sensed[o]
<1>c. PICK c \in Conn : c = req[th].conn
  BY Engaged DEF Inside
<1>1. holder[c] = th /\ th # NoThread
  BY <1>c, Engaged, PlcAssumption DEF Inside
<1>2. /\ holder' = [holder EXCEPT ![c] = NoThread] /\ base' = [base EXCEPT ![c] = ZeroRegs]
      /\ req' = req /\ ans' = [ans EXCEPT ![th] = z]
  BY <1>c DEF Release, Reply
<1>3. /\ holder'[c] = NoThread /\ \A d \in Conn \ {c} : holder'[d] = holder[d] /\ base'[d] = base[d]
      /\ ans'[th] = z /\ \A o \in Thread \ {th} : ans'[o] = ans[o]
  BY <1>2 DEF IInv, Plain
<1>4. /\ VisibleRegs = [d \in Conn |-> IF holder[d] = NoThread THEN regs[d] ELSE base[d]]
      /\ VisibleRegs' = [d \in Conn |-> IF holder'[d] = NoThread THEN regs'[d] ELSE base'[d]]
  BY DEF VisibleRegs
<1>5. \A d \in Conn \ {c} : regs'[d] = regs[d]
  BY <1>c
<1>6. /\ VisibleRegs[c] = base[c] /\ VisibleRegs'[c] = regs'[c]
      /\ \A d \in Conn \ {c} : VisibleRegs'[d] = VisibleRegs[d]
  BY <1>1, <1>3, <1>4, <1>5
<1>7. Sensed'[th] = <<>> /\ \A o \in Thread \ {th} : Sensed'[o] = Sensed[o]
  BY SensedAnswered DEF Release
<1> QED BY <1>c, <1>2, <1>3, <1>6, <1>7

\* An operation that ends in an error is a Failed step.
LEMMA FailedSeen ==
    ASSUME IInv, NEW th \in Thread, pc[th] \in Inside, NEW s \in Statuses, s # "ok",
           Release(th, TRUE, Answer(s, FALSE, <<>>)),
           \A d \in Conn \ {req[th].conn} : regs'[d] = regs[d],
           Cut(th, regs'[req[th].conn])
    PROVE  Abstract!Next
<1> DEFINE z == Answer(s, FALSE, <<>>)
           none == NoAnswer
<1>1. z.status = s /\ ~z.virtual /\ z # none
  BY DEF Answer, NoAnswer, Statuses
<1>c. PICK c \in Conn :
        /\ c = req[th].conn /\ VisibleRegs'[c] = regs'[c]
        /\ \A d \in Conn \ {c} : VisibleRegs'[d] = VisibleRegs[d]
        /\ req' = req /\ ans'[th] = z /\ Sensed'[th] = <<>>
        /\ \A o \in Thread \ {th} : ans'[o] = ans[o] /\ Sensed'[o] = Sensed[o]
  <2> DEFINE t == TRUE
  <2>1. Release(th, t, z)
    OBVIOUS
  <2> HIDE DEF z, t
  <2> QED BY <2>1, Shown
<1>3. Abstract!CutShort(VisibleRegs[c], req[th].prog, VisibleRegs'[c])
  BY <1>c, CutSeen
<1>4. Abstract!Waiting(th)
  BY IsWaiting DEF Inside
<1> HIDE DEF z
<1>5. Abstract!Answers(th)
  BY <1>1, <1>c, <1>4 DEF Abstract!Answers
<1>6. Abstract!Failed(th) /\ Abstract!Others(th)
  BY <1>c, <1>1, <1>3, <1>5 DEF Abstract!Failed, Abstract!Others
<1> QED BY <1>6, <1>c DEF Abstract!Next

\* A write has no mappings to read and a read has no actions.
LEMMA Kinds ==
    ASSUME NEW r \in Requests
    PROVE  /\ IsWrite(r) => r.maps = <<>>
           /\ ~IsWrite(r) => r.prog = <<>>
<1>1. PICK a \in Asset :
        \/ r = ReadRequest(a) \/ r = SafeStateRequest(a)
        \/ \E s \in ActionSequences[a] : r = ExecuteRequest(a, s)
        \/ \E p \in Preloads[a] : r = PreloadRequest(a, p)
  BY DEF Requests
<1>2. CASE r = ReadRequest(a)
  BY <1>2 DEF ReadRequest, IsWrite
<1>3. CASE r = SafeStateRequest(a)
  BY <1>3 DEF SafeStateRequest, IsWrite
<1>4. CASE \E s \in ActionSequences[a] : r = ExecuteRequest(a, s)
  BY <1>4 DEF ExecuteRequest, IsWrite
<1>5. CASE \E p \in Preloads[a] : r = PreloadRequest(a, p)
  BY <1>5 DEF PreloadRequest, IsWrite
<1> QED BY <1>1, <1>2, <1>3, <1>4, <1>5

\* The mapping that decides a field is one of the list.
LEMMA Decided ==
    ASSUME NEW maps, IsSeq(maps), NEW f \in {m.field : m \in ToSet(maps)}
    PROVE  MappingOf(maps, f) \in 1 .. Len(maps)
<1> DEFINE S == {i \in DOMAIN maps : maps[i].field = f}
<1>1. Len(maps) \in Nat /\ DOMAIN maps = 1 .. Len(maps)
  BY DEF IsSeq
<1>2. S \in SUBSET (1 .. Len(maps))
  BY <1>1
<1>3. S # {}
  BY DEF ToSet
<1>4. MappingOf(maps, f) = Max(S)
  BY DEF MappingOf
<1> HIDE DEF S
<1>5. Max(S) \in S
  BY <1>1, <1>2, <1>3, LastPosition
<1> QED BY <1>2, <1>4, <1>5

\* A run that has come to the end of its list leaves what the list says.
LEMMA RunComplete ==
    ASSUME IInv, NEW th \in Thread, pc[th] = "run", todo[th] = <<>>
    PROVE  regs[req[th].conn] = Overlay(base[req[th].conn], req[th].prog)
<1> DEFINE p == req[th].prog
           c == req[th].conn
           b == base[c]
<1>1. IsSeq(p) /\ Len(p) \in Nat /\ req[th] \in Requests
  BY Engaged DEF IsSeq
<1>2. Written(th)
  BY DEF IInv, Progress, Inside
<1>3. PICK i, j \in Nat :
        /\ Translated(p, i) /\ Translated(p, j)
        /\ regs[c] = Overlay(Overlay(b, SubSeq(p, 1, i)), SubSeq(p, 1, j))
        /\ IsWrite(req[th]) => todo[th] = SubSeq(p, j + 1, Len(p))
  BY <1>2 DEF Written
<1>4. i \in 0 .. Len(p) /\ j \in 0 .. Len(p)
  BY <1>3 DEF Translated
<1>5. j = Len(p)
  <2>1. CASE IsWrite(req[th])
    <3> HIDE DEF p
    <3> QED BY <2>1, <1>1, <1>3, <1>4, Rest
  <2>2. CASE ~IsWrite(req[th])
    <3>1. p = <<>>
      BY <2>2, <1>1, Kinds
    <3> QED BY <3>1, <1>4
  <2> QED BY <2>1, <2>2
<1> HIDE DEF p, c, b
<1>6. SubSeq(p, 1, j) = p
  BY <1>1, <1>5, Whole
<1>7. regs[c] = Overlay(b, p)
  BY <1>1, <1>3, <1>4, <1>6, OverlayAgain
<1> QED BY <1>7 DEF p, c, b

\* What a reader has at the end of its list: a word for every mapping, those of
\* the registers the device does not change as they were when the lock was taken.
LEMMA ReadComplete ==
    ASSUME IInv, NEW th \in Thread, pc[th] = "run", todo[th] = <<>>
    PROVE  LET maps == req[th].maps
               words == IF IsWrite(req[th]) THEN <<>> ELSE got[th]
           IN  /\ Len(words) = Len(maps)
               /\ \A f \in Fields(maps) :
                    LET i == MappingOf(maps, f)
                    IN  /\ words[i] = got[th][i]
                        /\ Avoids(maps[i], Measured)
                             => words[i] = RegistersOf(base[req[th].conn], maps[i])
<1> DEFINE maps == req[th].maps
           words == IF IsWrite(req[th]) THEN <<>> ELSE got[th]
           b == base[req[th].conn]
<1>1. IsSeq(maps) /\ Len(maps) \in Nat /\ req[th] \in Requests
  BY Engaged DEF IsSeq
<1>2. CASE IsWrite(req[th])
  <2>1. maps = <<>> /\ words = <<>>
    BY <1>1, <1>2, Kinds
  <2>2. Fields(maps) = {}
    BY <2>1 DEF Fields, ToSet
  <2> QED BY <2>1, <2>2
<1>3. CASE ~IsWrite(req[th])
  <2>1. words = got[th]
    BY <1>3
  <2>2. ReadSoFar(th)
    BY <1>3 DEF IInv, Progress, Inside
  <2>3. PICK n \in 0 .. Len(maps) :
          /\ todo[th] = SubSeq(maps, n + 1, Len(maps)) /\ Len(got[th]) = n
          /\ \A k \in 1 .. n : Avoids(maps[k], Measured) => got[th][k] = RegistersOf(b, maps[k])
    BY <2>2 DEF ReadSoFar
  <2> HIDE DEF maps, words, b
  <2>4. n = Len(maps)
    BY <1>1, <2>3, Rest
  <2>5. \A f \in Fields(maps) : MappingOf(maps, f) \in 1 .. Len(maps)
    BY <1>1, Decided DEF Fields
  <2>6. /\ Len(words) = Len(maps)
        /\ \A f \in Fields(maps) :
             LET i == MappingOf(maps, f)
             IN  /\ words[i] = got[th][i]
                 /\ Avoids(maps[i], Measured) => words[i] = RegistersOf(b, maps[i])
    BY <2>1, <2>3, <2>4, <2>5
  <2> QED BY <2>6 DEF maps, words, b
<1> QED BY <1>2, <1>3

\* A run that ends is a Done step.
LEMMA RunDoneSeen ==
    ASSUME IInv, NEW th \in Thread, RunDone(th)
    PROVE  Abstract!Next
<1> DEFINE maps == req[th].maps
           snap == Decoded(got[th], maps)
           words == IF IsWrite(req[th]) THEN <<>> ELSE got[th]
           z == Answer("ok", FALSE, snap)
           none == NoAnswer
           t == FALSE
<1>0. /\ pc[th] = "run" /\ todo[th] = <<>> /\ Release(th, t, z) /\ regs' = regs
  BY DEF RunDone
<1>w. /\ Len(words) = Len(maps)
      /\ \A f \in Fields(maps) :
           LET i == MappingOf(maps, f)
           IN  /\ words[i] = got[th][i]
               /\ Avoids(maps[i], Measured) => words[i] = RegistersOf(base[req[th].conn], maps[i])
  BY <1>0, ReadComplete
<1>s. Sensed[th] = words
  BY <1>0 DEF Sensed
<1> HIDE DEF words, maps
<1>1. snap = Decoded(words, maps)
  BY <1>w DEF Decoded
<1>m. \A f \in Fields(maps) : Avoids(maps[MappingOf(maps, f)], Measured)
        => snap[f] = Snapshot(base[req[th].conn], maps)[f]
  <2> SUFFICES ASSUME NEW f \in Fields(maps), Avoids(maps[MappingOf(maps, f)], Measured)
               PROVE  snap[f] = Snapshot(base[req[th].conn], maps)[f]
    OBVIOUS
  <2> DEFINE i == MappingOf(maps, f)
             b == base[req[th].conn]
  <2>1. got[th][i] = RegistersOf(b, maps[i])
    BY <1>w
  <2>2. snap[f] = DecodeRegisters(got[th][i], maps[i])
    BY DEF Decoded
  <2>3. Snapshot(b, maps)[f] = DecodeRegisters(RegistersOf(b, maps[i]), maps[i])
    BY DEF Snapshot
  <2> HIDE DEF i, b, snap
  <2> QED BY <2>1, <2>2, <2>3 DEF b
<1> HIDE DEF snap
<1>2. z.status = "ok" /\ ~z.virtual /\ z # none /\ z.snapshot = snap
  BY DEF Answer, NoAnswer
<1> HIDE DEF z, t, none
<1>c. PICK c \in Conn :
        /\ c = req[th].conn /\ VisibleRegs[c] = base[c] /\ VisibleRegs'[c] = regs'[c]
        /\ \A d \in Conn \ {c} : VisibleRegs'[d] = VisibleRegs[d]
        /\ req' = req /\ ans'[th] = z /\ Sensed'[th] = <<>>
        /\ \A o \in Thread \ {th} : ans'[o] = ans[o] /\ Sensed'[o] = Sensed[o]
  <2>1. pc[th] \in Inside /\ \A d \in Conn \ {req[th].conn} : regs'[d] = regs[d]
    BY <1>0 DEF Inside
  <2> QED BY <2>1, <1>0, Shown
<1>3. VisibleRegs'[c] = Abstract!Overlay(VisibleRegs[c], req[th].prog)
  BY <1>c, <1>0, RunComplete, SameOverlay
<1>4. /\ Len(Sensed[th]) = Len(maps)
      /\ z.snapshot = Abstract!Decoded(Sensed[th], maps)
      /\ \A f \in Abstract!Fields(maps) :
           Abstract!Avoids(maps[Abstract!MappingOf(maps, f)], Measured)
             => z.snapshot[f] = Abstract!Snapshot(VisibleRegs[c], maps)[f]
  <2>1. Len(Sensed[th]) = Len(maps) /\ z.snapshot = Abstract!Decoded(Sensed[th], maps)
    BY <1>1, <1>2, <1>s, <1>w, SameDecoded
  <2>2. ASSUME NEW f \in Abstract!Fields(maps),
               Abstract!Avoids(maps[Abstract!MappingOf(maps, f)], Measured)
        PROVE  z.snapshot[f] = Abstract!Snapshot(VisibleRegs[c], maps)[f]
    <3>1. f \in Fields(maps) /\ Abstract!MappingOf(maps, f) = MappingOf(maps, f)
      BY <2>2, SameDecoded
    <3>2. Avoids(maps[MappingOf(maps, f)], Measured)
      BY <2>2, <3>1, SameWords
    <3>3. snap[f] = Snapshot(base[c], maps)[f]
      BY <3>1, <3>2, <1>m, <1>c
    <3>4. Abstract!Snapshot(VisibleRegs[c], maps) = Snapshot(base[c], maps)
      BY <1>c, SameSnapshot
    <3> QED BY <1>2, <3>3, <3>4
  <2> QED BY <2>1, <2>2
<1>5. Abstract!Answers(th)
  <2>1. Abstract!Waiting(th)
    BY <1>0, IsWaiting
  <2> QED BY <1>2, <1>c, <2>1 DEF Abstract!Answers, none
<1>6. Abstract!Done(th) /\ Abstract!Others(th)
  BY <1>c, <1>2, <1>3, <1>4, <1>5 DEF Abstract!Done, Abstract!Others, maps
<1> QED BY <1>6, <1>c DEF Abstract!Next

\* The device sends the words of the next mapping: a Sense step.
LEMMA SenseSeen ==
    ASSUME IInv, NEW th \in Thread, ReadSucceeds(th)
    PROVE  Abstract!Next
<1> DEFINE m == req[th].maps
<1>c. PICK c \in Conn : c = req[th].conn
  BY Engaged DEF ReadSucceeds
<1> DEFINE e == DeviceWords(regs[c], live[c], Head(todo[th]))
<1>0. /\ pc[th] = "run" /\ todo[th] # <<>> /\ ~IsWrite(req[th])
      /\ got' = [got EXCEPT ![th] = Append(got[th], e)]
      /\ UNCHANGED <<regs, holder, base, pc, req, ans>>
  BY <1>c DEF ReadSucceeds, connVars, historyVars
<1>1. IsSeq(m) /\ Len(m) \in Nat
  BY <1>0, Engaged DEF IsSeq
<1>2. ReadSoFar(th)
  BY <1>0 DEF IInv, Progress, Inside
<1>3. PICK n \in 0 .. Len(m) : todo[th] = SubSeq(m, n + 1, Len(m)) /\ Len(got[th]) = n
  BY <1>2 DEF ReadSoFar
<1> HIDE DEF m
<1>4. n < Len(m) /\ n \in Nat
  BY <1>0, <1>1, <1>3, Rest
<1>5. Head(todo[th]) = m[n + 1]
  BY <1>1, <1>3, <1>4, Rest
<1>6. VisibleRegs[c] = regs[c]
  <2>1. regs[c] = base[c]
    BY <1>0, <1>c, ReaderLeaves
  <2> QED BY <2>1 DEF VisibleRegs
<1>7. e = Abstract!DeviceWords(VisibleRegs[c], live[c], m[n + 1])
  BY <1>5, <1>6, SameWords
<1> HIDE DEF e
<1>8. /\ got'[th] = Append(got[th], e)
      /\ \A o \in Thread \ {th} : pc'[o] = pc[o] /\ req'[o] = req[o] /\ got'[o] = got[o]
  BY <1>0 DEF IInv, Plain
<1>9. /\ Sensed[th] = got[th] /\ Sensed'[th] = Append(Sensed[th], e)
      /\ \A o \in Thread \ {th} : Sensed'[o] = Sensed[o]
  BY <1>0, <1>8, SensedMoves
<1>v. VisibleRegs' = VisibleRegs
  BY <1>0 DEF VisibleRegs
<1>a. Abstract!Waiting(th)
  BY <1>0, IsWaiting
<1>b. Abstract!Sense(th)
  <2>1. Len(Sensed[th]) = n /\ req[th].conn = c /\ req[th].maps = m
    BY <1>3, <1>9, <1>c DEF m
  <2>2. Sensed'[th] = Append(Sensed[th],
          Abstract!DeviceWords(VisibleRegs[c], live[c], m[Len(Sensed[th]) + 1]))
    BY <1>7, <1>9, <2>1
  <2> QED BY <1>0, <1>4, <1>a, <1>v, <2>1, <2>2 DEF Abstract!Sense
<1>d. Abstract!Others(th)
  BY <1>0, <1>9 DEF Abstract!Others
<1> QED BY <1>b, <1>d DEF Abstract!Next

\* Nothing of the devices is seen to change when no connection is touched.
LEMMA Untouched ==
    ASSUME UNCHANGED <<regs, holder, base>>
    PROVE  VisibleRegs' = VisibleRegs
BY DEF VisibleRegs

\* An exception is a StartOver step when the operation is tried again, and a
\* Failed step when it is not.
LEMMA FnRaisesSeen ==
    ASSUME IInv, NEW th \in Thread, pc[th] = "run", FnRaises(th),
           \A d \in Conn \ {req[th].conn} : regs'[d] = regs[d],
           Cut(th, regs'[req[th].conn])
    PROVE  Abstract!Next
<1> DEFINE s == FailStatus(req[th])
<1>0. pc[th] \in Inside
  BY DEF Inside
<1>1. CASE attempt[th] = 1
  <2>1. /\ pc' = [pc EXCEPT ![th] = "connect"] /\ got' = [got EXCEPT ![th] = <<>>]
        /\ UNCHANGED <<req, ans, holder, base>>
    BY <1>1 DEF FnRaises, Goto, historyVars
  <2>2. VisibleRegs' = VisibleRegs
    BY <1>0, <2>1, Hidden
  <2>3. /\ pc'[th] = "connect"
        /\ \A o \in Thread \ {th} : pc'[o] = pc[o] /\ req'[o] = req[o] /\ got'[o] = got[o]
    BY <2>1 DEF IInv, Plain
  <2>4. Sensed'[th] = <<>> /\ \A o \in Thread \ {th} : Sensed'[o] = Sensed[o]
    BY <2>3, SensedMoves
  <2>5. Abstract!Waiting(th)
    BY IsWaiting
  <2>6. Abstract!StartOver(th) /\ Abstract!Others(th)
    BY <2>1, <2>2, <2>4, <2>5 DEF Abstract!StartOver, Abstract!Others
  <2> QED BY <2>4, <2>6 DEF Abstract!Next
<1>2. CASE attempt[th] # 1
  <2>1. Release(th, TRUE, Answer(s, FALSE, <<>>))
    BY <1>2 DEF FnRaises
  <2>2. s \in Statuses /\ s # "ok"
    BY DEF FailStatus, Statuses
  <2> HIDE DEF s
  <2> QED BY <1>0, <2>1, <2>2, FailedSeen
<1> QED BY <1>1, <1>2

\* What the abstract device sees of a step on a connection.
LEMMA PhysicalSeen ==
    ASSUME IInv, NEW th \in Thread, PhysicalStep(th)
    PROVE  Abstract!Next \/ UNCHANGED Abstract!avars
<1>1. CASE ConnectSucceeds(th)
  <2>1. /\ pc[th] = "connect" /\ pc' = [pc EXCEPT ![th] = "run"]
        /\ UNCHANGED <<req, ans, got, holder, base, regs>>
    BY <1>1 DEF ConnectSucceeds, Goto, historyVars, localVars
  <2>2. VisibleRegs' = VisibleRegs
    BY <2>1, Hidden DEF Inside
  <2>3. ~IsWrite(req[th]) => got[th] = <<>>
    <3>1. ASSUME ~IsWrite(req[th]) PROVE IsSeq(got[th]) /\ Len(got[th]) = 0
      <4>1. ReadSoFar(th)
        BY <2>1, <3>1 DEF IInv, Progress, Inside
      <4> QED BY <2>1, <4>1 DEF ReadSoFar
    <3> QED BY <3>1 DEF IsSeq
  <2>4. \A o \in Thread \ {th} : pc'[o] = pc[o] /\ req'[o] = req[o] /\ got'[o] = got[o]
    BY <2>1 DEF IInv, Plain
  <2>5. Sensed' = Sensed
    <3>1. Sensed[th] = <<>>
      BY <2>1, <2>4, SensedMoves
    <3>2. Sensed'[th] = <<>>
      BY <2>1, <2>3, <2>4, SensedMoves
    <3> QED BY <3>1, <3>2, <2>4, SensedMoves
  <2> QED BY <2>1, <2>2, <2>5 DEF Abstract!avars
<1>2. CASE ConnectFails(th)
  <2> DEFINE s == FailStatus(req[th])
  <2>1. pc[th] \in Inside /\ Release(th, TRUE, Answer(s, FALSE, <<>>)) /\ regs' = regs
    BY <1>2 DEF ConnectFails, Inside
  <2>2. s \in Statuses /\ s # "ok"
    BY DEF FailStatus, Statuses
  <2>3. Cut(th, regs'[req[th].conn])
    BY <2>1, CutNow
  <2> HIDE DEF s
  <2> QED BY <2>1, <2>2, <2>3, FailedSeen
<1>3. CASE RunDone(th)
  BY <1>3, RunDoneSeen
<1>4. CASE WriteSucceeds(th)
  <2>1. pc[th] \in Inside /\ UNCHANGED <<pc, req, got, ans, holder, base>>
    BY <1>4 DEF WriteSucceeds, historyVars, Inside
  <2>2. \A d \in Conn \ {req[th].conn} : regs'[d] = regs[d]
    BY <1>4 DEF WriteSucceeds, Land, IInv, Plain
  <2>3. VisibleRegs' = VisibleRegs /\ Sensed' = Sensed
    BY <2>1, <2>2, Hidden, SensedSame
  <2> QED BY <2>1, <2>3 DEF Abstract!avars
<1>5. CASE ReadSucceeds(th)
  BY <1>5, SenseSeen
<1>6. CASE IoFails(th)
  <2>1. pc[th] = "run" /\ FnRaises(th) /\ regs' = regs
    BY <1>6 DEF IoFails
  <2>2. Cut(th, regs'[req[th].conn])
    BY <2>1, CutNow DEF Inside
  <2> QED BY <2>1, <2>2, FnRaisesSeen
<1>7. CASE ResponseLost(th)
  <2>c. PICK c \in Conn : c = req[th].conn
    BY <1>7, Engaged DEF ResponseLost
  <2>1. /\ pc[th] = "run" /\ FnRaises(th) /\ todo[th] # <<>> /\ IsWrite(req[th])
        /\ Head(todo[th]) # Raise
        /\ regs' = [regs EXCEPT ![c] = ApplyWrite(regs[c], Head(todo[th]))]
    BY <1>7, <2>c DEF ResponseLost, Land
  <2>2. /\ regs'[c] = ApplyWrite(regs[c], Head(todo[th]))
        /\ \A d \in Conn \ {c} : regs'[d] = regs[d]
    BY <2>1 DEF IInv, Plain
  <2>3. Cut(th, ApplyWrite(regs[c], Head(todo[th])))
    BY <2>1, <2>c, CutNext
  <2> QED BY <2>1, <2>2, <2>3, <2>c, FnRaisesSeen
<1> QED BY <1>1, <1>2, <1>3, <1>4, <1>5, <1>6, <1>7 DEF PhysicalStep

\* Taking the lock keeps what is seen: the registers are remembered.
LEMMA AcquireSeen ==
    ASSUME IInv, NEW th \in Thread, Acquire(th)
    PROVE  UNCHANGED Abstract!avars
<1>c. PICK c \in Conn : c = req[th].conn
  BY Engaged DEF Acquire
<1>1. /\ holder[c] = NoThread /\ holder' = [holder EXCEPT ![c] = th]
      /\ base' = [base EXCEPT ![c] = regs[c]] /\ UNCHANGED <<regs, req, ans, got>>
  BY <1>c DEF Acquire, localVars
<1>2. /\ holder'[c] = th /\ base'[c] = regs[c] /\ th # NoThread
      /\ \A d \in Conn \ {c} : holder'[d] = holder[d] /\ base'[d] = base[d]
  BY <1>1, PlcAssumption DEF IInv, Plain
<1>3. VisibleRegs' = VisibleRegs
  <2>1. ASSUME NEW d \in Conn
        PROVE  (IF holder'[d] = NoThread THEN regs'[d] ELSE base'[d])
                 = (IF holder[d] = NoThread THEN regs[d] ELSE base[d])
    BY <1>1, <1>2
  <2> QED BY <2>1 DEF VisibleRegs
<1>4. Sensed' = Sensed
  <2>1. pc[th] = "lock" /\ \E q : pc' = [pc EXCEPT ![th] = q]
    BY DEF Acquire, Goto
  <2>2. \A o \in Thread \ {th} : pc'[o] = pc[o] /\ req'[o] = req[o] /\ got'[o] = got[o]
    BY <1>1, <2>1 DEF IInv, Plain
  <2>3. got[th] = <<>>
    BY <2>1 DEF IInv, Shape, Inside
  <2>4. Sensed[th] = <<>> /\ Sensed'[th] = <<>>
    BY <1>1, <2>2, <2>3, SensedMoves
  <2> QED BY <2>2, <2>4, SensedMoves
<1> QED BY <1>1, <1>3, <1>4 DEF Abstract!avars

\* An answer from a virtual runtime.
LEMMA VirtualReplySeen ==
    ASSUME IInv, NEW th \in Thread, pc[th] \notin {"idle", "done"}, NEW s \in Statuses, NEW snap,
           VirtualReply(th, Answer(s, TRUE, snap)), UNCHANGED <<connVars, historyVars>>
    PROVE  Abstract!Next
<1> DEFINE z == Answer(s, TRUE, snap)
           none == NoAnswer
<1>1. z.virtual /\ z # none
  BY DEF Answer, NoAnswer
<1> HIDE DEF z, none
<1>2. req' = req /\ ans' = [ans EXCEPT ![th] = z] /\ UNCHANGED <<regs, holder, base>>
  BY DEF VirtualReply, Reply, connVars, historyVars, z
<1>3. ans'[th] = z /\ \A o \in Thread \ {th} : ans'[o] = ans[o]
  BY <1>2 DEF IInv, Plain
<1>4. VisibleRegs' = VisibleRegs
  BY <1>2, Untouched
<1>5. Abstract!Waiting(th)
  BY IsWaiting
<1>6. Abstract!Answers(th)
  BY <1>1, <1>2, <1>3, <1>5 DEF Abstract!Answers, none
<1>s. Sensed'[th] = <<>> /\ \A o \in Thread \ {th} : Sensed'[o] = Sensed[o]
  BY SensedAnswered DEF VirtualReply
<1>7. Abstract!Virtual(th) /\ Abstract!Others(th)
  BY <1>1, <1>2, <1>3, <1>4, <1>6, <1>s DEF Abstract!Virtual, Abstract!Others
<1> QED BY <1>7, <1>s DEF Abstract!Next

\* What the abstract device sees of a step on a virtual runtime.
LEMMA VirtualSeen ==
    ASSUME IInv, NEW th \in Thread, VirtualStep(th) \/ Preload(th)
    PROVE  Abstract!Next \/ UNCHANGED Abstract!avars
<1>1. CASE VirtualWriteEnds(th)
  <2>1. pc[th] \notin {"idle", "done"} /\ UNCHANGED <<connVars, historyVars>>
    BY <1>1 DEF VirtualWriteEnds
  <2>2. PICK s \in {"ok", "failed"} : VirtualReply(th, Answer(s, TRUE, <<>>))
    BY <1>1 DEF VirtualWriteEnds
  <2>3. s \in Statuses
    BY DEF Statuses
  <2> QED BY <2>1, <2>2, <2>3, VirtualReplySeen
<1>2. ASSUME VirtualReadEnds(th) PROVE Abstract!Next
  <2>1. pc[th] = "v_read" /\ UNCHANGED <<connVars, historyVars>>
    BY <1>2 DEF VirtualReadEnds
  <2>2. \E snap : VirtualReply(th, Answer("ok", TRUE, snap))
    BY <1>2 DEF VirtualReadEnds
  <2> QED BY <2>1, <2>2, VirtualReplySeen DEF Statuses
<1>3. ASSUME UNCHANGED <<regs, holder, base, req, ans>>, pc[th] # "run",
             NEW q, q # "run", pc' = [pc EXCEPT ![th] = q],
             NEW y, got' = [got EXCEPT ![th] = y]
      PROVE  UNCHANGED Abstract!avars
  <2>1. /\ pc'[th] = q
        /\ \A o \in Thread \ {th} : pc'[o] = pc[o] /\ req'[o] = req[o] /\ got'[o] = got[o]
    BY <1>3 DEF IInv, Plain
  <2>2. Sensed[th] = <<>> /\ Sensed'[th] = <<>>
    BY <1>3, <2>1, SensedMoves
  <2>3. Sensed' = Sensed /\ VisibleRegs' = VisibleRegs
    BY <1>3, <2>1, <2>2, SensedMoves, Untouched
  <2> QED BY <1>3, <2>3 DEF Abstract!avars
<1>p. got = [got EXCEPT ![th] = got[th]] /\ pc = [pc EXCEPT ![th] = pc[th]]
  BY DEF IInv, Plain
<1>4. CASE VirtualFetch(th)
  BY <1>3, <1>4, <1>p DEF VirtualFetch, Goto, connVars, historyVars
<1>5. CASE VirtualWord(th)
  <2>1. \E q : q # "run" /\ pc' = [pc EXCEPT ![th] = q]
    BY <1>5 DEF VirtualWord, Goto
  <2>2. pc[th] = "v_word" /\ got' = got /\ UNCHANGED <<regs, holder, base, req, ans>>
    BY <1>5 DEF VirtualWord, connVars
  <2> QED BY <1>3, <1>p, <2>1, <2>2
<1>6. CASE ReadFetch(th)
  BY <1>3, <1>6, <1>p DEF ReadFetch, Goto, connVars, historyVars
<1>7. CASE VirtualReadWord(th)
  <2>1. pc[th] = "v_read" /\ pc' = pc /\ UNCHANGED <<regs, holder, base, req, ans>>
    BY <1>7 DEF VirtualReadWord, connVars, historyVars
  <2>2. PICK y : got' = [got EXCEPT ![th] = y]
    BY <1>7 DEF VirtualReadWord
  <2>3. "v_read" # "run" /\ pc' = [pc EXCEPT ![th] = "v_read"]
    BY <2>1, <1>p
  <2> QED BY <1>3, <2>1, <2>2, <2>3
<1>8. CASE Preload(th)
  BY <1>3, <1>8, <1>p DEF Preload, Goto, connVars
<1> QED BY <1>1, <1>2, <1>4, <1>5, <1>6, <1>7, <1>8 DEF VirtualStep

\* A request that arrives is a Submit step.
LEMMA RequestSeen ==
    ASSUME IInv, NEW th \in Thread, Request(th)
    PROVE  Abstract!Next
<1>1. PICK r \in Requests :
        /\ req' = [req EXCEPT ![th] = r]
        /\ ans' = [ans EXCEPT ![th] = IF Refusal(r) = "none" THEN NoAnswer
                                      ELSE Answer(Refusal(r), FALSE, <<>>)]
  BY DEF Request
<1>2. pc[th] = "idle" /\ UNCHANGED <<regs, holder, base>>
  BY DEF Request, connVars
<1> DEFINE z == IF Refusal(r) = "none" THEN NoAnswer ELSE Answer(Refusal(r), FALSE, <<>>)
           none == NoAnswer
<1>3. z = none \/ z.status \in {"http_404", "http_500"}
  <2>1. Refusal(r) \in {"none", "http_404", "http_500"}
    BY DEF Refusal
  <2>2. ASSUME NEW x PROVE Answer(x, FALSE, <<>>).status = x
    BY DEF Answer
  <2> QED BY <2>1, <2>2
<1>4. ans' = [ans EXCEPT ![th] = z]
  BY <1>1
<1> HIDE DEF z, none
<1>5. /\ req'[th] = r /\ ans'[th] = z
      /\ \A o \in Thread \ {th} : req'[o] = req[o] /\ ans'[o] = ans[o]
  BY <1>1, <1>4 DEF IInv, Plain
<1>6. req[th] = NoRequest /\ r # NoRequest
  <2>1. req[th] = NoRequest
    BY <1>2 DEF IInv, Shape
  <2>2. NoRequest \notin Requests
    BY RequestAssumption
  <2> QED BY <2>1, <2>2
<1>7. VisibleRegs' = VisibleRegs
  BY <1>2, Untouched
<1>s. Sensed'[th] = <<>> /\ \A o \in Thread \ {th} : Sensed'[o] = Sensed[o]
  <2>1. got' = got /\ \E q : q # "run" /\ pc' = [pc EXCEPT ![th] = q]
    BY DEF Request, Goto, Route
  <2>2. /\ pc'[th] # "run"
        /\ \A o \in Thread \ {th} : pc'[o] = pc[o] /\ req'[o] = req[o] /\ got'[o] = got[o]
    BY <1>5, <2>1 DEF IInv, Plain
  <2> QED BY <2>2, SensedMoves
<1>8. Abstract!Submit(th) /\ Abstract!Others(th)
  BY <1>3, <1>5, <1>6, <1>7, <1>s DEF Abstract!Submit, Abstract!Others, none
<1> QED BY <1>8, <1>s DEF Abstract!Next

\* An answer that is taken is a Collect step.
LEMMA ReturnSeen ==
    ASSUME IInv, NEW th \in Thread, Return(th)
    PROVE  Abstract!Next
<1> DEFINE none == NoAnswer
<1>1. /\ pc[th] = "done" /\ req' = [req EXCEPT ![th] = NoRequest]
      /\ ans' = [ans EXCEPT ![th] = none] /\ UNCHANGED <<regs, holder, base>>
  BY DEF Return, connVars
<1>2. ans[th].status \in Statuses /\ none.status = "none"
  BY <1>1 DEF IInv, Shape, NoAnswer, Answer
<1> HIDE DEF none
<1>3. ans[th] # none
  BY <1>2 DEF Statuses
<1>4. /\ req'[th] = NoRequest /\ ans'[th] = none
      /\ \A o \in Thread \ {th} : req'[o] = req[o] /\ ans'[o] = ans[o]
  BY <1>1 DEF IInv, Plain
<1>5. VisibleRegs' = VisibleRegs
  BY <1>1, Untouched
<1>s. Sensed'[th] = <<>> /\ \A o \in Thread \ {th} : Sensed'[o] = Sensed[o]
  <2>1. got' = got /\ pc' = [pc EXCEPT ![th] = "idle"]
    BY DEF Return, Goto, localVars
  <2>2. /\ pc'[th] # "run"
        /\ \A o \in Thread \ {th} : pc'[o] = pc[o] /\ req'[o] = req[o] /\ got'[o] = got[o]
    BY <1>4, <2>1 DEF IInv, Plain
  <2> QED BY <2>2, SensedMoves
<1>6. Abstract!Collect(th) /\ Abstract!Others(th)
  BY <1>3, <1>4, <1>5, <1>s DEF Abstract!Collect, Abstract!Others, none
<1> QED BY <1>6, <1>s DEF Abstract!Next

\* The process dies: what the holders had written is what is left.
LEMMA CrashSeen ==
    ASSUME IInv, Crash
    PROVE  Abstract!Next
<1> DEFINE none == NoAnswer
<1>1. /\ regs' = regs /\ holder' = [c \in Conn |-> NoThread]
      /\ req' = [th \in Thread |-> NoRequest] /\ ans' = [th \in Thread |-> none]
  BY DEF Crash
<1> HIDE DEF none
<1>2. ASSUME NEW c \in Conn
      PROVE  \/ VisibleRegs'[c] = VisibleRegs[c]
             \/ \E th \in Thread : /\ Abstract!Waiting(th) /\ req[th].conn = c
                                   /\ Abstract!CutShort(VisibleRegs[c], req[th].prog, VisibleRegs'[c])
  <2>1. VisibleRegs'[c] = regs[c]
    BY <1>1 DEF VisibleRegs
  <2>2. CASE holder[c] = NoThread
    BY <2>1, <2>2 DEF VisibleRegs
  <2>3. CASE holder[c] # NoThread
    <3>1. PICK th \in Thread : holder[c] = th
      BY <2>3 DEF IInv, Plain
    <3>2. pc[th] \in Inside /\ req[th].conn = c
      BY <3>1 DEF IInv, Lock
    <3>3. Cut(th, regs[c])
      BY <3>2, CutNow
    <3>4. Abstract!CutShort(VisibleRegs[c], req[th].prog, regs[c])
      BY <3>2, <3>3, CutSeen
    <3>5. Abstract!Waiting(th)
      BY <3>2, IsWaiting DEF Inside
    <3> QED BY <2>1, <3>2, <3>4, <3>5
  <2> QED BY <2>2, <2>3
<1>s. Sensed' = [th \in Thread |-> <<>>]
  <2>1. pc' = [th \in Thread |-> "idle"]
    BY DEF Crash
  <2> QED BY <2>1 DEF Sensed
<1>3. Abstract!Crash
  BY <1>1, <1>2, <1>s DEF Abstract!Crash, none
<1> QED BY <1>3 DEF Abstract!Next

\* Every step of the adapter is a step of AtomicPlc, or changes nothing a
\* caller sees.
LEMMA StepSeen == IInv /\ [Next]_vars => [Abstract!Next]_Abstract!avars
<1> SUFFICES ASSUME IInv, [Next]_vars PROVE Abstract!Next \/ UNCHANGED Abstract!avars
  OBVIOUS
<1>1. CASE Crash
  BY <1>1, CrashSeen
<1>2. ASSUME NEW th \in Thread, Request(th) PROVE Abstract!Next
  BY <1>2, RequestSeen
<1>3. ASSUME NEW th \in Thread, Return(th) PROVE Abstract!Next
  BY <1>3, ReturnSeen
<1>4. ASSUME NEW th \in Thread, Acquire(th) PROVE UNCHANGED Abstract!avars
  BY <1>4, AcquireSeen
<1>5. ASSUME NEW th \in Thread, PhysicalStep(th) PROVE Abstract!Next \/ UNCHANGED Abstract!avars
  BY <1>5, PhysicalSeen
<1>6. ASSUME NEW th \in Thread, VirtualStep(th) \/ Preload(th)
      PROVE  Abstract!Next \/ UNCHANGED Abstract!avars
  BY <1>6, VirtualSeen
<1>7. CASE UNCHANGED vars \/ \E c \in Conn : Drift(c)
  <2>1. UNCHANGED <<regs, holder, base, pc, req, ans, got>>
    BY <1>7 DEF Drift, vars, connVars, callVars, localVars, historyVars
  <2>2. VisibleRegs' = VisibleRegs /\ Sensed' = Sensed
    BY <2>1, Untouched, SensedSame
  <2> QED BY <2>1, <2>2 DEF Abstract!avars
<1> QED BY <1>1, <1>2, <1>3, <1>4, <1>5, <1>6, <1>7 DEF Next, Step

\* The physical path, with its lock, its write-by-write progress, its lost
\* responses, its retry of the whole list and its crashes, implements devices
\* on which the writes of every request happen in one step: a successful request
\* leaves exactly what its list says although parts of it may have been written
\* twice.  A snapshot is made of words the device sent during this request, none
\* of an abandoned attempt, each mapping of one moment; it is the device of one
\* moment only in the fields whose registers the device does not change by
\* itself, and there no write of another request comes in between.
THEOREM PlcImplementsAtomicPlc == Spec => ImplementsAtomicPlc
<1>1. Init => Abstract!Init
  <2> SUFFICES ASSUME Init PROVE Abstract!Init
    OBVIOUS
  <2> DEFINE none == NoAnswer
  <2>1. /\ req = [th \in Thread |-> NoRequest] /\ ans = [th \in Thread |-> none]
        /\ regs = [c \in Conn |-> ZeroRegs] /\ holder = [c \in Conn |-> NoThread]
    BY DEF Init
  <2> HIDE DEF none
  <2>2. ASSUME NEW c \in Conn, NEW r \in DOMAIN VisibleRegs[c] PROVE VisibleRegs[c][r] = 0
    BY <2>1, <2>2 DEF VisibleRegs, ZeroRegs
  <2>3. Sensed = [th \in Thread |-> <<>>]
    <3>1. pc = [th \in Thread |-> "idle"]
      BY DEF Init
    <3> QED BY <3>1 DEF Sensed
  <2> QED BY <2>1, <2>2, <2>3 DEF Abstract!Init, none
<1> QED BY <1>1, StepSeen, PlcInvariant, PTL DEF Spec, ImplementsAtomicPlc, Abstract!Spec

-----------------------------------------------------------------------------
(* What a preload reads back. *)

\* Division with remainder.
LEMMA DivMod ==
    ASSUME NEW n \in Int, NEW d \in Nat \ {0}
    PROVE  /\ n \div d \in Int /\ n % d \in 0 .. d - 1
           /\ n = d * (n \div d) + (n % d)
OBVIOUS

\* A register has 16 bits.
LEMMA WordIs == Word = 65536
BY DEF Word

\* Rounding to a register's scale is off by at most half of it.
LEMMA RoundingError ==
    ASSUME NEW n \in Int, NEW d \in Nat \ {0}
    PROVE  RoundDiv(n, d) \in Int /\ 2 * (RoundDiv(n, d) * d - n) \in -d .. d
<1> DEFINE q == n \div d
           r == n % d
<1>1. q \in Int /\ r \in 0 .. d - 1 /\ n = d * q + r
  BY DivMod
<1>2. RoundDiv(n, d) \in {q, q + 1} /\ (RoundDiv(n, d) = q => 2 * r <= d) /\ (RoundDiv(n, d) = q + 1 => 2 * r >= d)
  BY <1>1 DEF RoundDiv
<1> HIDE DEF q, r
<1>3. CASE RoundDiv(n, d) = q
  <2>1. q * d - n = -r
    BY <1>1
  <2> QED BY <1>1, <1>2, <1>3, <2>1
<1>4. CASE RoundDiv(n, d) = q + 1
  <2>1. (q + 1) * d - n = d - r
    BY <1>1
  <2> QED BY <1>1, <1>2, <1>4, <2>1
<1> QED BY <1>2, <1>3, <1>4

\* A value that a register can hold comes back as near as the scale allows.
LEMMA CodecRoundTrip ==
    ASSUME NEW v \in Int, NEW m, m.scale \in Nat \ {0}, Representable(v, m)
    PROVE  /\ DOMAIN EncodeValueToRegisters(v, m) = 1 .. RegisterCount(m)
           /\ 2 * (DecodeRegisters(EncodeValueToRegisters(v, m), m) - v)
                \in -(IF m.type = "float32" THEN 0 ELSE m.scale) .. (IF m.type = "float32" THEN 0 ELSE m.scale)
<1> DEFINE s == RoundDiv(v, m.scale)
           ws == EncodeValueToRegisters(v, m)
<1>1. s \in Int /\ 2 * (s * m.scale - v) \in -m.scale .. m.scale
  BY RoundingError
<1>2. CASE m.type = "float32"
  <2>1. ws = <<v \div Word, v % Word>>
    BY <1>2 DEF EncodeValueToRegisters, FloatWords
  <2>2. DecodeRegisters(ws, m) = (v \div Word) * Word + (v % Word)
    BY <1>2, <2>1 DEF DecodeRegisters, FloatOf
  <2>3. DecodeRegisters(ws, m) = v
    BY <2>2, WordIs
  <2> QED BY <1>2, <2>1, <2>3 DEF RegisterCount
<1>3. CASE m.type # "float32"
  <2>1. ws = <<IF m.type = "int16" /\ s < 0 THEN Word + s ELSE s>>
    BY <1>3 DEF EncodeValueToRegisters
  <2>2. m.type = "int16" => s >= -32768 /\ s < 32768
    <3>1. m.type = "int16" => s \in -(Word \div 2) .. (Word \div 2) - 1
      <4> HIDE DEF ws
      <4> QED BY DEF Representable
    <3> DEFINE h == Word \div 2
    <3>2. h = 32768
      BY WordIs
    <3> HIDE DEF s, ws, h
    <3>3. m.type = "int16" => s \in -h .. h - 1
      BY <3>1 DEF h
    <3>4. s \in Int /\ h \in Int
      BY <1>1, <3>2
    <3>5. m.type = "int16" => s >= -h /\ s < h
      BY <3>3, <3>4
    <3> QED BY <3>2, <3>4, <3>5
  <2> HIDE DEF s
  <2>i. s \in Int
    BY <1>1
  <2>3. DecodeRegisters(ws, m) = (IF m.type = "int16" /\ ws[1] > 32767 THEN ws[1] - Word ELSE ws[1]) * m.scale
    BY <1>3 DEF DecodeRegisters
  <2> DEFINE e == ws[1]
  <2>4. e = IF m.type = "int16" /\ s < 0 THEN 65536 + s ELSE s
    BY <2>1, WordIs
  <2> HIDE DEF e
  <2>5. (IF m.type = "int16" /\ e > 32767 THEN e - 65536 ELSE e) = s
    <3>1. CASE m.type = "int16" /\ s < 0
      <4>1. e = 65536 + s
        BY <3>1, <2>4
      <4>2. e > 32767 /\ e - 65536 = s
        BY <2>i, <2>2, <3>1, <4>1
      <4> QED BY <3>1, <4>2
    <3>2. CASE ~(m.type = "int16" /\ s < 0)
      <4>1. e = s
        BY <3>2, <2>4
      <4>2. m.type = "int16" => ~(s > 32767)
        BY <2>i, <2>2
      <4> QED BY <4>1, <4>2
    <3> QED BY <3>1, <3>2
  <2>6. DecodeRegisters(ws, m) = s * m.scale
    BY <2>3, <2>5, WordIs DEF e
  <2> QED BY <1>1, <1>3, <2>1, <2>6 DEF RegisterCount
<1> QED BY <1>2, <1>3

\* The elements of a list stay where they are when another one is appended.
LEMMA InFront ==
    ASSUME NEW S, NEW u \in Seq(S), NEW v \in Seq(S), NEW j \in 1 .. Len(u)
    PROVE  j \in 1 .. Len(u \o v) /\ (u \o v)[j] = u[j]
OBVIOUS

\* Every element of the sequences is in their concatenation.
LEMMA FlattenHas ==
    ASSUME NEW S, NEW seqs \in Seq(Seq(S)), NEW i \in 1 .. Len(seqs), NEW k \in 1 .. Len(seqs[i])
    PROVE  \E j \in 1 .. Len(FlattenSeq(seqs)) : FlattenSeq(seqs)[j] = seqs[i][k]
<1> DEFINE a == Joined(seqs, i - 1)
           b == seqs[i]
<1>1. i \in 0 .. Len(seqs) /\ i - 1 \in 0 .. Len(seqs) - 1 /\ (i - 1) + 1 = i /\ i - 1 \in 0 .. Len(seqs)
  OBVIOUS
<1>2. a \in Seq(S) /\ b \in Seq(S)
  BY <1>1, JoinedStep
<1>3. Joined(seqs, i) = a \o b
  BY <1>1, JoinedStep
<1>4. PICK rest \in Seq(S) : FlattenSeq(seqs) = Joined(seqs, i) \o rest
  BY <1>1, JoinedPrefix
<1> HIDE DEF a, b
<1>5. k \in 1 .. Len(b)
  BY DEF b
<1> DEFINE u == a \o b
           w == u \o rest
           j == Len(a) + k
<1>6. Len(a) \in Nat /\ Len(b) \in Nat /\ Len(rest) \in Nat
  BY <1>2
<1>7. u \in Seq(S) /\ Len(u) = Len(a) + Len(b) /\ u[j] = b[k] /\ j \in 1 .. Len(u)
  BY <1>2, <1>5, <1>6
<1> HIDE DEF u, j
<1>8. w[j] = u[j] /\ j \in 1 .. Len(w)
  BY <1>7, InFront
<1> QED BY <1>3, <1>4, <1>7, <1>8 DEF b, u, j

\* A mapping list a preload carries.
Mapped(r) ==
    /\ r \in Requests /\ r.op = "preload" /\ Refusal(r) = "none"

\* What a preload stores for a mapping.
Given(r, m) == IF m.field \in DOMAIN r.init.state THEN r.init.state[m.field] ELSE 0

\* What the assumptions say of the mappings of a preload.
LEMMA MappedFacts ==
    ASSUME NEW r, Mapped(r)
    PROVE  /\ IsSeq(r.maps) /\ DOMAIN r.maps = 1 .. Len(r.maps) /\ Len(r.maps) \in Nat
           /\ \A i \in 1 .. Len(r.maps) :
                /\ r.maps[i].reg \in Int /\ r.maps[i].scale \in Nat \ {0}
                /\ Registers(r.maps[i]) \subseteq Reg /\ Given(r, r.maps[i]) \in Int
                /\ \A j \in 1 .. Len(r.maps) : j # i =>
                     /\ r.maps[j].field # r.maps[i].field
                     /\ Registers(r.maps[j]) \cap Registers(r.maps[i]) = {}
<1>1. IsSeq(r.maps) /\ DOMAIN r.maps = 1 .. Len(r.maps) /\ Len(r.maps) \in Nat
  BY RequestAssumption DEF Mapped, IsSeq
<1>2. \A i \in DOMAIN r.maps :
        /\ r.maps[i].reg \in Int /\ r.maps[i].scale \in Nat \ {0} /\ Registers(r.maps[i]) \subseteq Reg
        /\ r.maps[i].field \in DOMAIN r.init.state => r.init.state[r.maps[i].field] \in Int
        /\ \A j \in DOMAIN r.maps \ {i} :
            /\ r.maps[j].field # r.maps[i].field
            /\ Registers(r.maps[j]) \cap Registers(r.maps[i]) = {}
  BY MappingAssumption DEF Mapped
<1>3. \A i \in DOMAIN r.maps : Given(r, r.maps[i]) \in Int
  BY <1>2 DEF Given
<1> DEFINE n == Len(r.maps)
<1> HIDE DEF n
<1>4. DOMAIN r.maps = 1 .. n
  BY <1>1 DEF n
<1>5. \A i \in 1 .. n :
        /\ r.maps[i].reg \in Int /\ r.maps[i].scale \in Nat \ {0}
        /\ Registers(r.maps[i]) \subseteq Reg /\ Given(r, r.maps[i]) \in Int
        /\ \A j \in 1 .. n : j # i =>
             /\ r.maps[j].field # r.maps[i].field
             /\ Registers(r.maps[j]) \cap Registers(r.maps[i]) = {}
  BY <1>2, <1>3, <1>4
<1> QED BY <1>1, <1>5 DEF n

\* The list a read goes through is a list of registers, and has every register
\* of every mapping.
LEMMA ReadListHas ==
    ASSUME NEW r, Mapped(r)
    PROVE  /\ IsSeq(ReadList(r.maps))
           /\ \A i \in 1 .. Len(r.maps) : \A k \in 1 .. RegisterCount(r.maps[i]) :
                \E j \in 1 .. Len(ReadList(r.maps)) : ReadList(r.maps)[j] = r.maps[i].reg + k - 1
<1> DEFINE n == Len(r.maps)
           part(i) == [k \in 1 .. RegisterCount(r.maps[i]) |-> r.maps[i].reg + k - 1]
           seqs == [i \in DOMAIN r.maps |-> part(i)]
<1>1. /\ n \in Nat /\ DOMAIN r.maps = 1 .. n /\ \A i \in 1 .. n : r.maps[i].reg \in Int
  BY MappedFacts
<1>2. ASSUME NEW i \in 1 .. n PROVE part(i) \in Seq(Int) /\ Len(part(i)) = RegisterCount(r.maps[i])
  <2>1. RegisterCount(r.maps[i]) \in Nat
    BY DEF RegisterCount
  <2>2. \A k \in 1 .. RegisterCount(r.maps[i]) : r.maps[i].reg + k - 1 \in Int
    BY <1>1, <2>1
  <2> QED BY <2>1, <2>2
<1>3. seqs \in Seq(Seq(Int)) /\ Len(seqs) = n /\ \A i \in 1 .. n : seqs[i] = part(i)
  BY <1>1, <1>2
<1>4. ReadList(r.maps) = FlattenSeq(seqs)
  BY DEF ReadList
<1> HIDE DEF seqs
<1>5. FlattenSeq(seqs) \in Seq(Int)
  BY <1>3, FlattenType
<1>6. IsSeq(ReadList(r.maps))
  <2> DEFINE l == ReadList(r.maps)
  <2>1. l \in Seq(Int)
    BY <1>4, <1>5
  <2> HIDE DEF l
  <2>2. Len(l) \in Nat /\ l = [i \in 1 .. Len(l) |-> l[i]]
    BY <2>1
  <2>3. IsSeq(l)
    BY <2>2, FunSeq
  <2> QED BY <2>3 DEF l
<1>7. ASSUME NEW i \in 1 .. n, NEW k \in 1 .. RegisterCount(r.maps[i])
      PROVE  \E j \in 1 .. Len(FlattenSeq(seqs)) : FlattenSeq(seqs)[j] = r.maps[i].reg + k - 1
  <2>1. i \in 1 .. Len(seqs) /\ k \in 1 .. Len(seqs[i]) /\ seqs[i][k] = r.maps[i].reg + k - 1
    BY <1>2, <1>3
  <2>2. \E j \in 1 .. Len(FlattenSeq(seqs)) : FlattenSeq(seqs)[j] = seqs[i][k]
    <3> HIDE DEF n, part
    <3> QED BY <1>3, <2>1, FlattenHas
  <2> QED BY <2>1, <2>2
<1> QED BY <1>4, <1>6, <1>7

\* The words of a mapping in the image that a preload builds.
LEMMA PreloadWords ==
    ASSUME NEW r, Mapped(r), NEW i \in 1 .. Len(r.maps), NEW k \in 1 .. RegisterCount(r.maps[i])
    PROVE  /\ r.maps[i].reg + k - 1 \in Reg
           /\ PreloadImage(r)[r.maps[i].reg + k - 1] = EncodeValueToRegisters(Given(r, r.maps[i]), r.maps[i])[k]
<1> DEFINE m == r.maps[i]
           x == m.reg + k - 1
           hit == {y \in ToSet(r.maps) : x \in Registers(y)}
<1>0. DOMAIN r.maps = 1 .. Len(r.maps) /\ m.reg \in Int /\ Registers(m) \subseteq Reg
  BY MappedFacts
<1>1. x \in Registers(m) /\ x \in Reg /\ x - m.reg + 1 = k
  <2>1. PICK c \in Nat : c = RegisterCount(m)
    BY DEF RegisterCount
  <2>3. PICK b \in Int : b = m.reg
    BY <1>0
  <2>4. k \in 1 .. c
    BY <2>1
  <2> HIDE DEF m
  <2>5. b + k - 1 \in b .. b + c - 1 /\ b + k - 1 - b + 1 = k
    BY <2>4
  <2>2. m.reg + k - 1 \in m.reg .. m.reg + RegisterCount(m) - 1 /\ m.reg + k - 1 - m.reg + 1 = k
    BY <2>1, <2>3, <2>5
  <2> QED BY <1>0, <2>2 DEF Registers
<1>2. hit = {m}
  <2>1. m \in hit
    BY <1>0, <1>1 DEF ToSet
  <2>2. ASSUME NEW y \in hit PROVE y = m
    <3>1. PICK j \in 1 .. Len(r.maps) : y = r.maps[j]
      BY <1>0 DEF ToSet
    <3>2. j # i => Registers(r.maps[j]) \cap Registers(m) = {}
      BY MappedFacts
    <3> QED BY <1>1, <3>1, <3>2
  <2> QED BY <2>1, <2>2
<1>3. (CHOOSE y \in hit : TRUE) = m /\ hit # {}
  BY <1>2
<1>4. PreloadImage(r)[x] = EncodeValueToRegisters(Given(r, m), m)[x - m.reg + 1]
  <2> HIDE DEF m, x
  <2> QED BY <1>1, <1>3 DEF PreloadImage, Given
<1> QED BY <1>1, <1>4

\* The answer of a virtual read that collected the words g.
Seen(r, g, overlay) ==
    LET read     == ReadList(r.maps)
        wordOf(x) == g[CHOOSE i \in DOMAIN read : read[i] = x]
        file     == [x \in ToSet(read) |-> wordOf(x)]
        snap     == Snapshot(file, r.maps)
    IN  [f \in DOMAIN snap \cup DOMAIN overlay |->
            IF f \in DOMAIN overlay THEN overlay[f] ELSE snap[f]]

\* An encoded value is a list of as many words as the mapping has registers.
LEMMA EncodedShape ==
    ASSUME NEW v, NEW m
    PROVE  EncodeValueToRegisters(v, m)
             = [k \in 1 .. RegisterCount(m) |-> EncodeValueToRegisters(v, m)[k]]
<1>1. CASE m.type = "float32"
  <2>1. EncodeValueToRegisters(v, m) = <<v \div Word, v % Word>> /\ RegisterCount(m) = 2
    BY <1>1 DEF EncodeValueToRegisters, FloatWords, RegisterCount
  <2> DEFINE a == v \div Word
             b == v % Word
  <2> HIDE DEF a, b
  <2>2. <<a, b>> = [k \in 1 .. 2 |-> <<a, b>>[k]]
    OBVIOUS
  <2> QED BY <2>1, <2>2 DEF a, b
<1>2. CASE m.type # "float32"
  <2>1. PICK a : EncodeValueToRegisters(v, m) = <<a>>
    BY <1>2 DEF EncodeValueToRegisters
  <2>2. RegisterCount(m) = 1 /\ <<a>> = [k \in 1 .. 1 |-> <<a>>[k]]
    BY <1>2 DEF RegisterCount
  <2> QED BY <2>1, <2>2
<1> QED BY <1>1, <1>2

\* What preload_runtime answers is the state it was given, as near as the
\* scales of the registers allow, and the overlay.
LEMMA PreloadReadsBack ==
    ASSUME NEW r, Mapped(r), NEW g, Len(g) = Len(ReadList(r.maps)),
           \A k \in 1 .. Len(ReadList(r.maps)) : g[k] = PreloadImage(r)[ReadList(r.maps)[k]]
    PROVE  ReadsBack(r, Seen(r, g, r.init.overlay))
<1> DEFINE read == ReadList(r.maps)
           wordOf(x) == g[CHOOSE i \in DOMAIN read : read[i] = x]
           file == [x \in ToSet(read) |-> wordOf(x)]
           snap == Snapshot(file, r.maps)
           over == r.init.overlay
           seen == Seen(r, g, over)
           n == Len(r.maps)
<1>0. IsSeq(read) /\ Len(read) \in Nat /\ DOMAIN read = 1 .. Len(read)
  BY ReadListHas DEF IsSeq
<1>m. n \in Nat /\ DOMAIN r.maps = 1 .. n
  BY MappedFacts
<1>1. ASSUME NEW j \in 1 .. Len(read) PROVE read[j] \in DOMAIN file /\ file[read[j]] = PreloadImage(r)[read[j]]
  <2> DEFINE c == CHOOSE i \in DOMAIN read : read[i] = read[j]
  <2>1. read[j] \in ToSet(read)
    BY <1>0 DEF ToSet
  <2>2. c \in DOMAIN read /\ read[c] = read[j]
    BY <1>0
  <2>3. file[read[j]] = g[c]
    BY <2>1
  <2>4. g[c] = PreloadImage(r)[read[c]]
    <3> HIDE DEF c
    <3> QED BY <1>0, <2>2
  <2> QED BY <2>1, <2>2, <2>3, <2>4
<1>2. ASSUME NEW i \in 1 .. n
      PROVE  RegistersOf(file, r.maps[i]) = EncodeValueToRegisters(Given(r, r.maps[i]), r.maps[i])
  <2> DEFINE m == r.maps[i]
             ws == EncodeValueToRegisters(Given(r, m), m)
  <2>1. ASSUME NEW k \in 1 .. RegisterCount(m) PROVE file[m.reg + k - 1] = ws[k]
    <3>1. PICK j \in 1 .. Len(read) : read[j] = m.reg + k - 1
      BY ReadListHas
    <3>2. PreloadImage(r)[m.reg + k - 1] = ws[k]
      BY PreloadWords
    <3> HIDE DEF file, m, ws, read
    <3> QED BY <1>1, <3>1, <3>2
  <2>2. ws = [k \in 1 .. RegisterCount(m) |-> ws[k]]
    BY EncodedShape
  <2>3. \A k \in 1 .. RegisterCount(m) : m.reg + k - 1 = m.reg + (k - 1)
    <3>1. m.reg \in Int /\ RegisterCount(m) \in Nat
      BY MappedFacts DEF RegisterCount
    <3> HIDE DEF m
    <3> QED BY <3>1
  <2>4. RegistersOf(file, m) = [k \in 1 .. RegisterCount(m) |-> file[m.reg + k - 1]]
    BY DEF RegistersOf
  <2> HIDE DEF m, ws, file
  <2> QED BY <2>1, <2>2, <2>4 DEF m, ws
<1>3. ASSUME NEW i \in 1 .. n
      PROVE  /\ r.maps[i].field \in DOMAIN snap
             /\ snap[r.maps[i].field] = DecodeRegisters(RegistersOf(file, r.maps[i]), r.maps[i])
  <2> DEFINE f == r.maps[i].field
             S == {j \in DOMAIN r.maps : r.maps[j].field = f}
  <2>1. S = {i}
    <3>1. \A j \in 1 .. n : j # i => r.maps[j].field # r.maps[i].field
      BY MappedFacts
    <3> QED BY <1>m, <3>1
  <2>2. MappingOf(r.maps, f) = i
    <3>1. S \in SUBSET (1 .. n) /\ S # {}
      BY <1>m, <2>1
    <3>2. Max(S) \in S
      <4> HIDE DEF S
      <4> QED BY <1>m, <3>1, LastPosition
    <3>3. MappingOf(r.maps, f) = Max(S)
      BY DEF MappingOf
    <3> QED BY <2>1, <3>2, <3>3
  <2>3. f \in {m.field : m \in ToSet(r.maps)}
    BY <1>m DEF ToSet
  <2> HIDE DEF f, file, S
  <2>4. snap[f] = DecodeRegisters(RegistersOf(file, r.maps[i]), r.maps[i])
    BY <2>2, <2>3 DEF Snapshot, Fields
  <2>5. f \in DOMAIN snap
    BY <2>3 DEF Snapshot, Fields
  <2> QED BY <2>4, <2>5 DEF f
<1>4. seen = [f \in DOMAIN snap \cup DOMAIN over |-> IF f \in DOMAIN over THEN over[f] ELSE snap[f]]
  BY DEF Seen
<1> HIDE DEF snap, file, seen, over
<1>5. \A f \in DOMAIN over : seen[f] = over[f]
  BY <1>4
<1>6. ASSUME NEW m \in ToSet(r.maps), m.field \notin DOMAIN over, Representable(Given(r, m), m)
      PROVE  2 * (seen[m.field] - Given(r, m))
                \in -(IF m.type = "float32" THEN 0 ELSE m.scale) .. (IF m.type = "float32" THEN 0 ELSE m.scale)
  <2>1. PICK i \in 1 .. n : m = r.maps[i]
    BY <1>m DEF ToSet
  <2>2. Given(r, m) \in Int /\ m.scale \in Nat \ {0}
    BY <2>1, MappedFacts
  <2>3. seen[m.field] = DecodeRegisters(EncodeValueToRegisters(Given(r, m), m), m)
    BY <1>2, <1>3, <1>4, <1>6, <2>1
  <2>4. 2 * (DecodeRegisters(EncodeValueToRegisters(Given(r, m), m), m) - Given(r, m))
                \in -(IF m.type = "float32" THEN 0 ELSE m.scale) .. (IF m.type = "float32" THEN 0 ELSE m.scale)
    BY <1>6, <2>2, CodecRoundTrip
  <2> QED BY <2>3, <2>4
<1> QED BY <1>5, <1>6 DEF ReadsBack, Given, over, seen
-----------------------------------------------------------------------------
(***************************************************************************)
(* The virtual path.  A request that was left alone finds in its asset's   *)
(* runtime what it wrote so far, or what it preloaded.                     *)
(***************************************************************************)
IsRuntime(b) == b = [image |-> [x \in Reg |-> b.image[x]], overlay |-> b.overlay]

\* The rows that IInv leaves open.
Rows ==
    /\ rt = [th \in Thread |-> rt[th]] /\ word = [th \in Thread |-> word[th]]
    /\ started = [th \in Thread |-> started[th]] /\ mixed = [th \in Thread |-> mixed[th]]

\* The runtime objects.
Objects ==
    /\ Rows
    /\ IsSeq(runtimes) /\ \A i \in 1 .. Len(runtimes) : IsRuntime(runtimes[i])
    /\ \A a, b \in Asset : current[a] = current[b] /\ current[a] # 0 => a = b

\* A thread has a reference only inside a loop over registers, and no
\* reference to the runtime of another asset than its own.
Reference(th) ==
    /\ rt[th] \in 0 .. Len(runtimes)
    /\ pc[th] \notin {"v_word", "v_read"} => rt[th] = 0
    /\ \A a \in Asset : current[a] = rt[th] /\ rt[th] # 0 => req[th].asset = a

\* The runtime of asset a.
RuntimeIn(cur, objects, a) == IF cur[a] = 0 THEN NoRuntime ELSE objects[cur[a]]

Preloaded(r, b) ==
    r.op = "preload" => b = [image |-> PreloadImage(r), overlay |-> r.init.overlay]

\* n actions of the list of r have been done on the image file.
Done(r, t, n, image, file) ==
    /\ n \in 0 .. Len(r.prog) /\ t = SubSeq(r.prog, n + 1, Len(r.prog))
    /\ image = Overlay(file, SubSeq(r.prog, 1, n))

\* The first k words of one action.
FirstWords(file, w, k) ==
    [x \in DOMAIN file |-> IF x - w.reg + 1 \in 1 .. k THEN w.vals[x - w.reg + 1] ELSE file[x]]

\* The same with k words of the next one.
DoneWords(r, t, n, k, image, file) ==
    /\ n \in 0 .. Len(r.prog) - 1 /\ t = SubSeq(r.prog, n + 1, Len(r.prog))
    /\ r.prog[n + 1] # Raise /\ k \in 1 .. Len(r.prog[n + 1].vals)
    /\ image = FirstWords(Overlay(file, SubSeq(r.prog, 1, n)), r.prog[n + 1], k - 1)

\* n registers of the list have been read.
Fetched(r, t, g, n, image) ==
    LET list == ReadList(r.maps) IN
    /\ n \in 0 .. Len(list) /\ t = SubSeq(list, n + 1, Len(list))
    /\ IsSeq(g) /\ Len(g) = n
    /\ \A k \in 1 .. n : g[k] = image[list[k]]

Answered(r, c, b, an, file) ==
    an.status = "ok" =>
        /\ IsWrite(r) /\ an.virtual => c # 0 /\ b.image = Overlay(file, r.prog)
        /\ r.op = "preload" => ReadsBack(r, an.snapshot)

\* What holds at p of a request r that nobody disturbed: t and g are its lists,
\* w its next word, x its reference, c and b the runtime of its asset, an its
\* answer and file the image it found.
Undisturbed(p, r, t, g, w, x, c, b, an, file) ==
    /\ p = "preload" => r.op = "preload"
    /\ p \in Inside \cup {"lock"} => r.op # "preload"
    /\ p = "v_write" => IsWrite(r) /\ c # 0 /\ \E n \in Nat : Done(r, t, n, b.image, file)
    /\ p = "v_word" => IsWrite(r) /\ c # 0 /\ x = c /\ \E n \in Nat : DoneWords(r, t, n, w, b.image, file)
    /\ p = "v_fetch" => ~IsWrite(r) /\ c # 0 /\ Preloaded(r, b)
    /\ p = "v_read" => /\ ~IsWrite(r) /\ c # 0 /\ x = c /\ Preloaded(r, b)
                       /\ r.op = "preload" => \E n \in Nat : Fetched(r, t, g, n, b.image)
    /\ p = "done" => Answered(r, c, b, an, file)

Alright(th) ==
    /\ Reference(th)
    /\ pc[th] # "idle" /\ ~mixed[th] =>
         Undisturbed(pc[th], req[th], todo[th], got[th], word[th], rt[th],
                     current[req[th].asset], RuntimeIn(current, runtimes, req[th].asset), ans[th], started[th])

VInv == Objects /\ \A th \in Thread : Alright(th)

\* No word of an action changes nothing.
LEMMA FirstWordsNone ==
    ASSUME NEW file, NEW D, file = [x \in D |-> file[x]], NEW w, w.reg \in Int, D \subseteq Int
    PROVE  FirstWords(file, w, 0) = file
<1>1. \A x \in D : x - w.reg + 1 \notin 1 .. 0
  OBVIOUS
<1>2. DOMAIN file = D
  OBVIOUS
<1> QED BY <1>1, <1>2 DEF FirstWords

\* Writing one more word.
LEMMA FirstWordsNext ==
    ASSUME NEW file, NEW w, w.reg \in Int, DOMAIN file \subseteq Int, NEW k \in Nat \ {0}
    PROVE  [FirstWords(file, w, k - 1) EXCEPT ![w.reg + k - 1] = w.vals[k]] = FirstWords(file, w, k)
<1> DEFINE D == DOMAIN file
           y == w.reg + k - 1
<1>0. PICK b \in Int : b = w.reg
  OBVIOUS
<1>1. ASSUME NEW x \in D
      PROVE  /\ x = y => x - w.reg + 1 \in 1 .. k /\ x - w.reg + 1 = k
             /\ x # y => (x - w.reg + 1 \in 1 .. k <=> x - w.reg + 1 \in 1 .. k - 1)
  <2>1. x \in Int
    OBVIOUS
  <2>2. /\ x = b + k - 1 => x - b + 1 \in 1 .. k /\ x - b + 1 = k
        /\ x # b + k - 1 => (x - b + 1 \in 1 .. k <=> x - b + 1 \in 1 .. k - 1)
    BY <2>1
  <2> QED BY <1>0, <2>2
<1>2. [FirstWords(file, w, k - 1) EXCEPT ![y] = w.vals[k]]
        = [x \in D |-> IF x = y THEN w.vals[k]
                       ELSE IF x - w.reg + 1 \in 1 .. k - 1 THEN w.vals[x - w.reg + 1] ELSE file[x]]
  <2> HIDE DEF y
  <2> QED BY DEF FirstWords
<1>3. FirstWords(file, w, k) = [x \in D |-> IF x - w.reg + 1 \in 1 .. k THEN w.vals[x - w.reg + 1] ELSE file[x]]
  BY DEF FirstWords
<1>4. \A x \in D : (IF x = y THEN w.vals[k]
                    ELSE IF x - w.reg + 1 \in 1 .. k - 1 THEN w.vals[x - w.reg + 1] ELSE file[x])
                 = (IF x - w.reg + 1 \in 1 .. k THEN w.vals[x - w.reg + 1] ELSE file[x])
  <2> HIDE DEF D, y
  <2> QED BY <1>1
<1> HIDE DEF D, y
<1> QED BY <1>2, <1>3, <1>4 DEF y

\* All the words of an action are the action.
LEMMA FirstWordsAll ==
    ASSUME NEW file, NEW w, IsSeq(w.vals)
    PROVE  FirstWords(file, w, Len(w.vals)) = ApplyWrite(file, w)
<1>1. DOMAIN w.vals = 1 .. Len(w.vals)
  BY DEF IsSeq
<1> QED BY <1>1 DEF FirstWords, ApplyWrite, Covers

\* What the assumptions say of the list of a request.
LEMMA ListFacts ==
    ASSUME NEW r \in Requests, NEW n \in Nat, n < Len(r.prog), r.prog[n + 1] # Raise
    PROVE  /\ r.prog[n + 1].reg \in Int /\ IsSeq(r.prog[n + 1].vals)
           /\ Len(r.prog[n + 1].vals) \in Nat \ {0}
<1> DEFINE p == r.prog
           w == p[n + 1]
<1>1. IsSeq(p)
  BY RequestAssumption
<1> HIDE DEF p
<1>2. Len(p) \in Nat /\ DOMAIN p = 1 .. Len(p)
  BY <1>1 DEF IsSeq
<1>3. n + 1 \in DOMAIN p
  BY <1>2 DEF p
<1>4. w \in ToSet(p)
  BY <1>3 DEF ToSet
<1>5. w.reg \in Int /\ IsSeq(w.vals) /\ w.vals # <<>>
  BY <1>4, MappingAssumption DEF p
<1>6. Len(w.vals) \in Nat \ {0}
  <2> DEFINE v == w.vals
  <2>1. v \in Seq(ToSet(v)) /\ v # <<>>
    BY <1>5 DEF IsSeq
  <2> HIDE DEF v
  <2>2. Len(v) \in Nat \ {0}
    BY <2>1
  <2> QED BY <2>2 DEF v
<1> QED BY <1>5, <1>6 DEF p

\* runtime = self._virtual_assets[asset] for the next action.
LEMMA FetchMoves ==
    ASSUME NEW r \in Requests, NEW t, NEW g, NEW w, NEW x, NEW c, NEW b, NEW an, NEW file, IsRuntime(b),
           Undisturbed("v_write", r, t, g, w, x, c, b, an, file), t # <<>>, Head(t) # Raise
    PROVE  Undisturbed("v_word", r, t, g, 1, c, c, b, an, file)
<1>1. PICK n \in Nat : Done(r, t, n, b.image, file)
  BY DEF Undisturbed
<1> DEFINE p == r.prog
           a == p[n + 1]
           im == b.image
           o == Overlay(file, SubSeq(p, 1, n))
<1>2. IsSeq(p) /\ Len(p) \in Nat
  BY RequestAssumption DEF IsSeq
<1>3. n \in 0 .. Len(p) /\ t = SubSeq(p, n + 1, Len(p)) /\ im = o
  BY <1>1 DEF Done
<1>4. n < Len(p) /\ a = Head(t)
  <2> HIDE DEF p, o, im
  <2>1. n # Len(p)
    BY <1>2, <1>3, Rest
  <2>2. n < Len(p)
    BY <1>2, <1>3, <2>1
  <2> QED BY <2>2, <1>2, <1>3, Rest
<1>5. a.reg \in Int /\ Len(a.vals) \in Nat \ {0}
  BY <1>4, ListFacts
<1>6. im = [y \in Reg |-> im[y]]
  BY DEF IsRuntime
<1>7. FirstWords(im, a, 0) = im
  <2> HIDE DEF im, a
  <2> QED BY <1>5, <1>6, FirstWordsNone, MappingAssumption
<1>8. DoneWords(r, t, n, 1, im, file)
  <2>0. 1 - 1 = 0 /\ 1 \in 1 .. Len(a.vals)
    BY <1>5
  <2>1. n \in 0 .. Len(p) - 1 /\ a # Raise
    <3> HIDE DEF p, a
    <3> QED BY <1>2, <1>4
  <2> HIDE DEF o, im
  <2> QED BY <1>3, <1>4, <1>7, <2>0, <2>1 DEF DoneWords, o
<1>9. IsWrite(r) /\ c # 0
  BY DEF Undisturbed
<1> HIDE DEF p, a, im, o
<1> QED BY <1>8, <1>9 DEF Undisturbed, Inside, im

\* The register file under the first n actions has the registers of the image.
LEMMA UnderWords ==
    ASSUME NEW file, NEW q, NEW w, NEW k, NEW b, IsRuntime(b), b.image = FirstWords(Overlay(file, q), w, k)
    PROVE  DOMAIN Overlay(file, q) = Reg
<1>1. DOMAIN b.image = Reg
  BY DEF IsRuntime
<1> QED BY <1>1 DEF FirstWords

\* The w-th word of the action that is first in t has been written.
WordWritten(r, t, n, w, image, file) ==
    LET a == r.prog[n + 1] IN
    /\ Head(t) = a /\ Tail(t) = SubSeq(r.prog, (n + 1) + 1, Len(r.prog))
    /\ w \in 1 .. Len(a.vals) /\ Len(a.vals) \in Nat
    /\ [image EXCEPT ![a.reg + w - 1] = a.vals[w]] = FirstWords(Overlay(file, SubSeq(r.prog, 1, n)), a, w)

\* runtime.register_image[register + offset] = value
LEMMA WordDone ==
    ASSUME NEW r \in Requests, NEW t, NEW w, NEW b, NEW file, IsRuntime(b),
           NEW n \in Nat, DoneWords(r, t, n, w, b.image, file)
    PROVE  WordWritten(r, t, n, w, b.image, file)
<1> DEFINE p == r.prog
           a == p[n + 1]
           o == Overlay(file, SubSeq(p, 1, n))
<1>2. IsSeq(p) /\ Len(p) \in Nat
  BY RequestAssumption DEF IsSeq
<1>3. /\ n \in 0 .. Len(p) - 1 /\ t = SubSeq(p, n + 1, Len(p)) /\ a # Raise
      /\ w \in 1 .. Len(a.vals) /\ b.image = FirstWords(o, a, w - 1)
  BY DEF DoneWords
<1> HIDE DEF p, o
<1>4. n < Len(p) /\ n \in 0 .. Len(p) /\ n + 2 = (n + 1) + 1
  BY <1>2, <1>3
<1>5. Head(t) = a /\ Tail(t) = SubSeq(p, (n + 1) + 1, Len(p))
  <2> HIDE DEF a
  <2>1. Head(t) = p[n + 1] /\ Tail(t) = SubSeq(p, n + 2, Len(p))
    BY <1>2, <1>3, <1>4, Rest
  <2> QED BY <2>1, <1>4 DEF a
<1>6. a.reg \in Int /\ Len(a.vals) \in Nat \ {0}
  BY <1>3, <1>4, ListFacts DEF p
<1>7. DOMAIN o = Reg
  BY <1>3, UnderWords DEF o
<1>8. w \in Nat \ {0}
  <2> HIDE DEF a
  <2> QED BY <1>3, <1>6
<1>9. [FirstWords(o, a, w - 1) EXCEPT ![a.reg + w - 1] = a.vals[w]] = FirstWords(o, a, w)
  <2> HIDE DEF a
  <2> QED BY <1>6, <1>7, <1>8, FirstWordsNext, MappingAssumption
<1> HIDE DEF a
<1> QED BY <1>3, <1>5, <1>6, <1>9 DEF WordWritten, p, o, a

\* The next word of the action.
LEMMA WordMoves ==
    ASSUME NEW r \in Requests, NEW t, NEW g, NEW w, NEW x, NEW c, NEW b, NEW an, NEW file, IsRuntime(b),
           Undisturbed("v_word", r, t, g, w, x, c, b, an, file), w # Len(Head(t).vals)
    PROVE  Undisturbed("v_word", r, t, g, w + 1, x, c,
                       [b EXCEPT !.image[Head(t).reg + w - 1] = Head(t).vals[w]], an, file)
<1>1. PICK n \in Nat : DoneWords(r, t, n, w, b.image, file)
  BY DEF Undisturbed
<1> DEFINE bb == [b EXCEPT !.image[Head(t).reg + w - 1] = Head(t).vals[w]]
           a == r.prog[n + 1]
<1>2. bb.image = [b.image EXCEPT ![Head(t).reg + w - 1] = Head(t).vals[w]]
  BY DEF IsRuntime
<1>3. /\ Head(t) = a /\ w \in 1 .. Len(a.vals) /\ Len(a.vals) \in Nat /\ w # Len(a.vals)
      /\ bb.image = FirstWords(Overlay(file, SubSeq(r.prog, 1, n)), a, w)
  <2> HIDE DEF bb
  <2>1. WordWritten(r, t, n, w, b.image, file)
    BY <1>1, WordDone
  <2>2. Head(t) = a
    BY <2>1 DEF WordWritten
  <2> QED BY <1>2, <2>1, <2>2 DEF WordWritten
<1>4. n \in 0 .. Len(r.prog) - 1 /\ t = SubSeq(r.prog, n + 1, Len(r.prog)) /\ a # Raise
  BY <1>1 DEF DoneWords
<1> HIDE DEF a, bb
<1>5. (w + 1) - 1 = w /\ w + 1 \in 1 .. Len(a.vals)
  BY <1>3
<1>6. DoneWords(r, t, n, w + 1, bb.image, file)
  BY <1>3, <1>4, <1>5 DEF DoneWords, a
<1>7. IsWrite(r) /\ c # 0 /\ x = c
  BY DEF Undisturbed
<1> QED BY <1>6, <1>7 DEF Undisturbed, Inside, bb

\* The last word of the action.
LEMMA LastWordMoves ==
    ASSUME NEW r \in Requests, NEW t, NEW g, NEW w, NEW x, NEW c, NEW b, NEW an, NEW file, IsRuntime(b),
           Undisturbed("v_word", r, t, g, w, x, c, b, an, file), w = Len(Head(t).vals)
    PROVE  Undisturbed("v_write", r, Tail(t), g, 1, 0, c,
                       [b EXCEPT !.image[Head(t).reg + w - 1] = Head(t).vals[w]], an, file)
<1>1. PICK n \in Nat : DoneWords(r, t, n, w, b.image, file)
  BY DEF Undisturbed
<1> DEFINE bb == [b EXCEPT !.image[Head(t).reg + w - 1] = Head(t).vals[w]]
           p == r.prog
           a == p[n + 1]
           o == Overlay(file, SubSeq(p, 1, n))
<1>2. bb.image = [b.image EXCEPT ![Head(t).reg + w - 1] = Head(t).vals[w]]
  BY DEF IsRuntime
<1>3. /\ Head(t) = a /\ Tail(t) = SubSeq(p, (n + 1) + 1, Len(p))
      /\ bb.image = FirstWords(o, a, w)
  <2> HIDE DEF bb
  <2>1. WordWritten(r, t, n, w, b.image, file)
    BY <1>1, WordDone
  <2>2. Head(t) = a
    BY <2>1 DEF WordWritten
  <2> QED BY <1>2, <2>1, <2>2 DEF WordWritten
<1>4. n \in 0 .. Len(p) - 1 /\ a # Raise /\ IsSeq(p) /\ Len(p) \in Nat
  BY <1>1, RequestAssumption DEF DoneWords, IsSeq
<1>5. n < Len(p) /\ n + 1 \in 1 .. Len(p) /\ n + 1 \in 0 .. Len(p)
  <2> HIDE DEF p
  <2> QED BY <1>4
<1>6. IsSeq(a.vals)
  BY <1>4, <1>5, ListFacts
<1> HIDE DEF bb, o, a
<1>7. bb.image = ApplyWrite(o, a)
  BY <1>3, <1>6, FirstWordsAll
<1>8. Overlay(file, SubSeq(p, 1, n + 1)) = ApplyWrite(o, a)
  <2> HIDE DEF p
  <2> QED BY <1>4, <1>5, OverlayStep DEF o, a
<1>9. Done(r, Tail(t), n + 1, bb.image, file)
  BY <1>3, <1>5, <1>7, <1>8 DEF Done
<1>10. IsWrite(r) /\ c # 0
  BY DEF Undisturbed
<1>11. n + 1 \in Nat
  OBVIOUS
<1> QED BY <1>9, <1>10, <1>11 DEF Undisturbed, Inside, bb

\* return {"success": True}
LEMMA WriteAnswered ==
    ASSUME NEW r \in Requests, NEW g, NEW w, NEW x, NEW c, NEW b, NEW an, NEW file,
           Undisturbed("v_write", r, <<>>, g, w, x, c, b, an, file), NEW z
    PROVE  Answered(r, c, b, z, file)
<1>1. PICK n \in Nat : Done(r, <<>>, n, b.image, file)
  BY DEF Undisturbed
<1> DEFINE p == r.prog
<1>2. IsSeq(p) /\ n \in 0 .. Len(p) /\ SubSeq(p, n + 1, Len(p)) = <<>>
      /\ b.image = Overlay(file, SubSeq(p, 1, n))
  BY <1>1, RequestAssumption DEF Done
<1> HIDE DEF p
<1>3. n = Len(p)
  BY <1>2, Rest
<1>4. b.image = Overlay(file, p)
  BY <1>2, <1>3, Whole
<1>5. IsWrite(r) /\ c # 0 /\ r.op # "preload"
  BY DEF Undisturbed, IsWrite
<1> QED BY <1>4, <1>5 DEF Answered, p

\* The read-back of a preload starts: nothing has been read.
LEMMA ReadBegins ==
    ASSUME NEW r, r.op = "preload" => Mapped(r),
           NEW t, NEW g, NEW w, NEW x, NEW c, NEW b, NEW an, NEW file,
           Undisturbed("v_fetch", r, t, g, w, x, c, b, an, file)
    PROVE  Undisturbed("v_read", r, ReadList(r.maps), <<>>, w, c, c, b, an, file)
<1>1. ASSUME r.op = "preload" PROVE Fetched(r, ReadList(r.maps), <<>>, 0, b.image)
  <2> DEFINE l == ReadList(r.maps)
  <2>1. IsSeq(l)
    BY <1>1, ReadListHas
  <2> HIDE DEF l
  <2>2. Len(l) \in Nat /\ 0 \in 0 .. Len(l) /\ 0 + 1 = 1
    BY <2>1 DEF IsSeq
  <2>3. l = SubSeq(l, 0 + 1, Len(l))
    BY <2>1, <2>2, Whole
  <2>4. IsSeq(<<>>) /\ Len(<<>>) = 0 /\ \A k \in 1 .. 0 : FALSE
    BY DEF IsSeq
  <2> QED BY <2>2, <2>3, <2>4 DEF Fetched, l
<1>2. ~IsWrite(r) /\ c # 0 /\ Preloaded(r, b)
  BY DEF Undisturbed
<1> QED BY <1>1, <1>2 DEF Undisturbed, Inside

\* One more register.
LEMMA ReadGoesOn ==
    ASSUME NEW r, r.op = "preload" => Mapped(r),
           NEW t, NEW g, NEW w, NEW x, NEW c, NEW b, NEW an, NEW file,
           Undisturbed("v_read", r, t, g, w, x, c, b, an, file), t # <<>>
    PROVE  Undisturbed("v_read", r, Tail(t), Append(g, b.image[Head(t)]), w, x, c, b, an, file)
<1>1. ASSUME r.op = "preload"
      PROVE  \E n \in Nat : Fetched(r, Tail(t), Append(g, b.image[Head(t)]), n, b.image)
  <2> DEFINE l == ReadList(r.maps)
             e == b.image[Head(t)]
             h == Append(g, e)
  <2>1. IsSeq(l)
    BY <1>1, ReadListHas
  <2>2. PICK n \in Nat : Fetched(r, t, g, n, b.image)
    BY <1>1 DEF Undisturbed
  <2>3. /\ n \in 0 .. Len(l) /\ t = SubSeq(l, n + 1, Len(l)) /\ IsSeq(g) /\ Len(g) = n
        /\ \A k \in 1 .. n : g[k] = b.image[l[k]]
    BY <2>2 DEF Fetched
  <2> HIDE DEF l
  <2>4. Len(l) \in Nat
    BY <2>1 DEF IsSeq
  <2>5. n # Len(l)
    BY <2>1, <2>3, Rest
  <2>6. n < Len(l) /\ n + 1 \in 0 .. Len(l) /\ n + 2 = (n + 1) + 1
    BY <2>3, <2>4, <2>5
  <2>7. Head(t) = l[n + 1] /\ Tail(t) = SubSeq(l, (n + 1) + 1, Len(l))
    BY <2>1, <2>3, <2>6, Rest
  <2>8. /\ IsSeq(h) /\ Len(h) = n + 1 /\ (\A i \in 1 .. n : h[i] = g[i]) /\ h[n + 1] = e
    <3> HIDE DEF e, h
    <3> QED BY <2>3, AppendSeq DEF h
  <2> HIDE DEF h
  <2>9. ASSUME NEW k \in 1 .. n + 1 PROVE h[k] = b.image[l[k]]
    <3>1. CASE k = n + 1
      BY <3>1, <2>7, <2>8
    <3>2. CASE k # n + 1
      <4>1. k \in 1 .. n
        BY <3>2
      <4> QED BY <4>1, <2>3, <2>8
    <3> QED BY <3>1, <3>2
  <2>10. Fetched(r, Tail(t), h, n + 1, b.image)
    BY <2>6, <2>7, <2>8, <2>9 DEF Fetched, l
  <2>11. n + 1 \in Nat
    OBVIOUS
  <2> QED BY <2>10, <2>11 DEF h
<1>2. ~IsWrite(r) /\ c # 0 /\ x = c /\ Preloaded(r, b)
  BY DEF Undisturbed
<1> DEFINE u == Tail(t)
           h == Append(g, b.image[Head(t)])
<1> HIDE DEF u, h
<1>3. r.op = "preload" => \E n \in Nat : Fetched(r, u, h, n, b.image)
  BY <1>1 DEF u, h
<1>4. Undisturbed("v_read", r, u, h, w, x, c, b, an, file)
  BY <1>2, <1>3 DEF Undisturbed, Inside
<1> QED BY <1>4 DEF u, h

\* What the read-back answers.
LEMMA ReadAnswered ==
    ASSUME NEW r, r.op = "preload" => Mapped(r),
           NEW g, NEW w, NEW x, NEW c, NEW b, NEW an, NEW file,
           Undisturbed("v_read", r, <<>>, g, w, x, c, b, an, file),
           NEW z, z.snapshot = Seen(r, g, b.overlay)
    PROVE  Answered(r, c, b, z, file)
<1>1. ASSUME r.op = "preload" PROVE ReadsBack(r, z.snapshot)
  <2> DEFINE l == ReadList(r.maps)
  <2>1. IsSeq(l)
    BY <1>1, ReadListHas
  <2>2. PICK n \in Nat : Fetched(r, <<>>, g, n, b.image)
    BY <1>1 DEF Undisturbed
  <2>3. /\ n \in 0 .. Len(l) /\ <<>> = SubSeq(l, n + 1, Len(l)) /\ Len(g) = n
        /\ \A k \in 1 .. n : g[k] = b.image[l[k]]
    BY <2>2 DEF Fetched
  <2>4. n = Len(l)
    <3> HIDE DEF l
    <3> QED BY <2>1, <2>3, Rest
  <2>5. b = [image |-> PreloadImage(r), overlay |-> r.init.overlay]
    BY <1>1 DEF Undisturbed, Preloaded
  <2>6. b.image = PreloadImage(r) /\ b.overlay = r.init.overlay
    BY <2>5
  <2>7. Len(g) = Len(l) /\ \A k \in 1 .. Len(l) : g[k] = PreloadImage(r)[l[k]]
    <3> HIDE DEF l
    <3> QED BY <2>3, <2>4, <2>6
  <2>8. ReadsBack(r, Seen(r, g, r.init.overlay))
    BY <1>1, <2>7, PreloadReadsBack
  <2> QED BY <2>6, <2>8
<1>2. ~IsWrite(r)
  BY DEF Undisturbed
<1> QED BY <1>1, <1>2 DEF Answered

-----------------------------------------------------------------------------
(* The steps of the adapter and VInv. *)

\* A step of th leaves what belongs to the other threads.
OthersSame(th) ==
    \A o \in Thread \ {th} :
        /\ pc'[o] = pc[o] /\ req'[o] = req[o] /\ ans'[o] = ans[o] /\ todo'[o] = todo[o]
        /\ got'[o] = got[o] /\ rt'[o] = rt[o] /\ word'[o] = word[o]

\* It is noted when it changes the runtime of another thread's asset.
Noticed(o) ==
    LET a == req[o].asset IN
    pc[o] # "idle" /\ ~mixed'[o] =>
        /\ ~mixed[o] /\ started'[o] = started[o]
        /\ current'[a] = current[a]
        /\ RuntimeIn(current', runtimes', a) = RuntimeIn(current, runtimes, a)

\* Runtimes are added, and none is given to a second asset.
Grows ==
    /\ Len(runtimes') >= Len(runtimes)
    /\ \A a \in Asset : current'[a] \in 1 .. Len(runtimes) => current'[a] = current[a]

\* What an undisturbed request is to be after the step.
Remains(th) ==
    Undisturbed(pc'[th], req'[th], todo'[th], got'[th], word'[th], rt'[th],
                current'[req'[th].asset], RuntimeIn(current', runtimes', req'[th].asset),
                ans'[th], started'[th])

\* A request that is being served concerns an asset.
LEMMA Serves ==
    ASSUME IInv, NEW th \in Thread, pc[th] # "idle"
    PROVE  req[th] \in Requests /\ req[th].asset \in Asset
<1>1. req[th] \in Requests
  BY DEF IInv, Plain, Shape
<1>2. \A r \in Requests : r.asset \in Asset
  BY DEF Requests, ReadRequest, SafeStateRequest, ExecuteRequest, PreloadRequest
<1> QED BY <1>1, <1>2

\* It remains to look at the thread that takes the step.
LEMMA StepAlright ==
    ASSUME IInv, VInv, NEW th \in Thread, OthersSame(th), Objects', Grows,
           \A o \in Thread \ {th} : Noticed(o),
           Reference(th)',
           pc'[th] # "idle" /\ ~mixed'[th] => Remains(th)
    PROVE  VInv'
<1>1. ASSUME NEW o \in Thread, o # th PROVE Alright(o)'
  <2>1. /\ pc'[o] = pc[o] /\ req'[o] = req[o] /\ ans'[o] = ans[o] /\ todo'[o] = todo[o]
        /\ got'[o] = got[o] /\ rt'[o] = rt[o] /\ word'[o] = word[o]
    BY <1>1 DEF OthersSame
  <2>2. Alright(o) /\ Noticed(o)
    BY <1>1 DEF VInv
  <2>3. Len(runtimes) \in Nat /\ Len(runtimes') \in Nat
    BY DEF IInv, Store, IsSeq, Objects
  <2>4. Reference(o)'
    <3>1. Reference(o)
      BY <2>2 DEF Alright
    <3>2. rt[o] \in 0 .. Len(runtimes')
      BY <3>1, <2>3 DEF Reference, Grows
    <3>3. \A a \in Asset : current'[a] = rt[o] /\ rt[o] # 0 => current[a] = rt[o]
      BY <3>1, <2>3 DEF Reference, Grows
    <3> QED BY <2>1, <3>1, <3>2, <3>3 DEF Reference
  <2>5. ASSUME pc'[o] # "idle", ~mixed'[o] PROVE Remains(o)
    <3>1. Undisturbed(pc[o], req[o], todo[o], got[o], word[o], rt[o],
                      current[req[o].asset], RuntimeIn(current, runtimes, req[o].asset), ans[o], started[o])
      BY <2>1, <2>2, <2>5 DEF Alright, Noticed
    <3>2. /\ started'[o] = started[o] /\ current'[req[o].asset] = current[req[o].asset]
          /\ RuntimeIn(current', runtimes', req[o].asset) = RuntimeIn(current, runtimes, req[o].asset)
      BY <2>1, <2>2, <2>5 DEF Noticed
    <3> QED BY <2>1, <3>1, <3>2 DEF Remains
  <2> QED BY <2>4, <2>5 DEF Alright, Remains
<1>2. Alright(th)'
  BY DEF Alright, Remains
<1> QED BY <1>1, <1>2 DEF VInv

\* A step that leaves the runtimes and what other threads see of them.
LEMMA QuietStep ==
    ASSUME IInv, VInv, NEW th \in Thread, OthersSame(th), UNCHANGED virtualVars,
           Rows',
           \A o \in Thread \ {th} : started'[o] = started[o] /\ mixed'[o] = mixed[o],
           Reference(th)',
           pc'[th] # "idle" /\ ~mixed'[th] => Remains(th)
    PROVE  VInv'
<1>1. current' = current /\ runtimes' = runtimes
  BY DEF virtualVars
<1>2. Objects'
  BY <1>1 DEF VInv, Objects
<1>3. Grows
  BY <1>1 DEF Grows, VInv, Objects, IsSeq
<1>4. \A o \in Thread \ {th} : Noticed(o)
  BY <1>1 DEF Noticed
<1> QED BY <1>2, <1>3, <1>4, StepAlright

\* Row by row: what a step of th writes is its own.
Moves(th, p, r, a, t, g, x, w) ==
    /\ pc' = [pc EXCEPT ![th] = p] /\ req' = [req EXCEPT ![th] = r] /\ ans' = [ans EXCEPT ![th] = a]
    /\ todo' = [todo EXCEPT ![th] = t] /\ got' = [got EXCEPT ![th] = g]
    /\ rt' = [rt EXCEPT ![th] = x] /\ word' = [word EXCEPT ![th] = w]

\* The rows of th are those written, and the others are the same.
LEMMA OwnRows ==
    ASSUME IInv, VInv, NEW th \in Thread, NEW p, NEW r, NEW a, NEW t, NEW g, NEW x, NEW w,
           Moves(th, p, r, a, t, g, x, w)
    PROVE  /\ OthersSame(th)
           /\ UNCHANGED <<started, mixed>> => Rows'
           /\ pc'[th] = p /\ req'[th] = r /\ ans'[th] = a /\ todo'[th] = t /\ got'[th] = g
           /\ rt'[th] = x /\ word'[th] = w
BY DEF IInv, Plain, VInv, Objects, Rows, OthersSame, Moves

\* What is not written is written as it is.
LEMMA SameRows ==
    ASSUME IInv, VInv, NEW th \in Thread
    PROVE  /\ req = [req EXCEPT ![th] = req[th]] /\ rt = [rt EXCEPT ![th] = rt[th]]
           /\ todo = [todo EXCEPT ![th] = todo[th]] /\ got = [got EXCEPT ![th] = got[th]]
           /\ ans = [ans EXCEPT ![th] = ans[th]] /\ word = [word EXCEPT ![th] = word[th]]
BY DEF IInv, Plain, VInv, Objects, Rows

\* A request arrives: a write goes to the runtime it finds, a preload goes on
\* to build one, and neither has done anything yet.
LEMMA RequestAlright ==
    ASSUME IInv, VInv, NEW th \in Thread, Request(th)
    PROVE  VInv'
<1>r. PICK r \in Requests :
        /\ pc[th] = "idle"
        /\ req' = [req EXCEPT ![th] = r]
        /\ started' = [started EXCEPT ![th] = IF IsWrite(r) THEN Image(r.asset) ELSE ZeroRegs]
        /\ todo' = [todo EXCEPT ![th] = IF Refusal(r) = "none" THEN WorkList(r) ELSE <<>>]
        /\ ans' = [ans EXCEPT ![th] = IF Refusal(r) = "none" THEN NoAnswer
                                      ELSE Answer(Refusal(r), FALSE, <<>>)]
        /\ pc' = [pc EXCEPT ![th] = Route(r)]
        /\ UNCHANGED virtualVars /\ UNCHANGED <<got, rt, word, mixed>>
  BY DEF Request, Goto
<1> DEFINE p == Route(r)
           t == IF Refusal(r) = "none" THEN WorkList(r) ELSE <<>>
           a == IF Refusal(r) = "none" THEN NoAnswer ELSE Answer(Refusal(r), FALSE, <<>>)
           f == IF IsWrite(r) THEN Image(r.asset) ELSE ZeroRegs
<1>1. /\ got' = [got EXCEPT ![th] = got[th]] /\ rt' = [rt EXCEPT ![th] = rt[th]]
      /\ word' = [word EXCEPT ![th] = word[th]]
  BY <1>r, SameRows
<1>2. /\ OthersSame(th) /\ pc'[th] = p /\ req'[th] = r /\ ans'[th] = a /\ todo'[th] = t
      /\ rt'[th] = rt[th]
  <2> HIDE DEF p, t, a, f
  <2>1. Moves(th, p, r, a, t, got[th], rt[th], word[th])
    BY <1>r, <1>1 DEF Moves, p, t, a
  <2> QED BY <2>1, OwnRows
<1>3. started'[th] = f /\ Rows' /\ \A o \in Thread \ {th} : started'[o] = started[o] /\ mixed'[o] = mixed[o]
  BY <1>r DEF VInv, Objects, Rows
<1>4. Reference(th) /\ rt[th] = 0
  BY <1>r DEF VInv, Alright, Reference
<1>5. Reference(th)'
  BY <1>r, <1>2, <1>4 DEF Reference, virtualVars
<1> DEFINE c == current[r.asset]
           b == RuntimeIn(current, runtimes, r.asset)
<1>6. r.asset \in Asset
  BY DEF Requests, ReadRequest, SafeStateRequest, ExecuteRequest, PreloadRequest
<1>7. Undisturbed(p, r, t, got'[th], word'[th], rt'[th], c, b, a, f)
  <2>1. CASE Refusal(r) # "none"
    <3>1. p = "done" /\ a.status # "ok"
      BY <2>1, Routes DEF Answer
    <3> HIDE DEF p, a
    <3> QED BY <3>1 DEF Undisturbed, Inside, Answered
  <2>2. CASE Refusal(r) = "none" /\ r.op = "preload"
    <3>1. p = "preload"
      BY <2>2, Routes
    <3> HIDE DEF p
    <3> QED BY <2>2, <3>1 DEF Undisturbed, Inside
  <2>3. CASE Refusal(r) = "none" /\ r.op # "preload"
    <3>1. p = IF c = 0 THEN "lock" ELSE IF IsWrite(r) THEN "v_write" ELSE "v_fetch"
      BY <2>3 DEF Route
    <3>2. CASE p \in {"lock", "v_fetch"}
      <4> HIDE DEF p
      <4> QED BY <2>3, <3>1, <3>2 DEF Undisturbed, Inside, Preloaded
    <3>3. CASE p = "v_write"
      <4>1. c # 0 /\ IsWrite(r) /\ t = r.prog
        BY <2>3, <3>1, <3>3 DEF WorkList
      <4>2. c \in 1 .. Len(runtimes)
        BY <1>6, <4>1 DEF IInv, Store
      <4>3. b = runtimes[c] /\ IsRuntime(b) /\ f = b.image
        BY <4>1, <4>2 DEF RuntimeIn, Image, VInv, Objects
      <4>4. IsSeq(r.prog)
        BY RequestAssumption
      <4>5. Len(r.prog) \in Nat /\ SubSeq(r.prog, 1, Len(r.prog)) = r.prog /\ SubSeq(r.prog, 1, 0) = <<>>
        BY <4>4, Whole DEF IsSeq
      <4>6. Overlay(f, <<>>) = f
        <5> DEFINE D == {f[x] : x \in Reg}
        <5> HIDE DEF f, b
        <5>1. f = [x \in Reg |-> f[x]]
          BY <4>3 DEF IsRuntime
        <5>2. f \in [Reg -> D]
          BY <5>1
        <5> HIDE DEF D
        <5> QED BY <5>2, OverlayNothing
      <4>7. Done(r, t, 0, b.image, f)
        <5> HIDE DEF t, b, f
        <5>1. 0 \in 0 .. Len(r.prog) /\ 0 + 1 = 1
          BY <4>5
        <5> QED BY <4>1, <4>3, <4>5, <4>6, <5>1 DEF Done
      <4> HIDE DEF p, c, b, f, t
      <4> QED BY <3>3, <4>1, <4>7 DEF Undisturbed, Inside
    <3> QED BY <3>1, <3>2, <3>3
  <2> QED BY <2>1, <2>2, <2>3
<1>8. Remains(th)
  <2>1. current'[req'[th].asset] = c /\ RuntimeIn(current', runtimes', req'[th].asset) = b
    BY <1>r, <1>2 DEF virtualVars
  <2> HIDE DEF p, t, a, f, c, b
  <2> QED BY <1>2, <1>3, <1>7, <2>1 DEF Remains
<1> QED BY <1>r, <1>2, <1>3, <1>5, <1>8, QuietStep

\* The answer is sent.
LEMMA ReturnAlright ==
    ASSUME IInv, VInv, NEW th \in Thread, Return(th)
    PROVE  VInv'
<1>1. /\ pc[th] = "done" /\ pc' = [pc EXCEPT ![th] = "idle"] /\ req' = [req EXCEPT ![th] = NoRequest]
      /\ ans' = [ans EXCEPT ![th] = NoAnswer] /\ UNCHANGED <<todo, got, rt, word>> /\ UNCHANGED virtualVars
      /\ started' = [started EXCEPT ![th] = ZeroRegs] /\ mixed' = [mixed EXCEPT ![th] = FALSE]
  BY DEF Return, Goto, localVars
<1>2. /\ todo' = [todo EXCEPT ![th] = todo[th]] /\ got' = [got EXCEPT ![th] = got[th]]
      /\ rt' = [rt EXCEPT ![th] = rt[th]] /\ word' = [word EXCEPT ![th] = word[th]]
  BY <1>1, SameRows
<1>3. OthersSame(th) /\ pc'[th] = "idle" /\ rt'[th] = rt[th]
  <2>1. Moves(th, "idle", NoRequest, NoAnswer, todo[th], got[th], rt[th], word[th])
    BY <1>1, <1>2 DEF Moves
  <2> QED BY <2>1, OwnRows
<1>4. Rows' /\ \A o \in Thread \ {th} : started'[o] = started[o] /\ mixed'[o] = mixed[o]
  BY <1>1 DEF VInv, Objects, Rows
<1>5. Reference(th) /\ rt[th] = 0
  BY <1>1 DEF VInv, Alright, Reference
<1>6. Reference(th)'
  BY <1>1, <1>3, <1>5 DEF Reference, virtualVars
<1> QED BY <1>1, <1>3, <1>4, <1>6, QuietStep

\* A step of _run_with_recovery, which leaves the runtimes alone.
LEMMA PhysicalStays ==
    ASSUME IInv, VInv, NEW th \in Thread, pc[th] \in Inside \cup {"lock"},
           NEW p \in Inside \cup {"done"}, NEW a, NEW t, NEW g, NEW w,
           Moves(th, p, req[th], a, t, g, rt[th], w),
           UNCHANGED virtualVars, UNCHANGED <<started, mixed>>,
           p = "done" => ~a.virtual
    PROVE  VInv'
<1>1. /\ OthersSame(th) /\ Rows' /\ pc'[th] = p /\ req'[th] = req[th] /\ ans'[th] = a
      /\ todo'[th] = t /\ got'[th] = g /\ rt'[th] = rt[th] /\ word'[th] = w
  BY OwnRows
<1>2. Reference(th) /\ rt[th] = 0
  BY DEF VInv, Alright, Reference, Inside
<1>3. Reference(th)'
  BY <1>1, <1>2 DEF Reference, virtualVars
<1>4. ASSUME ~mixed'[th] PROVE Remains(th)
  <2>1. req[th].op # "preload"
    <3>1. pc[th] # "idle" /\ ~mixed[th]
      BY <1>4 DEF Inside
    <3>2. Undisturbed(pc[th], req[th], todo[th], got[th], word[th], rt[th],
                      current[req[th].asset], RuntimeIn(current, runtimes, req[th].asset), ans[th], started[th])
      BY <3>1 DEF VInv, Alright
    <3> QED BY <3>2 DEF Undisturbed
  <2>2. \A c, b, f : Undisturbed(p, req[th], t, g, w, rt[th], c, b, a, f)
    BY <2>1 DEF Undisturbed, Answered, Inside
  <2> QED BY <1>1, <2>2 DEF Remains
<1> QED BY <1>1, <1>3, <1>4, QuietStep

\* The end of an operation, as rows.
LEMMA ReplyMoves ==
    ASSUME IInv, VInv, NEW th \in Thread, NEW a, Reply(th, a), UNCHANGED rt
    PROVE  Moves(th, "done", req[th], a, <<>>, <<>>, rt[th], 1)
BY SameRows DEF Reply, Goto, Moves

\* A step that only goes on, as rows.
LEMMA GoesTo ==
    ASSUME IInv, VInv, NEW th \in Thread, NEW p, Goto(th, p), UNCHANGED <<req, ans, todo, got, rt, word>>
    PROVE  Moves(th, p, req[th], ans[th], todo[th], got[th], rt[th], word[th])
BY SameRows DEF Goto, Moves

\* Leaving the with-block.
LEMMA ReleaseAlright ==
    ASSUME IInv, VInv, NEW th \in Thread, pc[th] \in Inside, NEW failed, NEW a, Release(th, failed, a),
           UNCHANGED virtualVars, ~a.virtual
    PROVE  VInv'
<1>1. Reply(th, a) /\ UNCHANGED rt /\ UNCHANGED <<started, mixed>>
  BY DEF Release
<1>2. Moves(th, "done", req[th], a, <<>>, <<>>, rt[th], 1)
  BY <1>1, ReplyMoves
<1>3. "done" \in Inside \cup {"done"}
  OBVIOUS
<1> QED BY <1>1, <1>2, <1>3, PhysicalStays

\* fn raises: a retry, or the end.
LEMMA FnRaisesAlright ==
    ASSUME IInv, VInv, NEW th \in Thread, pc[th] \in Inside, FnRaises(th), UNCHANGED virtualVars
    PROVE  VInv'
<1>1. CASE attempt[th] = 1
  <2>1. /\ Goto(th, "connect") /\ todo' = [todo EXCEPT ![th] = WorkList(req[th])]
        /\ got' = [got EXCEPT ![th] = <<>>] /\ UNCHANGED <<req, ans, rt, word>>
        /\ UNCHANGED <<started, mixed>>
    BY <1>1 DEF FnRaises, historyVars
  <2> DEFINE l == WorkList(req[th])
             z == <<>>
             p == "connect"
  <2>2. p \in Inside \cup {"done"} /\ p # "done"
    BY DEF Inside
  <2>3. Moves(th, p, req[th], ans[th], l, z, rt[th], word[th])
    BY <2>1, SameRows DEF Goto, Moves
  <2> HIDE DEF l, z, p
  <2> QED BY <2>1, <2>2, <2>3, PhysicalStays
<1>2. CASE attempt[th] # 1
  <2> DEFINE a == Answer(FailStatus(req[th]), FALSE, <<>>)
  <2>1. Release(th, TRUE, a)
    BY <1>2 DEF FnRaises
  <2>2. ~a.virtual
    BY DEF Answer
  <2> HIDE DEF a
  <2> QED BY <2>1, <2>2, ReleaseAlright
<1> QED BY <1>1, <1>2

\* Every step of _run_with_recovery.
LEMMA PhysicalAlright ==
    ASSUME IInv, VInv, NEW th \in Thread, Acquire(th) \/ PhysicalStep(th)
    PROVE  VInv'
<1>i. Inside = {"connect", "run"}
  BY DEF Inside
<1>1. CASE Acquire(th) \/ ConnectSucceeds(th)
  <2>1. PICK p \in {"run", "connect"} : Goto(th, p)
    BY <1>1 DEF Acquire, ConnectSucceeds
  <2>2. /\ UNCHANGED <<req, ans, todo, got, rt, word>> /\ UNCHANGED virtualVars
        /\ UNCHANGED <<started, mixed>> /\ pc[th] \in Inside \cup {"lock"}
    BY <1>1, <1>i DEF Acquire, ConnectSucceeds, localVars, historyVars
  <2>3. Moves(th, p, req[th], ans[th], todo[th], got[th], rt[th], word[th])
    BY <2>1, <2>2, GoesTo
  <2>4. p \in Inside \cup {"done"} /\ p # "done"
    BY <1>i
  <2> QED BY <2>2, <2>3, <2>4, PhysicalStays
<1>2. CASE ConnectFails(th)
  <2> DEFINE a == Answer(FailStatus(req[th]), FALSE, <<>>)
  <2>1. Release(th, TRUE, a) /\ UNCHANGED virtualVars /\ pc[th] \in Inside
    BY <1>2, <1>i DEF ConnectFails
  <2>2. ~a.virtual
    BY DEF Answer
  <2> HIDE DEF a
  <2> QED BY <2>1, <2>2, ReleaseAlright
<1>3. CASE RunDone(th)
  <2>1. PICK s : Release(th, FALSE, Answer("ok", FALSE, s))
    BY <1>3 DEF RunDone
  <2> DEFINE a == Answer("ok", FALSE, s)
  <2>2. ~a.virtual
    BY DEF Answer
  <2>3. UNCHANGED virtualVars /\ pc[th] \in Inside /\ Release(th, FALSE, a)
    BY <1>3, <1>i, <2>1 DEF RunDone
  <2> HIDE DEF a
  <2> QED BY <2>2, <2>3, ReleaseAlright
<1>4. CASE WriteSucceeds(th) \/ ReadSucceeds(th)
  <2>1. /\ pc[th] = "run" /\ UNCHANGED virtualVars /\ UNCHANGED <<started, mixed>>
        /\ UNCHANGED <<pc, req, ans, rt, word>>
    BY <1>4 DEF WriteSucceeds, ReadSucceeds, historyVars
  <2> DEFINE c == req[th].conn
             e == Append(got[th], DeviceWords(regs[c], live[c], Head(todo[th])))
  <2>2. PICK g : got' = [got EXCEPT ![th] = g]
    <3>1. got' = got \/ got' = [got EXCEPT ![th] = e]
      BY <1>4 DEF WriteSucceeds, ReadSucceeds
    <3>2. got = [got EXCEPT ![th] = got[th]]
      BY SameRows
    <3> HIDE DEF e
    <3> QED BY <3>1, <3>2
  <2>3. todo' = [todo EXCEPT ![th] = Tail(todo[th])]
    BY <1>4 DEF WriteSucceeds, ReadSucceeds
  <2> DEFINE t == Tail(todo[th])
             p == "run"
  <2>4. pc' = [pc EXCEPT ![th] = p]
    BY <2>1, Same
  <2>5. Moves(th, p, req[th], ans[th], t, g, rt[th], word[th])
    BY <2>1, <2>2, <2>3, <2>4, SameRows DEF Moves
  <2>6. p \in Inside \cup {"done"} /\ p # "done" /\ pc[th] \in Inside \cup {"lock"}
    BY <1>i, <2>1
  <2> HIDE DEF t, p, e
  <2> QED BY <2>1, <2>5, <2>6, PhysicalStays
<1>5. CASE IoFails(th) \/ ResponseLost(th)
  <2>1. FnRaises(th) /\ UNCHANGED virtualVars /\ pc[th] \in Inside
    BY <1>5, <1>i DEF IoFails, ResponseLost
  <2> QED BY <2>1, FnRaisesAlright
<1> QED BY <1>1, <1>2, <1>3, <1>4, <1>5 DEF PhysicalStep

\* A request on the virtual path that was left alone, in its own words.
LEMMA Holds ==
    ASSUME IInv, VInv, NEW th \in Thread, pc[th] # "idle", ~mixed[th]
    PROVE  /\ Undisturbed(pc[th], req[th], todo[th], got[th], word[th], rt[th], current[req[th].asset],
                          RuntimeIn(current, runtimes, req[th].asset), ans[th], started[th])
           /\ current[req[th].asset] # 0 =>
                /\ current[req[th].asset] \in 1 .. Len(runtimes)
                /\ RuntimeIn(current, runtimes, req[th].asset) = runtimes[current[req[th].asset]]
                /\ IsRuntime(runtimes[current[req[th].asset]])
<1>1. req[th].asset \in Asset
  BY Serves
<1>2. current[req[th].asset] \in 0 .. Len(runtimes) /\ Len(runtimes) \in Nat
  BY <1>1 DEF IInv, Store, IsSeq
<1> QED BY <1>2 DEF VInv, Alright, Objects, RuntimeIn

\* A step on the virtual path that takes or keeps a reference and leaves the
\* runtimes alone.
LEMMA VirtualStays ==
    ASSUME IInv, VInv, NEW th \in Thread, pc[th] # "idle",
           NEW p \in {"v_word", "v_read"}, NEW t, NEW g, NEW x, NEW w,
           Moves(th, p, req[th], ans[th], t, g, x, w), x \in {rt[th], current[req[th].asset]},
           UNCHANGED virtualVars, UNCHANGED <<started, mixed>>,
           ~mixed[th] => Undisturbed(p, req[th], t, g, w, x, current[req[th].asset],
                            RuntimeIn(current, runtimes, req[th].asset), ans[th], started[th])
    PROVE  VInv'
<1>1. /\ OthersSame(th) /\ Rows' /\ pc'[th] = p /\ req'[th] = req[th] /\ ans'[th] = ans[th]
      /\ todo'[th] = t /\ got'[th] = g /\ rt'[th] = x /\ word'[th] = w
  BY OwnRows
<1>2. current' = current /\ runtimes' = runtimes
  BY DEF virtualVars
<1>3. Reference(th)'
  <2>1. req[th].asset \in Asset
    BY Serves
  <2>2. x \in 0 .. Len(runtimes)
    BY <2>1 DEF VInv, Alright, Reference, IInv, Store
  <2>3. \A a \in Asset : current[a] = x /\ x # 0 => req[th].asset = a
    BY <2>1 DEF VInv, Alright, Reference, Objects
  <2> QED BY <1>1, <1>2, <2>2, <2>3 DEF Reference
<1>4. ~mixed'[th] => Remains(th)
  BY <1>1, <1>2 DEF Remains
<1> QED BY <1>1, <1>3, <1>4, QuietStep

\* A write takes its reference.
LEMMA FetchAlright ==
    ASSUME IInv, VInv, NEW th \in Thread, VirtualFetch(th)
    PROVE  VInv'
<1> DEFINE c == current[req[th].asset]
<1>1. /\ pc[th] = "v_write" /\ todo[th] # <<>> /\ Head(todo[th]) # Raise
      /\ rt' = [rt EXCEPT ![th] = c] /\ word' = [word EXCEPT ![th] = 1] /\ Goto(th, "v_word")
      /\ UNCHANGED virtualVars /\ UNCHANGED <<req, ans, todo, got>> /\ UNCHANGED <<started, mixed>>
  BY DEF VirtualFetch, historyVars
<1>2. Moves(th, "v_word", req[th], ans[th], todo[th], got[th], c, 1)
  BY <1>1, SameRows DEF Goto, Moves
<1>3. req[th] \in Requests
  BY <1>1, Serves
<1>4. ASSUME ~mixed[th]
      PROVE  Undisturbed("v_word", req[th], todo[th], got[th], 1, c, c,
                         RuntimeIn(current, runtimes, req[th].asset), ans[th], started[th])
  <2> DEFINE b == RuntimeIn(current, runtimes, req[th].asset)
  <2>1. /\ Undisturbed("v_write", req[th], todo[th], got[th], word[th], rt[th], c, b, ans[th], started[th])
        /\ c # 0 => IsRuntime(b)
    BY <1>1, <1>4, Holds
  <2>2. c # 0
    BY <2>1 DEF Undisturbed
  <2>3. Undisturbed("v_word", req[th], todo[th], got[th], 1, c, c, b, ans[th], started[th])
    <3> HIDE DEF b, c
    <3> QED BY <1>1, <1>3, <2>1, <2>2, FetchMoves
  <2> QED BY <2>3
<1>5. pc[th] # "idle" /\ "v_word" \in {"v_word", "v_read"} /\ c \in {rt[th], current[req[th].asset]}
  BY <1>1
<1> HIDE DEF c
<1> DEFINE q == "v_word"
           n == 1
<1> HIDE DEF q, n
<1>6. /\ q \in {"v_word", "v_read"} /\ Moves(th, q, req[th], ans[th], todo[th], got[th], c, n)
      /\ ~mixed[th] => Undisturbed(q, req[th], todo[th], got[th], n, c, current[req[th].asset],
                            RuntimeIn(current, runtimes, req[th].asset), ans[th], started[th])
  BY <1>2, <1>4 DEF q, n, c
<1> QED BY <1>1, <1>5, <1>6, VirtualStays

\* A read takes its reference and starts at its first register.
LEMMA ReadFetchAlright ==
    ASSUME IInv, VInv, NEW th \in Thread, ReadFetch(th)
    PROVE  VInv'
<1> DEFINE r == req[th]
           c == current[r.asset]
           b == RuntimeIn(current, runtimes, r.asset)
           l == ReadList(r.maps)
           q == "v_read"
<1>1. /\ pc[th] = "v_fetch" /\ rt' = [rt EXCEPT ![th] = c] /\ todo' = [todo EXCEPT ![th] = l]
      /\ Goto(th, q) /\ UNCHANGED virtualVars /\ UNCHANGED <<req, ans, got, word>>
      /\ UNCHANGED <<started, mixed>>
  BY DEF ReadFetch, historyVars
<1>2. Moves(th, q, r, ans[th], l, got[th], c, word[th])
  BY <1>1, SameRows DEF Goto, Moves
<1>3. got[th] = <<>> /\ (r.op = "preload" => Mapped(r))
  <2>1. Shape(th)
    BY DEF IInv
  <2> QED BY <1>1, <2>1, Serves DEF Shape, Inside, Mapped
<1>4. ASSUME ~mixed[th]
      PROVE  Undisturbed(q, r, l, got[th], word[th], c, c, b, ans[th], started[th])
  <2>1. Undisturbed("v_fetch", r, todo[th], got[th], word[th], rt[th], c, b, ans[th], started[th])
    BY <1>1, <1>4, Holds
  <2>2. Undisturbed("v_read", r, l, <<>>, word[th], c, c, b, ans[th], started[th])
    <3> HIDE DEF b, c, r
    <3> QED BY <1>3, <2>1, ReadBegins
  <2> QED BY <2>2, <1>3
<1>5. pc[th] # "idle" /\ q \in {"v_word", "v_read"} /\ c \in {rt[th], current[req[th].asset]}
  BY <1>1
<1> HIDE DEF c, l, q, b
<1>6. ~mixed[th] => Undisturbed(q, r, l, got[th], word[th], c, current[req[th].asset],
                            RuntimeIn(current, runtimes, req[th].asset), ans[th], started[th])
  BY <1>4 DEF c, b
<1> QED BY <1>1, <1>2, <1>5, <1>6, VirtualStays

\* A read collects one more word of the image.
LEMMA ReadWordAlright ==
    ASSUME IInv, VInv, NEW th \in Thread, VirtualReadWord(th)
    PROVE  VInv'
<1> DEFINE r == req[th]
           c == current[r.asset]
           b == RuntimeIn(current, runtimes, r.asset)
           t == Tail(todo[th])
           g == Append(got[th], runtimes[rt[th]].image[Head(todo[th])])
           q == "v_read"
<1>1. /\ pc[th] = q /\ todo[th] # <<>> /\ got' = [got EXCEPT ![th] = g]
      /\ todo' = [todo EXCEPT ![th] = t] /\ UNCHANGED virtualVars
      /\ UNCHANGED <<pc, req, ans, rt, word>> /\ UNCHANGED <<started, mixed>>
  BY DEF VirtualReadWord, historyVars
<1>2. Moves(th, q, r, ans[th], t, g, rt[th], word[th])
  <2>1. pc' = [pc EXCEPT ![th] = q]
    BY <1>1, Same
  <2> HIDE DEF t, g, q
  <2> QED BY <1>1, <2>1, SameRows DEF Moves
<1>3. r.op = "preload" => Mapped(r)
  <2>1. Shape(th)
    BY DEF IInv
  <2> QED BY <1>1, <2>1, Serves DEF Shape, Mapped
<1>4. ASSUME ~mixed[th]
      PROVE  Undisturbed(q, r, t, g, word[th], rt[th], c, b, ans[th], started[th])
  <2>1. /\ Undisturbed(q, r, todo[th], got[th], word[th], rt[th], c, b, ans[th], started[th])
        /\ c # 0 => b = runtimes[c]
    BY <1>1, <1>4, Holds
  <2>2. c # 0 /\ rt[th] = c
    BY <2>1 DEF Undisturbed
  <2>3. g = Append(got[th], b.image[Head(todo[th])])
    BY <2>1, <2>2
  <2>4. Undisturbed(q, r, t, Append(got[th], b.image[Head(todo[th])]), word[th], rt[th], c, b, ans[th], started[th])
    <3> HIDE DEF b, c, r
    <3> QED BY <1>1, <1>3, <2>1, ReadGoesOn
  <2> HIDE DEF g, b, c, t
  <2> QED BY <2>3, <2>4
<1>5. pc[th] # "idle" /\ q \in {"v_word", "v_read"} /\ rt[th] \in {rt[th], current[req[th].asset]}
  BY <1>1
<1> HIDE DEF c, t, g, q, b
<1>6. ~mixed[th] => Undisturbed(q, r, t, g, word[th], rt[th], current[req[th].asset],
                            RuntimeIn(current, runtimes, req[th].asset), ans[th], started[th])
  BY <1>4 DEF c, b
<1> QED BY <1>1, <1>2, <1>5, <1>6, VirtualStays

\* Freeing a runtime leaves a fresh one in its place, and no published runtime
\* is freed.
LEMMA CollectedKeeps ==
    ASSUME NEW s, IsSeq(s), NEW i \in 1 .. Len(s)
    PROVE  /\ Collected(s)[i] = s[i] \/ Collected(s)[i] = NoRuntime
           /\ (\E a \in Asset : current'[a] = i) => Collected(s)[i] = s[i]
<1>1. i \in DOMAIN s
  BY DEF IsSeq
<1> HIDE DEF NoRuntime
<1> QED BY <1>1 DEF Collected

\* What freeing leaves of the objects s, when nothing is published.
LEMMA FreeingKeeps ==
    ASSUME IInv, VInv, Rows', current' = current,
           NEW s, IsSeq(s), Len(s) = Len(runtimes), \A i \in 1 .. Len(s) : IsRuntime(s[i]),
           runtimes' = Collected(s)
    PROVE  /\ Objects' /\ Grows /\ Len(runtimes') = Len(runtimes)
           /\ \A a \in Asset : RuntimeIn(current', runtimes', a) = RuntimeIn(current, s, a)
<1>1. IsSeq(runtimes') /\ Len(runtimes') = Len(s) /\ Len(s) \in Nat
  BY CollectedSeq DEF IsSeq
<1>2. IsRuntime(NoRuntime)
  BY DEF IsRuntime, NoRuntime, ZeroRegs
<1>3. \A i \in 1 .. Len(s) : IsRuntime(runtimes'[i])
  <2> HIDE DEF NoRuntime
  <2> QED BY <1>2, CollectedKeeps
<1>4. Objects'
  BY <1>1, <1>3 DEF Objects, VInv, IsRuntime
<1>5. Grows
  BY <1>1 DEF Grows
<1>6. ASSUME NEW a \in Asset
      PROVE  RuntimeIn(current', runtimes', a) = RuntimeIn(current, s, a)
  <2>1. CASE current[a] = 0
    BY <2>1 DEF RuntimeIn
  <2>2. CASE current[a] # 0
    <3>1. current[a] \in 1 .. Len(s)
      BY <2>2 DEF IInv, Store
    <3>2. runtimes'[current[a]] = s[current[a]]
      <4>1. \E d \in Asset : current'[d] = current[a]
        OBVIOUS
      <4> QED BY <3>1, <4>1, CollectedKeeps
    <3> QED BY <2>2, <3>2 DEF RuntimeIn
  <2> QED BY <2>1, <2>2
<1> QED BY <1>1, <1>4, <1>5, <1>6

\* A request on the virtual path is answered.
LEMMA VirtualReplyAlright ==
    ASSUME IInv, VInv, NEW th \in Thread, pc[th] # "idle", NEW a, VirtualReply(th, a), UNCHANGED historyVars,
           ~mixed[th] => Answered(req[th], current[req[th].asset],
                                  RuntimeIn(current, runtimes, req[th].asset), a, started[th])
    PROVE  VInv'
<1>1. /\ rt' = [rt EXCEPT ![th] = 0] /\ current' = current /\ runtimes' = Collected(runtimes)
      /\ UNCHANGED <<started, mixed>>
  BY DEF VirtualReply, historyVars
<1>2. Moves(th, "done", req[th], a, <<>>, <<>>, 0, 1)
  BY <1>1, SameRows DEF VirtualReply, Reply, Goto, Moves
<1>3. /\ OthersSame(th) /\ Rows' /\ pc'[th] = "done" /\ req'[th] = req[th] /\ ans'[th] = a
      /\ rt'[th] = 0
  BY <1>1, <1>2, OwnRows
<1>4. /\ Objects' /\ Grows /\ Len(runtimes') = Len(runtimes)
      /\ \A d \in Asset : RuntimeIn(current', runtimes', d) = RuntimeIn(current, runtimes, d)
  BY <1>1, <1>3, FreeingKeeps DEF VInv, Objects
<1>5. \A o \in Thread \ {th} : Noticed(o)
  BY <1>1, <1>4, Serves DEF Noticed
<1>6. Reference(th)'
  <2>1. Len(runtimes') \in Nat
    BY <1>4 DEF IsSeq, Objects
  <2> QED BY <1>3, <2>1 DEF Reference
<1>7. ASSUME ~mixed'[th] PROVE Remains(th)
  <2> DEFINE c == current[req[th].asset]
             b == RuntimeIn(current, runtimes, req[th].asset)
  <2>1. current'[req'[th].asset] = c /\ RuntimeIn(current', runtimes', req'[th].asset) = b
    BY <1>1, <1>3, <1>4, Serves
  <2>2. Answered(req[th], c, b, a, started'[th])
    BY <1>1, <1>7
  <2> HIDE DEF b, c
  <2>3. Undisturbed("done", req[th], todo'[th], got'[th], word'[th], rt'[th], c, b, a, started'[th])
    BY <2>2 DEF Undisturbed, Inside
  <2> QED BY <1>3, <2>1, <2>3 DEF Remains
<1> QED BY <1>3, <1>4, <1>5, <1>6, <1>7, StepAlright

\* A write has been carried out, or met an action that cannot be translated.
LEMMA WriteEndsAlright ==
    ASSUME IInv, VInv, NEW th \in Thread, VirtualWriteEnds(th)
    PROVE  VInv'
<1> DEFINE r == req[th]
           c == current[r.asset]
           b == RuntimeIn(current, runtimes, r.asset)
<1>1. pc[th] = "v_write" /\ UNCHANGED historyVars
  BY DEF VirtualWriteEnds
<1>2. CASE todo[th] = <<>> /\ VirtualReply(th, Answer("ok", TRUE, <<>>))
  <2> DEFINE a == Answer("ok", TRUE, <<>>)
  <2> HIDE DEF a
  <2>1. ASSUME ~mixed[th] PROVE Answered(r, c, b, a, started[th])
    <3>1. /\ Undisturbed("v_write", r, <<>>, got[th], word[th], rt[th], c, b, ans[th], started[th])
          /\ r \in Requests /\ (c # 0 => IsRuntime(b))
      BY <1>1, <1>2, <2>1, Holds, Serves
    <3>2. c # 0
      BY <3>1 DEF Undisturbed
    <3> HIDE DEF r, c, b
    <3> QED BY <3>1, <3>2, WriteAnswered
  <2> QED BY <1>1, <1>2, <2>1, VirtualReplyAlright DEF a
<1>3. CASE VirtualReply(th, Answer("failed", TRUE, <<>>))
  <2> DEFINE a == Answer("failed", TRUE, <<>>)
  <2>1. Answered(r, c, b, a, started[th])
    BY DEF Answered, Answer
  <2> HIDE DEF a
  <2> QED BY <1>1, <1>3, <2>1, VirtualReplyAlright DEF a
<1> QED BY <1>2, <1>3 DEF VirtualWriteEnds

\* A read has collected its words.
LEMMA ReadEndsAlright ==
    ASSUME IInv, VInv, NEW th \in Thread, VirtualReadEnds(th)
    PROVE  VInv'
<1> DEFINE r == req[th]
           c == current[r.asset]
           b == RuntimeIn(current, runtimes, r.asset)
           a == Answer("ok", TRUE, Seen(r, got[th], runtimes[rt[th]].overlay))
<1>1. pc[th] = "v_read" /\ todo[th] = <<>> /\ VirtualReply(th, a) /\ UNCHANGED historyVars
  BY Zenon DEF VirtualReadEnds, Seen
<1>2. r.op = "preload" => Mapped(r)
  <2>1. Shape(th)
    BY DEF IInv
  <2> QED BY <1>1, <2>1, Serves DEF Shape, Mapped
<1>3. a.snapshot = Seen(r, got[th], runtimes[rt[th]].overlay)
  BY DEF Answer
<1> HIDE DEF a
<1>4. ASSUME ~mixed[th] PROVE Answered(r, c, b, a, started[th])
  <2>1. /\ Undisturbed("v_read", r, <<>>, got[th], word[th], rt[th], c, b, ans[th], started[th])
        /\ c # 0 => b = runtimes[c]
    BY <1>1, <1>4, Holds
  <2>2. c # 0 /\ rt[th] = c
    BY <2>1 DEF Undisturbed
  <2>3. a.snapshot = Seen(r, got[th], b.overlay)
    BY <1>3, <2>1, <2>2
  <2> HIDE DEF r, c, b
  <2> QED BY <1>2, <2>1, <2>3, ReadAnswered
<1> QED BY <1>1, <1>4, VirtualReplyAlright

\* The word v in register x of a runtime, and of the object k.
WithWord(b, x, v) == [b EXCEPT !.image[x] = v]
Stored(s, k, x, v) == [s EXCEPT ![k].image[x] = v]

\* It changes that object alone, and leaves a runtime there.
LEMMA StoredWord ==
    ASSUME NEW s, IsSeq(s), \A i \in 1 .. Len(s) : IsRuntime(s[i]), NEW k, NEW x, NEW v
    PROVE  /\ IsSeq(Stored(s, k, x, v)) /\ Len(Stored(s, k, x, v)) = Len(s)
           /\ \A i \in 1 .. Len(s) : /\ IsRuntime(Stored(s, k, x, v)[i])
                                     /\ i # k => Stored(s, k, x, v)[i] = s[i]
           /\ k \in 1 .. Len(s) => Stored(s, k, x, v)[k] = WithWord(s[k], x, v)
<1> DEFINE t == Stored(s, k, x, v)
<1>1. Len(s) \in Nat /\ DOMAIN s = 1 .. Len(s) /\ s = [i \in 1 .. Len(s) |-> s[i]]
  BY DEF IsSeq
<1>2. /\ t = [i \in 1 .. Len(s) |-> t[i]]
      /\ \A i \in 1 .. Len(s) : i # k => t[i] = s[i]
      /\ k \in 1 .. Len(s) => t[k] = WithWord(s[k], x, v)
  BY <1>1 DEF Stored, WithWord
<1> HIDE DEF t
<1>3. IsSeq(t) /\ Len(t) = Len(s)
  BY <1>1, <1>2, FunSeq
<1>4. ASSUME NEW b, IsRuntime(b) PROVE IsRuntime(WithWord(b, x, v))
  BY <1>4 DEF IsRuntime, WithWord
<1>5. \A i \in 1 .. Len(s) : IsRuntime(t[i])
  BY <1>2, <1>4
<1> QED BY <1>2, <1>3, <1>5 DEF t

\* Who is disturbed by a change of the runtime of asset a.
LEMMA TouchedThreads ==
    ASSUME NEW th, NEW a, Touch(th, a)
    PROVE  /\ \A o \in Thread : mixed'[o] <=> (mixed[o] \/ (o # th /\ pc[o] # "idle" /\ req[o].asset = a))
           /\ \A o \in Thread : ~mixed'[o] => started'[o] = started[o]
           /\ mixed' = [o \in Thread |-> mixed'[o]] /\ started' = [o \in Thread |-> started'[o]]
<1> DEFINE m(o) == mixed[o] \/ (o # th /\ pc[o] # "idle" /\ req[o].asset = a)
<1>1. /\ mixed' = [o \in Thread |-> m(o)]
      /\ started' = [o \in Thread |-> IF mixed'[o] THEN ZeroRegs ELSE started[o]]
  BY DEF Touch
<1>2. \A o \in Thread : mixed'[o] <=> m(o)
  <2> HIDE DEF m
  <2> QED BY <1>1
<1>3. \A o \in Thread : ~mixed'[o] => started'[o] = started[o]
  <2> HIDE DEF ZeroRegs, m
  <2> QED BY <1>1
<1>4. mixed' = [o \in Thread |-> mixed'[o]] /\ started' = [o \in Thread |-> started'[o]]
  <2> HIDE DEF ZeroRegs, m
  <2> QED BY <1>1
<1> QED BY <1>2, <1>3, <1>4

\* One word of a virtual write: the writer's image goes on, and whoever else
\* works on that runtime has been disturbed.
LEMMA WordAlright ==
    ASSUME IInv, VInv, NEW th \in Thread, VirtualWord(th)
    PROVE  VInv'
<1> DEFINE r == req[th]
           w == word[th]
           hd == Head(todo[th])
           y == hd.reg + w - 1
           v == hd.vals[w]
           last == w = Len(hd.vals)
           t == IF last THEN Tail(todo[th]) ELSE todo[th]
           x == IF last THEN 0 ELSE rt[th]
           n == IF last THEN 1 ELSE w + 1
           q == IF last THEN "v_write" ELSE "v_word"
           s == Stored(runtimes, rt[th], y, v)
           c == current[r.asset]
           b == RuntimeIn(current, runtimes, r.asset)
           bb == [b EXCEPT !.image[y] = v]
<1>1. /\ pc[th] = "v_word" /\ Goto(th, q) /\ todo' = [todo EXCEPT ![th] = t]
      /\ word' = [word EXCEPT ![th] = n] /\ rt' = [rt EXCEPT ![th] = x]
      /\ current' = current /\ runtimes' = Collected(s) /\ Touch(th, r.asset)
      /\ UNCHANGED <<req, ans, got>>
  BY DEF VirtualWord, Stored
<1>2. Moves(th, q, r, ans[th], t, got[th], x, n)
  <2> HIDE DEF q, t, x, n, r
  <2> QED BY <1>1, SameRows DEF Goto, Moves, r
<1>3. /\ OthersSame(th) /\ pc'[th] = q /\ req'[th] = r /\ ans'[th] = ans[th]
      /\ todo'[th] = t /\ got'[th] = got[th] /\ rt'[th] = x /\ word'[th] = n
  <2> HIDE DEF q, t, x, n, r
  <2> QED BY <1>2, OwnRows
<1>4. Rows'
  BY <1>1, TouchedThreads DEF Rows, VInv, Objects
<1>5. /\ \A o \in Thread : mixed'[o] <=> (mixed[o] \/ (o # th /\ pc[o] # "idle" /\ req[o].asset = r.asset))
      /\ \A o \in Thread : ~mixed'[o] => started'[o] = started[o]
  BY <1>1, TouchedThreads
<1>6. /\ IsSeq(s) /\ Len(s) = Len(runtimes) /\ \A i \in 1 .. Len(s) : IsRuntime(s[i])
      /\ \A i \in 1 .. Len(s) : i # rt[th] => s[i] = runtimes[i]
      /\ rt[th] \in 1 .. Len(s) => s[rt[th]] = [runtimes[rt[th]] EXCEPT !.image[y] = v]
  <2>1. IsSeq(runtimes) /\ \A i \in 1 .. Len(runtimes) : IsRuntime(runtimes[i])
    BY DEF VInv, Objects
  <2> DEFINE m == rt[th]
             u == WithWord(runtimes[m], y, v)
  <2>2. /\ IsSeq(s) /\ Len(s) = Len(runtimes)
        /\ \A i \in 1 .. Len(runtimes) : IsRuntime(s[i]) /\ (i # m => s[i] = runtimes[i])
        /\ m \in 1 .. Len(runtimes) => s[m] = u
    <3> HIDE DEF y, v
    <3> QED BY <2>1, StoredWord
  <2> HIDE DEF s, u
  <2>3. /\ IsSeq(s) /\ Len(s) = Len(runtimes) /\ \A i \in 1 .. Len(s) : IsRuntime(s[i])
        /\ \A i \in 1 .. Len(s) : i # m => s[i] = runtimes[i]
        /\ m \in 1 .. Len(s) => s[m] = u
    BY <2>2
  <2> QED BY <2>3 DEF u, WithWord
<1> HIDE DEF s
<1>7. /\ Objects' /\ Grows /\ Len(runtimes') = Len(runtimes)
      /\ \A d \in Asset : RuntimeIn(current', runtimes', d) = RuntimeIn(current, s, d)
  BY <1>1, <1>4, <1>6, FreeingKeeps
<1>8. Reference(th) /\ r \in Requests /\ r.asset \in Asset
  BY <1>1, Serves DEF VInv, Alright
<1>9. ASSUME NEW o \in Thread \ {th} PROVE Noticed(o)
  <2> SUFFICES ASSUME pc[o] # "idle", ~mixed'[o]
               PROVE  /\ ~mixed[o] /\ started'[o] = started[o]
                      /\ current'[req[o].asset] = current[req[o].asset]
                      /\ RuntimeIn(current', runtimes', req[o].asset)
                           = RuntimeIn(current, runtimes, req[o].asset)
    BY DEF Noticed
  <2>1. req[o].asset # r.asset /\ ~mixed[o] /\ started'[o] = started[o] /\ req[o].asset \in Asset
    <3> HIDE DEF r
    <3> QED BY <1>5, Serves
  <2> DEFINE d == req[o].asset
  <2>2. RuntimeIn(current, s, d) = RuntimeIn(current, runtimes, d)
    <3>1. CASE current[d] = 0
      BY <3>1 DEF RuntimeIn
    <3>2. CASE current[d] # 0
      <4>1. current[d] \in 1 .. Len(runtimes)
        BY <2>1, <3>2 DEF IInv, Store
      <4>2. current[d] # rt[th]
        BY <1>8, <2>1, <3>2 DEF Reference
      <4> QED BY <1>6, <3>2, <4>1, <4>2 DEF RuntimeIn
    <3> QED BY <3>1, <3>2
  <2> QED BY <1>1, <1>7, <2>1, <2>2
<1>10. Reference(th)'
  <2>1. x \in {0, rt[th]} /\ (q \notin {"v_word", "v_read"} => x = 0)
    OBVIOUS
  <2> HIDE DEF x, q, r
  <2>2. x \in 0 .. Len(runtimes')
    <3>1. Len(runtimes') \in Nat
      BY <1>7 DEF Objects, IsSeq
    <3> QED BY <1>7, <1>8, <2>1, <3>1 DEF Reference
  <2> QED BY <1>1, <1>3, <1>8, <2>1, <2>2 DEF Reference, r
<1>11. ASSUME ~mixed'[th] PROVE Remains(th)
  <2>1. ~mixed[th] /\ started'[th] = started[th]
    BY <1>5, <1>11
  <2>2. /\ Undisturbed("v_word", r, todo[th], got[th], w, rt[th], c, b, ans[th], started[th])
        /\ c # 0 => c \in 1 .. Len(runtimes) /\ b = runtimes[c] /\ IsRuntime(b)
    BY <1>1, <2>1, Holds
  <2>3. c # 0 /\ rt[th] = c
    <3> HIDE DEF c, b, r
    <3> QED BY <2>2 DEF Undisturbed
  <2>4. RuntimeIn(current, s, r.asset) = bb
    <3>1. RuntimeIn(current, s, r.asset) = s[c]
      BY <2>3 DEF RuntimeIn
    <3> HIDE DEF y, v, c, b
    <3> QED BY <1>6, <2>2, <2>3, <3>1
  <2>5. Undisturbed(q, r, t, got[th], n, x, c, bb, ans[th], started[th])
    <3>1. CASE last
      <4>1. q = "v_write" /\ t = Tail(todo[th]) /\ n = 1 /\ x = 0
        BY <3>1
      <4>2. Undisturbed("v_write", r, Tail(todo[th]), got[th], 1, 0, c, bb, ans[th], started[th])
        <5> HIDE DEF c, b, r
        <5> QED BY <1>8, <2>2, <2>3, <3>1, LastWordMoves
      <4> HIDE DEF q, t, n, x, bb, c, r, last
      <4> QED BY <4>1, <4>2
    <3>2. CASE ~last
      <4>1. q = "v_word" /\ t = todo[th] /\ n = w + 1 /\ x = rt[th]
        BY <3>2
      <4>2. Undisturbed("v_word", r, todo[th], got[th], w + 1, rt[th], c, bb, ans[th], started[th])
        <5> HIDE DEF c, b, r
        <5> QED BY <1>8, <2>2, <2>3, <3>2, WordMoves
      <4> HIDE DEF q, t, n, x, bb, c, r, last
      <4> QED BY <4>1, <4>2
    <3> QED BY <3>1, <3>2
  <2>6. current'[req'[th].asset] = c /\ RuntimeIn(current', runtimes', req'[th].asset) = bb
    <3> HIDE DEF bb, q, t, x, n
    <3> QED BY <1>1, <1>3, <1>7, <1>8, <2>4
  <2> HIDE DEF q, t, n, x, bb, c, r
  <2> QED BY <1>3, <2>1, <2>5, <2>6 DEF Remains
<1> QED BY <1>3, <1>7, <1>9, <1>10, <1>11, StepAlright

\* The image of a preload has every register.
LEMMA PreloadShape ==
    ASSUME NEW r
    PROVE  PreloadImage(r) = [x \in Reg |-> PreloadImage(r)[x]]
<1> DEFINE F(x) ==
        LET hit == {m \in ToSet(r.maps) : x \in Registers(m)}
            m   == CHOOSE y \in hit : TRUE
            v   == IF m.field \in DOMAIN r.init.state THEN r.init.state[m.field] ELSE 0
        IN  IF hit = {} THEN 0 ELSE EncodeValueToRegisters(v, m)[x - m.reg + 1]
<1>1. PreloadImage(r) = [x \in Reg |-> F(x)]
  BY Zenon DEF PreloadImage
<1> HIDE DEF F
<1> QED BY <1>1

\* A preload publishes a runtime of its own.
LEMMA PreloadAlright ==
    ASSUME IInv, VInv, NEW th \in Thread, Preload(th)
    PROVE  VInv'
<1> DEFINE r == req[th]
           k == Len(runtimes) + 1
           e == [image |-> PreloadImage(r), overlay |-> r.init.overlay]
           s == Append(runtimes, e)
           q == "v_fetch"
<1>1. /\ pc[th] = "preload" /\ Goto(th, q) /\ rt' = rt
      /\ current' = [current EXCEPT ![r.asset] = k] /\ runtimes' = Collected(s)
      /\ Touch(th, r.asset) /\ UNCHANGED <<req, ans, todo, got, word>>
  BY DEF Preload
<1>2. Moves(th, q, r, ans[th], todo[th], got[th], rt[th], word[th])
  BY <1>1, SameRows DEF Goto, Moves
<1>3. /\ OthersSame(th) /\ pc'[th] = q /\ req'[th] = r /\ ans'[th] = ans[th]
      /\ todo'[th] = todo[th] /\ got'[th] = got[th] /\ rt'[th] = rt[th] /\ word'[th] = word[th]
  <2> HIDE DEF q, r
  <2> QED BY <1>2, OwnRows
<1>4. Rows'
  BY <1>1, TouchedThreads DEF Rows, VInv, Objects
<1>5. /\ \A o \in Thread : mixed'[o] <=> (mixed[o] \/ (o # th /\ pc[o] # "idle" /\ req[o].asset = r.asset))
      /\ \A o \in Thread : ~mixed'[o] => started'[o] = started[o]
  BY <1>1, TouchedThreads
<1>6. IsRuntime(e) /\ IsRuntime(NoRuntime)
  <2>1. IsRuntime(NoRuntime)
    BY DEF IsRuntime, NoRuntime, ZeroRegs
  <2>2. PreloadImage(r) = [x \in Reg |-> PreloadImage(r)[x]]
    <3> HIDE DEF r
    <3> QED BY PreloadShape
  <2>3. \A h, o : h = [x \in Reg |-> h[x]] => IsRuntime([image |-> h, overlay |-> o])
    BY DEF IsRuntime
  <2> QED BY <2>1, <2>2, <2>3
<1>7. Reference(th) /\ rt[th] = 0 /\ r.asset \in Asset
  BY <1>1, Serves DEF VInv, Alright, Reference
<1> HIDE DEF e, r
<1>8. IsSeq(runtimes) /\ Len(runtimes) \in Nat /\ current \in [Asset -> 0 .. Len(runtimes)]
  BY DEF IInv, Store, IsSeq
<1>9. /\ IsSeq(s) /\ Len(s) = k /\ s[k] = e
      /\ \A i \in 1 .. Len(runtimes) : s[i] = runtimes[i]
  BY <1>8, AppendSeq
<1> HIDE DEF s
<1>10. IsSeq(runtimes') /\ Len(runtimes') = k /\ k \in Nat /\ k \in 1 .. k
  BY <1>1, <1>8, <1>9, CollectedSeq
<1>11. \A i \in 1 .. k : IsRuntime(s[i])
  <2>1. \A i \in 1 .. Len(runtimes) : IsRuntime(runtimes[i])
    BY DEF VInv, Objects
  <2>2. \A i \in 1 .. k : i \in 1 .. Len(runtimes) \/ i = k
    BY <1>8
  <2> HIDE DEF k
  <2> QED BY <1>6, <1>9, <2>1, <2>2
<1>12. \A i \in 1 .. k : IsRuntime(runtimes'[i])
  <2> HIDE DEF NoRuntime, k
  <2> QED BY <1>1, <1>6, <1>9, <1>11, CollectedKeeps
<1>13. /\ current'[r.asset] = k
       /\ \A d \in Asset : d # r.asset => current'[d] = current[d] /\ current[d] \in 0 .. Len(runtimes)
  BY <1>1, <1>7, <1>8
<1>14. \A d \in Asset : current'[d] = 0 \/ current'[d] \in 1 .. k
  BY <1>8, <1>10, <1>13
<1>15. ASSUME NEW d \in Asset, current'[d] # 0
       PROVE  RuntimeIn(current', runtimes', d) = s[current'[d]]
  <2>1. current'[d] \in 1 .. Len(s)
    BY <1>9, <1>14, <1>15
  <2>2. \E f \in Asset : current'[f] = current'[d]
    OBVIOUS
  <2>3. runtimes'[current'[d]] = s[current'[d]]
    BY <1>1, <1>9, <2>1, <2>2, CollectedKeeps
  <2> QED BY <1>15, <2>3 DEF RuntimeIn
<1>16. Objects'
  <2>1. \A a, d \in Asset : current[a] = current[d] /\ current[a] # 0 => a = d
    BY DEF VInv, Objects
  <2>2. ASSUME NEW a \in Asset, NEW d \in Asset, current'[a] = current'[d], current'[a] # 0
        PROVE  a = d
    BY <1>8, <1>13, <2>1, <2>2
  <2> HIDE DEF k
  <2>3. \A i \in 1 .. Len(runtimes') : IsRuntime(runtimes'[i])
    BY <1>10, <1>12
  <2>4. \A i \in 1 .. Len(runtimes') : IsRuntime(runtimes[i])'
    BY <2>3 DEF IsRuntime
  <2> QED BY <1>4, <1>10, <2>2, <2>4 DEF Objects
<1>17. Grows
  <2> USE DEF Grows
  <2> QED BY <1>8, <1>10, <1>13
<1>18. ASSUME NEW o \in Thread \ {th} PROVE Noticed(o)
  <2> SUFFICES ASSUME pc[o] # "idle", ~mixed'[o]
               PROVE  /\ ~mixed[o] /\ started'[o] = started[o]
                      /\ current'[req[o].asset] = current[req[o].asset]
                      /\ RuntimeIn(current', runtimes', req[o].asset)
                           = RuntimeIn(current, runtimes, req[o].asset)
    BY DEF Noticed
  <2> DEFINE d == req[o].asset
  <2>1. d # r.asset /\ ~mixed[o] /\ started'[o] = started[o] /\ d \in Asset
    BY <1>5, Serves
  <2> HIDE DEF d
  <2>2. current'[d] = current[d] /\ current[d] \in 0 .. Len(runtimes)
    BY <1>13, <2>1
  <2>3. RuntimeIn(current', runtimes', d) = RuntimeIn(current, runtimes, d)
    <3>1. CASE current[d] = 0
      BY <2>2, <3>1 DEF RuntimeIn
    <3>2. CASE current[d] # 0
      <4>1. current[d] \in 1 .. Len(runtimes)
        BY <1>8, <2>2, <3>2
      <4>2. RuntimeIn(current', runtimes', d) = s[current[d]]
        BY <1>15, <2>1, <2>2, <3>2
      <4> QED BY <1>9, <3>2, <4>1, <4>2 DEF RuntimeIn
    <3> QED BY <3>1, <3>2
  <2> QED BY <2>1, <2>2, <2>3 DEF d
<1>19. Reference(th)'
  BY <1>3, <1>7, <1>10 DEF Reference
<1>20. ASSUME ~mixed'[th] PROVE Remains(th)
  <2> DEFINE c == current[r.asset]
             b == RuntimeIn(current, runtimes, r.asset)
  <2>1. ~mixed[th]
    BY <1>5, <1>20
  <2>2. r.op = "preload"
    <3>1. Undisturbed("preload", r, todo[th], got[th], word[th], rt[th], c, b, ans[th], started[th])
      BY <1>1, <2>1, Holds DEF r
    <3> HIDE DEF c, b
    <3> QED BY <3>1 DEF Undisturbed
  <2>3. k # 0 /\ RuntimeIn(current', runtimes', r.asset) = e
    BY <1>7, <1>8, <1>9, <1>13, <1>15
  <2> HIDE DEF k
  <2>4. Undisturbed("v_fetch", r, todo[th], got[th], word[th], rt[th], k, e, ans[th], started'[th])
    BY <2>2, <2>3 DEF Undisturbed, Inside, IsWrite, Preloaded, e
  <2> QED BY <1>3, <1>13, <2>3, <2>4 DEF Remains
<1> QED BY <1>3, <1>16, <1>17, <1>18, <1>19, <1>20, StepAlright

\* A process that has just started serves nobody.
LEMMA FreshAlright ==
    ASSUME pc = [th \in Thread |-> "idle"], rt = [th \in Thread |-> 0],
           word = [th \in Thread |-> 1], started = [th \in Thread |-> ZeroRegs],
           mixed = [th \in Thread |-> FALSE], runtimes = <<>>, current = [a \in Asset |-> 0]
    PROVE  VInv
<1>1. IsSeq(runtimes) /\ Len(runtimes) = 0
  BY DEF IsSeq, ToSet
<1>2. Objects
  BY <1>1 DEF Objects, Rows
<1>3. \A th \in Thread : Reference(th)
  BY <1>1 DEF Reference
<1> QED BY <1>2, <1>3 DEF VInv, Alright

\* The same of the state after a step.
LEMMA FreshAlrightNext ==
    (/\ pc = [th \in Thread |-> "idle"] /\ rt = [th \in Thread |-> 0]
     /\ word = [th \in Thread |-> 1] /\ started = [th \in Thread |-> ZeroRegs]
     /\ mixed = [th \in Thread |-> FALSE] /\ runtimes = <<>> /\ current = [a \in Asset |-> 0])'
    => VInv'
BY FreshAlright, PTL

\* Every step of the adapter keeps the invariant of the virtual path.
LEMMA VInvStep == IInv /\ VInv /\ [Next]_vars => VInv'
<1> SUFFICES ASSUME IInv, VInv, [Next]_vars PROVE VInv'
  OBVIOUS
<1>1. CASE Crash
  BY <1>1, FreshAlrightNext DEF Crash
<1>2. ASSUME NEW th \in Thread, Request(th) \/ Return(th) \/ Step(th)
      PROVE  VInv'
  <2>1. CASE Request(th) \/ Return(th)
    BY <2>1, RequestAlright, ReturnAlright
  <2>2. CASE Acquire(th) \/ PhysicalStep(th)
    BY <2>2, PhysicalAlright
  <2>3. CASE Preload(th)
    BY <2>3, PreloadAlright
  <2>4. CASE VirtualStep(th)
    BY <2>4, FetchAlright, WordAlright, WriteEndsAlright, ReadFetchAlright, ReadWordAlright,
       ReadEndsAlright DEF VirtualStep
  <2> QED BY <1>2, <2>1, <2>2, <2>3, <2>4 DEF Step
<1>3. CASE UNCHANGED vars \/ \E c \in Conn : Drift(c)
  <2>1. UNCHANGED <<current, runtimes, pc, req, ans, todo, got, rt, word, started, mixed>>
    BY <1>3 DEF Drift, vars, virtualVars, callVars, localVars, historyVars
  <2>2. Objects'
    BY <2>1 DEF VInv, Objects, Rows, IsRuntime
  <2>3. \A th \in Thread : Reference(th)'
    BY <2>1 DEF VInv, Alright, Reference
  <2>4. ASSUME NEW th \in Thread, pc'[th] # "idle", ~mixed'[th] PROVE Remains(th)
    <3>1. Undisturbed(pc[th], req[th], todo[th], got[th], word[th], rt[th], current[req[th].asset],
                      RuntimeIn(current, runtimes, req[th].asset), ans[th], started[th])
      BY <2>1, <2>4, Holds
    <3> QED BY <2>1, <3>1 DEF Remains
  <2> QED BY <2>2, <2>3, <2>4 DEF VInv, Alright, Remains
<1> QED BY <1>1, <1>2, <1>3 DEF Next

\* A request to a virtual asset does what it answers: whatever the mappings,
\* the lists and the values, the image ends as the list of a write asks, all of
\* it, and a preload reads back what it was given up to the rounding of each
\* register's scale, as long as no preload and no other writer of the asset
\* came in between.
THEOREM VirtualAnswersHoldHolds == Spec => []VirtualAnswersHold
<1>1. Init => VInv
  BY FreshAlright DEF Init
<1>2. IInv /\ VInv => VirtualAnswersHold
  <2> SUFFICES ASSUME IInv, VInv, NEW th \in Thread, pc[th] = "done", ~mixed[th], ans[th].status = "ok"
               PROVE  /\ IsWrite(req[th]) /\ ans[th].virtual =>
                           Image(req[th].asset) = Overlay(started[th], req[th].prog)
                      /\ req[th].op = "preload" => ReadsBack(req[th], ans[th].snapshot)
    BY DEF VirtualAnswersHold
  <2> DEFINE c == current[req[th].asset]
             b == RuntimeIn(current, runtimes, req[th].asset)
  <2>1. Answered(req[th], c, b, ans[th], started[th])
    <3>1. Undisturbed("done", req[th], todo[th], got[th], word[th], rt[th], c, b, ans[th], started[th])
      BY Holds
    <3> HIDE DEF c, b
    <3> QED BY <3>1 DEF Undisturbed
  <2>2. c # 0 => Image(req[th].asset) = b.image
    BY DEF Image, RuntimeIn
  <2> HIDE DEF c, b
  <2> QED BY <2>1, <2>2 DEF Answered
<1> QED BY PlcInvariant, <1>1, <1>2, VInvStep, PTL DEF Spec
=============================================================================
