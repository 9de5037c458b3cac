---------------------------- MODULE CallsLevels ----------------------------
(***************************************************************************)
(* What a State and its native levels hold, and how it changes when a call,*)
(* a callback or a frame is entered or left: lemmas about Calls for every  *)
(* limit and every stack of levels.                                        *)
(***************************************************************************)
EXTENDS Calls, SequenceTheorems, WellFoundedInduction, TLAPS

-----------------------------------------------------------------------------
(* The sum of a sequence.  Its definition is recursive; that it computes   *)
(* the running totals follows from the least length at which it would not. *)

LEMMA LeastElement ==
    ASSUME NEW T \in SUBSET Nat, T # {}
    PROVE  \E x \in T : \A y \in T : x <= y
<1> DEFINE R == OpToRel(<, Nat)
<1>1. IsWellFoundedOn(R, Nat)
    BY NatLessThanWellFounded, Zenon
<1>2. \A a, b \in Nat : a < b => <<a, b>> \in R
    BY DEF OpToRel
<1> HIDE DEF R
<1>3. PICK x \in T : \A y \in T : ~ (<<y, x>> \in R)
    BY <1>1, WFMin, Zenon
<1>4. \A y \in T : ~ (y < x)
    BY <1>2, <1>3, Zenon
<1>5. \A y \in T : x <= y
    BY <1>4
<1> QED
    BY <1>5

(* t is the sequence of running totals of x *)
Running(x, t) == t = [n \in 0 .. Len(x) |-> IF n = 0 THEN 0 ELSE t[n - 1] + x[n]]

LEMMA TotalIsRunning ==
    ASSUME NEW x
    PROVE  Total(x) = (CHOOSE t : Running(x, t))[Len(x)]
BY DEF Total, Running

LEMMA RunningExists ==
    ASSUME NEW x \in Seq(Nat)
    PROVE  \E t \in [0 .. Len(x) -> Nat] : Running(x, t)
<1> DEFINE Upto(k, t) == t[0] = 0 /\ \A n \in 1 .. k : t[n] = t[n - 1] + x[n]
           Good(k) == \E t \in [0 .. Len(x) -> Nat] : Upto(k, t)
           Bad == {k \in 0 .. Len(x) : ~Good(k)}
<1>1. Good(0)
  <2> DEFINE t == [n \in 0 .. Len(x) |-> 0]
  <2>1. t \in [0 .. Len(x) -> Nat] /\ Upto(0, t)
      OBVIOUS
  <2> HIDE DEF t, Upto
  <2> QED
      BY <2>1
<1>2. ASSUME NEW k \in 1 .. Len(x), Good(k - 1) PROVE Good(k)
  <2>1. PICK t \in [0 .. Len(x) -> Nat] : Upto(k - 1, t)
      BY <1>2
  <2> DEFINE u == [t EXCEPT ![k] = t[k - 1] + x[k]]
  <2>2. u \in [0 .. Len(x) -> Nat]
    <3>1. k - 1 \in 0 .. Len(x) /\ x[k] \in Nat
        OBVIOUS
    <3>2. t[k - 1] \in Nat
        BY <3>1
    <3>3. t[k - 1] + x[k] \in Nat
        BY <3>1, <3>2
    <3> QED
        BY <3>3
  <2>3. Upto(k, u)
      BY <2>1
  <2> HIDE DEF u, Upto
  <2> QED
      BY <2>2, <2>3
<1> HIDE DEF Good
<1>3. Bad = {}
  <2> SUFFICES ASSUME Bad # {} PROVE FALSE
      OBVIOUS
  <2>1. PICK k \in Bad : \A y \in Bad : k <= y
    <3>1. Bad \in SUBSET Nat
        OBVIOUS
    <3> HIDE DEF Bad
    <3> QED
        BY <3>1, LeastElement, Zenon
  <2>2. k # 0
      BY <1>1
  <2>3. k - 1 \in 0 .. Len(x) /\ k - 1 \notin Bad
      BY <2>1, <2>2
  <2> QED
      BY <2>1, <2>2, <2>3, <1>2
<1>4. PICK t \in [0 .. Len(x) -> Nat] : Upto(Len(x), t)
    BY <1>3 DEF Good
<1>5. Running(x, t)
    BY <1>4 DEF Running
<1> QED
    BY <1>5

LEMMA RunningMeans ==
    ASSUME NEW x \in Seq(Nat), NEW t, Running(x, t)
    PROVE  t[0] = 0 /\ \A n \in 1 .. Len(x) : t[n] = t[n - 1] + x[n]
<1> DEFINE D == 0 .. Len(x)
           f == [n \in D |-> IF n = 0 THEN 0 ELSE t[n - 1] + x[n]]
<1>1. t = f
    BY Zenon DEF Running
<1>2. \A n \in D : f[n] = IF n = 0 THEN 0 ELSE t[n - 1] + x[n]
    OBVIOUS
<1> HIDE DEF f
<1>3. \A n \in D : t[n] = IF n = 0 THEN 0 ELSE t[n - 1] + x[n]
    BY <1>1, <1>2
<1>4. 0 \in D /\ \A n \in 1 .. Len(x) : n \in D /\ n # 0
    OBVIOUS
<1> QED
    BY <1>3, <1>4

(* Two sequences of running totals agree as far as both go *)
StartsWith(y, x) == Len(x) <= Len(y) /\ \A n \in 1 .. Len(x) : x[n] = y[n]

LEMMA RunningAgrees ==
    ASSUME NEW x \in Seq(Nat), NEW y \in Seq(Nat), NEW t, NEW u,
           Running(x, t), Running(y, u), StartsWith(y, x)
    PROVE  \A n \in 0 .. Len(x) : t[n] = u[n]
<1> USE DEF StartsWith
<1> DEFINE Bad == {n \in 0 .. Len(x) : t[n] # u[n]}
<1>1. t[0] = 0 /\ \A n \in 1 .. Len(x) : t[n] = t[n - 1] + x[n]
    BY RunningMeans
<1>2. u[0] = 0 /\ \A n \in 1 .. Len(y) : u[n] = u[n - 1] + y[n]
    BY RunningMeans
<1>3. Bad = {}
  <2> SUFFICES ASSUME Bad # {} PROVE FALSE
      OBVIOUS
  <2>1. PICK k \in Bad : \A n \in Bad : k <= n
    <3>1. Bad \in SUBSET Nat
        OBVIOUS
    <3> HIDE DEF Bad
    <3> QED
        BY <3>1, LeastElement, Zenon
  <2>2. k # 0
      BY <1>1, <1>2
  <2>3. k - 1 \in 0 .. Len(x) /\ k - 1 \notin Bad
      BY <2>1, <2>2
  <2>4. k \in 1 .. Len(x) /\ t[k - 1] = u[k - 1] /\ x[k] = y[k]
      BY <2>2, <2>3
  <2>5. t[k] = u[k]
      BY <1>1, <1>2, <2>4
  <2> QED
      BY <2>5
<1> QED
    BY <1>3

LEMMA TotalRuns ==
    ASSUME NEW x \in Seq(Nat)
    PROVE  \E t \in [0 .. Len(x) -> Nat] : Running(x, t) /\ Total(x) = t[Len(x)]
<1>1. PICK u \in [0 .. Len(x) -> Nat] : Running(x, u)
    BY RunningExists
<1> DEFINE t == CHOOSE r : Running(x, r)
<1>2. Running(x, t)
    BY <1>1
<1> HIDE DEF t
<1>3. \A n \in 0 .. Len(x) : t[n] = u[n]
  <2>1. StartsWith(x, x)
      BY DEF StartsWith
  <2> QED
      BY <1>1, <1>2, <2>1, RunningAgrees
<1>4. Total(x) = t[Len(x)]
    BY TotalIsRunning DEF t
<1>5. Total(x) = u[Len(x)]
    BY <1>3, <1>4
<1> QED
    BY <1>1, <1>5

LEMMA TotalEmpty == Total(<<>>) = 0
<1>1. ASSUME NEW x \in Seq(Nat), Len(x) = 0 PROVE Total(x) = 0
  <2>1. PICK t \in [0 .. Len(x) -> Nat] : Running(x, t) /\ Total(x) = t[Len(x)]
      BY TotalRuns
  <2>2. t[0] = 0
      BY <2>1, RunningMeans
  <2> QED
      BY <1>1, <2>1, <2>2
<1>2. <<>> \in Seq(Nat) /\ Len(<<>>) = 0
    OBVIOUS
<1> QED
    BY <1>1, <1>2, Zenon

LEMMA TotalAppend ==
    ASSUME NEW x \in Seq(Nat), NEW a \in Nat
    PROVE  Total(x) \in Nat /\ Total(Append(x, a)) = Total(x) + a
<1> DEFINE y == Append(x, a)
<1>1. y \in Seq(Nat) /\ Len(y) = Len(x) + 1 /\ y[Len(x) + 1] = a /\ \A n \in 1 .. Len(x) : x[n] = y[n]
    OBVIOUS
<1> HIDE DEF y
<1>2. PICK t \in [0 .. Len(x) -> Nat] : Running(x, t) /\ Total(x) = t[Len(x)]
    BY TotalRuns
<1>3. PICK u \in [0 .. Len(y) -> Nat] : Running(y, u) /\ Total(y) = u[Len(y)]
    BY <1>1, TotalRuns
<1>4. t[Len(x)] = u[Len(x)]
  <2>1. Len(x) <= Len(y) /\ Len(x) \in 0 .. Len(x)
      BY <1>1
  <2>3. StartsWith(y, x)
      BY <1>1 DEF StartsWith
  <2>2. \A n \in 0 .. Len(x) : t[n] = u[n]
    <3>1. y \in Seq(Nat) /\ Running(x, t) /\ Running(y, u)
        BY <1>1, <1>2, <1>3
    <3> QED
        BY <3>1, <2>3, RunningAgrees
  <2> QED
      BY <2>1, <2>2
<1>5. u[Len(y)] = u[Len(x)] + a
  <2>1. \A n \in 1 .. Len(y) : u[n] = u[n - 1] + y[n]
      BY <1>1, <1>3, RunningMeans, Zenon
  <2>2. Len(y) \in 1 .. Len(y) /\ Len(y) - 1 = Len(x) /\ y[Len(y)] = a
      BY <1>1
  <2> QED
      BY <2>1, <2>2
<1>6. Total(y) = Total(x) + a
    BY <1>2, <1>3, <1>4, <1>5
<1> QED
    BY <1>2, <1>6 DEF y

-----------------------------------------------------------------------------
(* Stacks of levels, frames and records grow and shrink at their end.      *)

LEMMA Appended ==
    ASSUME NEW S, NEW s \in Seq(S), NEW e \in S
    PROVE  /\ Append(s, e) \in Seq(S) /\ Append(s, e) # <<>> /\ Len(Append(s, e)) = Len(s) + 1
           /\ Last(Append(s, e)) = e /\ Front(Append(s, e)) = s
           /\ \A i \in 1 .. Len(s) : Append(s, e)[i] = s[i]
BY DEF Last, Front

LEMMA Split ==
    ASSUME NEW S, NEW s \in Seq(S), s # <<>>
    PROVE  /\ Front(s) \in Seq(S) /\ Last(s) \in S /\ Len(s) \in Nat \ {0} /\ Len(Front(s)) = Len(s) - 1
           /\ Append(Front(s), Last(s)) = s
           /\ \A i \in 1 .. Len(s) - 1 : Front(s)[i] = s[i]
<1>1. Len(s) \in Nat \ {0}
    BY EmptySeq
<1>2. Front(s) \in Seq(S) /\ Len(Front(s)) = Len(s) - 1 /\ \A i \in 1 .. Len(s) - 1 : Front(s)[i] = s[i]
  <2>1. PICK k \in Nat : k = Len(s) - 1
      BY <1>1
  <2>2. \A i \in 1 .. k : s[i] \in S
      BY <1>1, <2>1
  <2>3. SubSeq(s, 1, k) \in Seq(S)
      BY <1>1, <2>1, <2>2
  <2>4. Len(SubSeq(s, 1, k)) = k
      BY <1>1, <2>1
  <2>5. \A i \in 1 .. k : SubSeq(s, 1, k)[i] = s[i]
      BY <1>1, <2>1
  <2> QED
      BY <2>1, <2>3, <2>4, <2>5 DEF Front
<1>3. Last(s) \in S
    BY <1>1 DEF Last
<1>4. Append(Front(s), Last(s)) \in Seq(S) /\ Len(Append(Front(s), Last(s))) = Len(s)
    BY <1>1, <1>2, <1>3
<1>5. \A i \in 1 .. Len(s) : Append(Front(s), Last(s))[i] = s[i]
    BY <1>1, <1>2, <1>3 DEF Last
<1>6. Append(Front(s), Last(s)) = s
    BY <1>4, <1>5, SeqEqual
<1> QED
    BY <1>1, <1>2, <1>3, <1>6

LEMMA Replaced ==
    ASSUME NEW S, NEW s \in Seq(S), s # <<>>, NEW e \in S
    PROVE  [s EXCEPT ![Len(s)] = e] = Append(Front(s), e)
<1> DEFINE t == [s EXCEPT ![Len(s)] = e]
<1>1. Len(s) \in Nat \ {0} /\ Front(s) \in Seq(S) /\ Len(Front(s)) = Len(s) - 1
      /\ \A i \in 1 .. Len(s) - 1 : Front(s)[i] = s[i]
    BY Split
<1>2. t \in Seq(S) /\ Len(t) = Len(s) /\ \A j \in 1 .. Len(s) : t[j] = IF j = Len(s) THEN e ELSE s[j]
    BY <1>1, ExceptSeq
<1> HIDE DEF t
<1>3. Append(Front(s), e) \in Seq(S) /\ Len(Append(Front(s), e)) = Len(s)
    BY <1>1
<1>4. \A i \in 1 .. Len(s) : t[i] = Append(Front(s), e)[i]
    BY <1>1, <1>2
<1>5. t = Append(Front(s), e)
    BY <1>2, <1>3, <1>4, SeqEqual
<1> QED
    BY <1>5 DEF t

LEMMA FunctionIsSequence ==
    ASSUME NEW S, NEW n \in Nat, NEW f \in [1 .. n -> S]
    PROVE  f \in Seq(S) /\ Len(f) = n
BY SeqDef

LEMMA SumsOfLevels ==
    ASSUME NEW ns \in Seq(Natives), NEW l \in Natives
    PROVE  /\ AllFrames(ns) \in Nat /\ AllFrames(Append(ns, l)) = AllFrames(ns) + FramesOf(l)
           /\ AllUnits(ns) \in Nat /\ AllUnits(Append(ns, l)) = AllUnits(ns) + UnitsOf(l)
           /\ AllCalls(ns) \in Nat /\ AllCalls(Append(ns, l)) = AllCalls(ns) + CallsOf(l)
<1> DEFINE f == [i \in 1 .. Len(ns) |-> FramesOf(ns[i])]
           u == [i \in 1 .. Len(ns) |-> UnitsOf(ns[i])]
           c == [i \in 1 .. Len(ns) |-> CallsOf(ns[i])]
<1>1. \A k \in Natives : FramesOf(k) \in Nat /\ UnitsOf(k) \in Nat /\ CallsOf(k) \in Nat
    BY DEF FramesOf, UnitsOf, CallsOf, Natives, CallLevels, RustLevels, RunLevels
<1>2. f \in Seq(Nat) /\ u \in Seq(Nat) /\ c \in Seq(Nat)
  <2>1. Len(ns) \in Nat /\ f \in [1 .. Len(ns) -> Nat] /\ u \in [1 .. Len(ns) -> Nat] /\ c \in [1 .. Len(ns) -> Nat]
    <3>1. \A i \in 1 .. Len(ns) : ns[i] \in Natives
        OBVIOUS
    <3>2. \A i \in 1 .. Len(ns) : FramesOf(ns[i]) \in Nat /\ UnitsOf(ns[i]) \in Nat /\ CallsOf(ns[i]) \in Nat
        BY <1>1, <3>1, Zenon
    <3> QED
        BY <3>2
  <2> HIDE DEF f, u, c
  <2> QED
      BY <2>1, FunctionIsSequence, Zenon
<1>3. /\ [i \in 1 .. Len(Append(ns, l)) |-> FramesOf(Append(ns, l)[i])] = Append(f, FramesOf(l))
      /\ [i \in 1 .. Len(Append(ns, l)) |-> UnitsOf(Append(ns, l)[i])] = Append(u, UnitsOf(l))
      /\ [i \in 1 .. Len(Append(ns, l)) |-> CallsOf(Append(ns, l)[i])] = Append(c, CallsOf(l))
    OBVIOUS
<1> HIDE DEF f, u, c
<1> QED
    BY <1>1, <1>2, <1>3, TotalAppend, Zenon DEF AllFrames, AllUnits, AllCalls, f, u, c

LEMMA SumOfChains ==
    ASSUME NEW rs \in Seq(Records), NEW r \in Records
    PROVE  AllChains(rs) \in Nat /\ AllChains(Append(rs, r)) = AllChains(rs) + r.chain
<1> DEFINE c == [i \in 1 .. Len(rs) |-> rs[i].chain]
<1>1. c \in Seq(Nat) /\ r.chain \in Nat
  <2>1. \A q \in Records : q.chain \in Nat
      BY CallsAssumption DEF Records
  <2>2. Len(rs) \in Nat /\ c \in [1 .. Len(rs) -> Nat]
      BY <2>1
  <2> HIDE DEF c
  <2> QED
      BY <2>1, <2>2, FunctionIsSequence, Zenon
<1>2. [i \in 1 .. Len(Append(rs, r)) |-> Append(rs, r)[i].chain] = Append(c, r.chain)
    OBVIOUS
<1> HIDE DEF c
<1> QED
    BY <1>1, <1>2, TotalAppend, Zenon DEF AllChains, c

-----------------------------------------------------------------------------
(* What holds of the native levels: each is one of the ways the level      *)
(* below it calls, with the slots that level left it.                      *)

FrameOK(b) == b >= 1 /\ b + Width + FrameHeadroom <= MaxStackSize

LevelOK(l) ==
    /\ l.kind = "call" => l.idx <= MaxStackSize
    /\ l.kind = "run" => l.frames # <<>> /\ \A j \in 1 .. Len(l.frames) : FrameOK(l.frames[j])

Outermost(l) == l.kind = "call" /\ l.guarded /\ l.old = 0

CallOver(l, b) ==
    /\ b.kind # "call"
    /\ l.guarded => b.kind = "rust"
    /\ b.kind = "rust" => l.old = b.base
    /\ b.kind = "run" => l.old = Last(b.frames)

RustOver(l, b) ==
    /\ l.via = "native" => b.kind = "call" /\ l.base = b.idx /\ l.old = b.old
    /\ l.via = "lua" => b.kind = "run" /\ l.old = Last(b.frames)
    /\ l.via = "tail" => b.kind = "run" /\ l.base = Last(b.frames) - 1

Above(l, b) ==
    /\ l.kind = "call" => CallOver(l, b)
    /\ l.kind = "run" => b.kind = "call" /\ l.frames[1] = b.idx + 1
    /\ l.kind = "rust" => RustOver(l, b)

Fits(l, ns) == IF ns = <<>> THEN Outermost(l) ELSE Above(l, Last(ns))

Sound(ns) ==
    /\ ns \in Seq(Natives)
    /\ \A i \in 1 .. Len(ns) : LevelOK(ns[i])
    /\ ns # <<>> => Outermost(ns[1])
    /\ \A i \in 2 .. Len(ns) : Above(ns[i], ns[i - 1])

(* No Rust function is active below the first callback *)
Active(ns, a) ==
    /\ \A i \in 1 .. Len(ns) :
          ns[i].kind = "rust" /\ (\A j \in 1 .. i - 1 : ns[j].kind # "rust") => ns[i].previous = "none"
    /\ (\A j \in 1 .. Len(ns) : ns[j].kind # "rust") => a = "none"

Levels(ns, f, u, n, a) ==
    /\ Sound(ns) /\ Active(ns, a)
    /\ f = AllFrames(ns) /\ u = AllUnits(ns) /\ n = AllCalls(ns)

(* The vararg arena, and the State's side of the accounting *)
Arena(rs, v) ==
    /\ rs = <<>> => v = 0
    /\ rs # <<>> => rs[1].varargStart = 0
    /\ \A i \in 1 .. Len(rs) :
          (IF i = Len(rs) THEN v ELSE rs[i + 1].varargStart) - rs[i].varargStart \in 0 .. MaxArguments

States ==
    [top : 0 .. MaxStackSize, bottom : Nat, records : Seq(Records), varargs : Nat,
     callDepth : 0 .. MaxCallDepth, metaDepth : 0 .. MaxMetamethodDepth,
     nativeDepth : 0 .. MaxNativeCallDepth, active : {"none", "host", "library"}]

Ledger(s, f, u, n) ==
    /\ s \in States
    /\ s.callDepth = Len(s.records) /\ Len(s.records) = f
    /\ s.metaDepth = AllChains(s.records) + u
    /\ s.nativeDepth = n
    /\ Arena(s.records, s.varargs)

Core(s, ns) == \E f, u, n \in Nat : Levels(ns, f, u, n, s.active) /\ Ledger(s, f, u, n)

LEMMA NoLevels == Levels(<<>>, 0, 0, 0, "none")
<1>1. AllFrames(<<>>) = 0 /\ AllUnits(<<>>) = 0 /\ AllCalls(<<>>) = 0
  <2>1. /\ [i \in 1 .. Len(<<>>) |-> FramesOf(<<>>[i])] = <<>>
        /\ [i \in 1 .. Len(<<>>) |-> UnitsOf(<<>>[i])] = <<>>
        /\ [i \in 1 .. Len(<<>>) |-> CallsOf(<<>>[i])] = <<>>
      OBVIOUS
  <2> QED
      BY <2>1, TotalEmpty DEF AllFrames, AllUnits, AllCalls
<1>2. Sound(<<>>) /\ Active(<<>>, "none")
    BY DEF Sound, Active
<1> QED
    BY <1>1, <1>2 DEF Levels

LEMMA SoundPush ==
    ASSUME NEW ns, Sound(ns), NEW l \in Natives, LevelOK(l), Fits(l, ns)
    PROVE  Sound(Append(ns, l))
<1> DEFINE ms == Append(ns, l)
<1>1. ns \in Seq(Natives)
    BY DEF Sound
<1>2. ms \in Seq(Natives) /\ ms # <<>> /\ Len(ms) = Len(ns) + 1 /\ ms[Len(ns) + 1] = l
      /\ \A i \in 1 .. Len(ns) : ms[i] = ns[i]
    BY <1>1, Appended DEF Last
<1> HIDE DEF ms
<1>3. \A i \in 1 .. Len(ms) : LevelOK(ms[i])
    BY <1>1, <1>2 DEF Sound
<1>4. Outermost(ms[1])
  <2>1. CASE ns = <<>>
      BY <1>2, <2>1 DEF Fits
  <2>2. CASE ns # <<>>
      BY <1>1, <1>2, <2>2, EmptySeq DEF Sound
  <2> QED
      BY <2>1, <2>2
<1>5. ASSUME NEW i \in 2 .. Len(ms) PROVE Above(ms[i], ms[i - 1])
  <2>1. CASE i <= Len(ns)
    <3>1. i \in 2 .. Len(ns) /\ ms[i] = ns[i] /\ ms[i - 1] = ns[i - 1]
        BY <1>1, <1>2, <2>1
    <3> QED
        BY <3>1 DEF Sound
  <2>2. CASE i = Len(ns) + 1
    <3>1. ns # <<>> /\ ms[i] = l /\ ms[i - 1] = Last(ns)
        BY <1>1, <1>2, <2>2 DEF Last
    <3> QED
        BY <3>1 DEF Fits
  <2> QED
      BY <1>1, <1>2, <2>1, <2>2
<1>6. Sound(ms)
    BY <1>2, <1>3, <1>4, <1>5 DEF Sound
<1> QED
    BY <1>6 DEF ms

LEMMA SoundPop ==
    ASSUME NEW ns, Sound(ns), ns # <<>>
    PROVE  Sound(Front(ns)) /\ Last(ns) \in Natives /\ LevelOK(Last(ns)) /\ Fits(Last(ns), Front(ns))
<1> DEFINE ms == Front(ns)
<1>1. ns \in Seq(Natives)
    BY DEF Sound
<1>2. ms \in Seq(Natives) /\ Last(ns) \in Natives /\ Len(ns) \in Nat \ {0} /\ Len(ms) = Len(ns) - 1
      /\ \A i \in 1 .. Len(ns) - 1 : ms[i] = ns[i]
    BY <1>1, Split
<1> HIDE DEF ms
<1>3. \A i \in 1 .. Len(ms) : LevelOK(ms[i])
    BY <1>2 DEF Sound
<1>4. ms # <<>> => Outermost(ms[1])
    BY <1>2, EmptySeq DEF Sound
<1>5. ASSUME NEW i \in 2 .. Len(ms) PROVE Above(ms[i], ms[i - 1])
  <2>1. i \in 2 .. Len(ns) /\ ms[i] = ns[i] /\ ms[i - 1] = ns[i - 1]
      BY <1>2
  <2> QED
      BY <2>1 DEF Sound
<1>6. Sound(ms)
    BY <1>2, <1>3, <1>4, <1>5 DEF Sound
<1>7. LevelOK(Last(ns))
    BY <1>2 DEF Sound, Last
<1>8. Fits(Last(ns), ms)
  <2>1. CASE ms = <<>>
    <3>0. Len(ms) = 0
        BY <2>1
    <3>2. Len(ns) = 1
        BY <1>2, <3>0
    <3>1. Last(ns) = ns[1]
        BY <3>2 DEF Last
    <3> QED
        BY <2>1, <3>1 DEF Sound, Fits
  <2>2. CASE ms # <<>>
    <3>0. Len(ms) \in Nat \ {0}
        BY <1>2, <2>2, EmptySeq
    <3>1. Len(ns) \in 2 .. Len(ns) /\ Last(ms) = ns[Len(ns) - 1]
        BY <1>2, <3>0 DEF Last
    <3>2. Above(Last(ns), ns[Len(ns) - 1])
        BY <3>1 DEF Sound, Last
    <3> QED
        BY <2>2, <3>1, <3>2 DEF Fits
  <2> QED
      BY <2>1, <2>2
<1> QED
    BY <1>2, <1>6, <1>7, <1>8 DEF ms

LEMMA ActivePush ==
    ASSUME NEW ns \in Seq(Natives), NEW l \in Natives, NEW a, NEW b, Active(ns, a),
           IF l.kind = "rust" THEN l.previous = a ELSE b = a
    PROVE  Active(Append(ns, l), b)
<1> DEFINE ms == Append(ns, l)
<1>1. Len(ns) \in Nat /\ Len(ms) = Len(ns) + 1 /\ ms[Len(ns) + 1] = l /\ \A i \in 1 .. Len(ns) : ms[i] = ns[i]
    BY Appended DEF Last
<1> HIDE DEF ms
<1>2. ASSUME NEW i \in 1 .. Len(ms), ms[i].kind = "rust", \A j \in 1 .. i - 1 : ms[j].kind # "rust"
      PROVE  ms[i].previous = "none"
  <2>1. CASE i <= Len(ns)
    <3>1. i \in 1 .. Len(ns) /\ ns[i] = ms[i] /\ \A j \in 1 .. i - 1 : ns[j].kind # "rust"
        BY <1>1, <1>2, <2>1
    <3> QED
        BY <1>2, <3>1, Zenon DEF Active
  <2>2. CASE i = Len(ns) + 1
    <3>1. ms[i] = l /\ \A j \in 1 .. Len(ns) : ns[j].kind # "rust"
        BY <1>1, <1>2, <2>2
    <3> QED
        BY <1>2, <3>1 DEF Active
  <2> QED
      BY <1>1, <2>1, <2>2
<1>3. ASSUME \A j \in 1 .. Len(ms) : ms[j].kind # "rust" PROVE b = "none"
  <2>1. l.kind # "rust" /\ \A j \in 1 .. Len(ns) : ns[j].kind # "rust"
      BY <1>1, <1>3
  <2> QED
      BY <2>1 DEF Active
<1>4. Active(ms, b)
    BY <1>2, <1>3 DEF Active
<1> QED
    BY <1>4 DEF ms

LEMMA ActivePop ==
    ASSUME NEW ns \in Seq(Natives), ns # <<>>, NEW a, Active(ns, a)
    PROVE  Active(Front(ns), IF Last(ns).kind = "rust" THEN Last(ns).previous ELSE a)
<1> DEFINE ms == Front(ns)
           b == IF Last(ns).kind = "rust" THEN Last(ns).previous ELSE a
<1>1. Len(ns) \in Nat \ {0} /\ Len(ms) = Len(ns) - 1 /\ \A i \in 1 .. Len(ns) - 1 : ms[i] = ns[i]
    BY Split
<1> HIDE DEF ms
<1>2. ASSUME NEW i \in 1 .. Len(ms), ms[i].kind = "rust", \A j \in 1 .. i - 1 : ms[j].kind # "rust"
      PROVE  ms[i].previous = "none"
  <2>1. i \in 1 .. Len(ns) /\ ns[i] = ms[i] /\ \A j \in 1 .. i - 1 : ns[j].kind # "rust"
      BY <1>1, <1>2
  <2> QED
      BY <1>2, <2>1 DEF Active
<1>3. ASSUME \A j \in 1 .. Len(ms) : ms[j].kind # "rust" PROVE b = "none"
  <2>1. \A j \in 1 .. Len(ns) - 1 : ns[j].kind # "rust"
      BY <1>1, <1>3
  <2>2. CASE Last(ns).kind = "rust"
      BY <1>1, <2>1, <2>2 DEF Active, Last
  <2>3. CASE Last(ns).kind # "rust"
    <3>1. \A j \in 1 .. Len(ns) : ns[j].kind # "rust"
        BY <1>1, <2>1, <2>3 DEF Last
    <3> QED
        BY <2>3, <3>1 DEF Active
  <2> QED
      BY <2>2, <2>3
<1> HIDE DEF b
<1>4. Active(ms, b)
    BY <1>2, <1>3 DEF Active
<1> QED
    BY <1>4 DEF ms, b

(* A level is entered, and one is left *)
LEMMA LevelsPush ==
    ASSUME NEW ns, NEW f \in Nat, NEW u \in Nat, NEW n \in Nat, NEW a, NEW b, NEW l \in Natives,
           Levels(ns, f, u, n, a), LevelOK(l), Fits(l, ns),
           IF l.kind = "rust" THEN l.previous = a ELSE b = a
    PROVE  Levels(Append(ns, l), f + FramesOf(l), u + UnitsOf(l), n + CallsOf(l), b)
<1>1. ns \in Seq(Natives)
    BY DEF Levels, Sound
<1>2. Sound(Append(ns, l))
    BY SoundPush DEF Levels
<1>3. Active(Append(ns, l), b)
    BY <1>1, ActivePush DEF Levels
<1>4. /\ AllFrames(Append(ns, l)) = f + FramesOf(l)
      /\ AllUnits(Append(ns, l)) = u + UnitsOf(l)
      /\ AllCalls(Append(ns, l)) = n + CallsOf(l)
    BY <1>1, SumsOfLevels DEF Levels
<1> QED
    BY <1>2, <1>3, <1>4 DEF Levels

LEMMA LevelsPop ==
    ASSUME NEW ns, NEW f \in Nat, NEW u \in Nat, NEW n \in Nat, NEW a,
           Levels(ns, f, u, n, a), ns # <<>>
    PROVE  LET l == Last(ns)
           IN  /\ Levels(Front(ns), f - FramesOf(l), u - UnitsOf(l), n - CallsOf(l),
                         IF l.kind = "rust" THEN l.previous ELSE a)
               /\ l \in Natives /\ LevelOK(l) /\ Fits(l, Front(ns))
               /\ f - FramesOf(l) \in Nat /\ u - UnitsOf(l) \in Nat /\ n - CallsOf(l) \in Nat
<1> DEFINE l == Last(ns)
           b == IF l.kind = "rust" THEN l.previous ELSE a
<1>1. ns \in Seq(Natives)
    BY DEF Levels, Sound
<1>2. Sound(Front(ns)) /\ l \in Natives /\ LevelOK(l) /\ Fits(l, Front(ns))
    BY SoundPop DEF Levels
<1>3. Active(Front(ns), b)
    BY <1>1, ActivePop DEF Levels
<1>4. Front(ns) \in Seq(Natives) /\ Append(Front(ns), l) = ns
    BY <1>1, Split
<1>5. FramesOf(l) \in Nat /\ UnitsOf(l) \in Nat /\ CallsOf(l) \in Nat
    BY <1>2 DEF FramesOf, UnitsOf, CallsOf, Natives, CallLevels, RustLevels, RunLevels
<1> HIDE DEF l, b
<1>6. /\ AllFrames(Front(ns)) \in Nat /\ AllFrames(ns) = AllFrames(Front(ns)) + FramesOf(l)
      /\ AllUnits(Front(ns)) \in Nat /\ AllUnits(ns) = AllUnits(Front(ns)) + UnitsOf(l)
      /\ AllCalls(Front(ns)) \in Nat /\ AllCalls(ns) = AllCalls(Front(ns)) + CallsOf(l)
    BY <1>2, <1>4, SumsOfLevels, Zenon
<1>7. /\ AllFrames(Front(ns)) = f - FramesOf(l) /\ AllUnits(Front(ns)) = u - UnitsOf(l)
      /\ AllCalls(Front(ns)) = n - CallsOf(l)
    BY <1>5, <1>6 DEF Levels
<1>8. Levels(Front(ns), f - FramesOf(l), u - UnitsOf(l), n - CallsOf(l), b)
    BY <1>2, <1>3, <1>7 DEF Levels
<1> QED
    BY <1>2, <1>6, <1>7, <1>8 DEF l, b

-----------------------------------------------------------------------------
(* The State's side: records pushed, popped and replaced *)

LEMMA ArenaPush ==
    ASSUME NEW rs \in Seq(Records), NEW r \in Records, NEW v \in Nat, NEW d \in 0 .. MaxArguments,
           Arena(rs, v), r.varargStart = v
    PROVE  Arena(Append(rs, r), v + d)
<1> DEFINE qs == Append(rs, r)
<1>1. Len(rs) \in Nat /\ qs # <<>> /\ Len(qs) = Len(rs) + 1 /\ qs[Len(rs) + 1] = r
      /\ \A i \in 1 .. Len(rs) : qs[i] = rs[i]
    BY Appended DEF Last
<1> HIDE DEF qs
<1>2. qs[1].varargStart = 0
  <2>1. CASE rs = <<>>
      BY <1>1, <2>1 DEF Arena
  <2>2. CASE rs # <<>>
    <3>1. Len(rs) \in Nat \ {0}
        BY <2>2, EmptySeq
    <3> QED
        BY <1>1, <2>2, <3>1 DEF Arena
  <2> QED
      BY <2>1, <2>2
<1>3. ASSUME NEW i \in 1 .. Len(qs)
      PROVE  (IF i = Len(qs) THEN v + d ELSE qs[i + 1].varargStart) - qs[i].varargStart \in 0 .. MaxArguments
  <2>1. CASE i = Len(rs) + 1
      BY <1>1, <2>1, CallsAssumption
  <2>2. CASE i = Len(rs)
      BY <1>1, <2>2 DEF Arena
  <2>3. CASE i < Len(rs)
    <3>1. i \in 1 .. Len(rs) /\ i + 1 \in 1 .. Len(rs) /\ i # Len(rs) /\ i # Len(qs)
        BY <1>1, <2>3
    <3>2. qs[i] = rs[i] /\ qs[i + 1] = rs[i + 1]
        BY <1>1, <3>1
    <3>3. rs[i + 1].varargStart - rs[i].varargStart \in 0 .. MaxArguments
        BY <3>1 DEF Arena
    <3> QED
        BY <3>1, <3>2, <3>3
  <2> QED
      BY <1>1, <2>1, <2>2, <2>3
<1>4. Arena(qs, v + d)
    BY <1>1, <1>2, <1>3 DEF Arena
<1> QED
    BY <1>4 DEF qs

LEMMA ArenaPop ==
    ASSUME NEW rs \in Seq(Records), rs # <<>>, NEW v \in Nat, Arena(rs, v)
    PROVE  /\ Arena(Front(rs), Last(rs).varargStart)
           /\ v - Last(rs).varargStart \in 0 .. MaxArguments
<1> DEFINE qs == Front(rs)
<1>1. Len(rs) \in Nat \ {0} /\ qs \in Seq(Records) /\ Len(qs) = Len(rs) - 1
      /\ \A i \in 1 .. Len(rs) - 1 : qs[i] = rs[i]
    BY Split
<1> HIDE DEF qs
<1>2. v - Last(rs).varargStart \in 0 .. MaxArguments
    BY <1>1 DEF Arena, Last
<1>3. qs = <<>> => Last(rs).varargStart = 0
  <2> SUFFICES ASSUME qs = <<>> PROVE Last(rs).varargStart = 0
      OBVIOUS
  <2>1. Len(qs) = 0
      OBVIOUS
  <2>2. Len(rs) = 1
      BY <1>1, <2>1
  <2> QED
      BY <2>2 DEF Arena, Last
<1>4. qs # <<>> => qs[1].varargStart = 0
  <2> SUFFICES ASSUME qs # <<>> PROVE qs[1].varargStart = 0
      OBVIOUS
  <2>1. Len(qs) \in Nat \ {0}
      BY <1>1, EmptySeq
  <2> QED
      BY <1>1, <2>1 DEF Arena
<1>5. ASSUME NEW i \in 1 .. Len(qs)
      PROVE  (IF i = Len(qs) THEN Last(rs).varargStart ELSE qs[i + 1].varargStart) - qs[i].varargStart \in 0 .. MaxArguments
  <2>1. i \in 1 .. Len(rs) /\ i # Len(rs) /\ qs[i] = rs[i]
      BY <1>1
  <2>2. rs[i + 1].varargStart - rs[i].varargStart \in 0 .. MaxArguments
      BY <2>1 DEF Arena
  <2>3. CASE i = Len(qs)
    <3>1. Last(rs) = rs[i + 1]
        BY <1>1, <2>3 DEF Last
    <3> QED
        BY <2>1, <2>2, <2>3, <3>1
  <2>4. CASE i # Len(qs)
    <3>1. qs[i + 1] = rs[i + 1]
        BY <1>1, <2>4
    <3> QED
        BY <2>1, <2>2, <2>4, <3>1
  <2> QED
      BY <2>3, <2>4
<1>6. Arena(qs, Last(rs).varargStart)
    BY <1>3, <1>4, <1>5 DEF Arena
<1> QED
    BY <1>2, <1>6 DEF qs

LEMMA Fields ==
    ASSUME NEW s \in States
    PROVE  /\ s.top \in Nat /\ s.top <= MaxStackSize /\ s.bottom \in Nat
           /\ s.records \in Seq(Records) /\ s.varargs \in Nat
           /\ s.callDepth \in Nat /\ s.callDepth <= MaxCallDepth
           /\ s.metaDepth \in Nat /\ s.metaDepth <= MaxMetamethodDepth
           /\ s.nativeDepth \in Nat /\ s.nativeDepth <= MaxNativeCallDepth
           /\ s.active \in {"none", "host", "library"}
BY CallsAssumption DEF States

LEMMA LedgerPush ==
    ASSUME NEW s, NEW t \in States, NEW f \in Nat, NEW u \in Nat, NEW n \in Nat, Ledger(s, f, u, n),
           NEW r \in Records, NEW d \in 0 .. MaxArguments, r.varargStart = s.varargs,
           t.records = Append(s.records, r), t.varargs = s.varargs + d,
           t.callDepth = s.callDepth + 1, t.metaDepth = s.metaDepth + r.chain,
           t.nativeDepth = s.nativeDepth
    PROVE  Ledger(t, f + 1, u, n)
<1>1. s.records \in Seq(Records) /\ s.varargs \in Nat
    BY DEF Ledger, States
<1>2. Len(t.records) = Len(s.records) + 1
    BY <1>1
<1>3. AllChains(s.records) \in Nat /\ AllChains(t.records) = AllChains(s.records) + r.chain
    BY <1>1, SumOfChains
<1>4. Arena(t.records, t.varargs)
  <2>1. Arena(Append(s.records, r), s.varargs + d)
      BY <1>1, ArenaPush DEF Ledger
  <2> QED
      BY <2>1
<1>5. r.chain \in Nat
    BY CallsAssumption DEF Records
<1> QED
    BY <1>1, <1>2, <1>3, <1>4, <1>5 DEF Ledger

LEMMA LedgerReplace ==
    ASSUME NEW s, NEW t \in States, NEW f \in Nat, NEW u \in Nat, NEW n \in Nat, Ledger(s, f, u, n),
           s.records # <<>>, NEW r \in Records, NEW d \in 0 .. MaxArguments,
           r.varargStart = Last(s.records).varargStart,
           t.records = Append(Front(s.records), r), t.varargs = r.varargStart + d,
           t.callDepth = s.callDepth, t.metaDepth = s.metaDepth - Last(s.records).chain + r.chain,
           t.nativeDepth = s.nativeDepth
    PROVE  Ledger(t, f, u, n)
<1> DEFINE fr == Front(s.records)
           la == Last(s.records)
<1>1. s.records \in Seq(Records) /\ s.varargs \in Nat
    BY DEF Ledger, States
<1>2. fr \in Seq(Records) /\ la \in Records /\ Len(fr) = Len(s.records) - 1 /\ Append(fr, la) = s.records
      /\ Len(s.records) \in Nat \ {0}
    BY <1>1, Split, Zenon
<1>3. r.chain \in Nat /\ la.chain \in Nat /\ la.varargStart \in Nat
    BY <1>2, CallsAssumption DEF Records
<1>4. Arena(fr, la.varargStart)
    BY <1>1, ArenaPop DEF Ledger
<1> HIDE DEF fr, la
<1>5. AllChains(fr) \in Nat /\ AllChains(s.records) = AllChains(fr) + la.chain
    BY <1>2, SumOfChains, Zenon
<1>6. AllChains(t.records) = AllChains(fr) + r.chain
    BY <1>2, SumOfChains DEF fr
<1>7. Len(t.records) = Len(s.records)
    BY <1>2 DEF fr
<1>8. Arena(t.records, t.varargs)
  <2>1. r.varargStart = la.varargStart
      BY DEF la
  <2>2. Arena(Append(fr, r), la.varargStart + d)
      BY <1>2, <1>3, <1>4, <2>1, ArenaPush
  <2> QED
      BY <2>1, <2>2 DEF fr
<1>9. t.metaDepth = AllChains(t.records) + u
    BY <1>3, <1>5, <1>6 DEF Ledger, la
<1> QED
    BY <1>7, <1>8, <1>9 DEF Ledger

LEMMA LedgerMoves ==
    ASSUME NEW s, NEW t \in States, NEW f \in Nat, NEW u \in Nat, NEW n \in Nat, Ledger(s, f, u, n),
           NEW v \in Nat, NEW m \in Nat,
           t.records = s.records, t.varargs = s.varargs, t.callDepth = s.callDepth,
           t.metaDepth = s.metaDepth + v - u, t.nativeDepth = m
    PROVE  Ledger(t, f, v, m)
<1>1. AllChains(s.records) \in Nat
  <2>1. s.records \in Seq(Records)
      BY DEF Ledger, States
  <2>2. [chain |-> 0, tail |-> FALSE, varargStart |-> 0] \in Records
      BY CallsAssumption DEF Records
  <2> QED
      BY <2>1, <2>2, SumOfChains
<1> QED
    BY <1>1 DEF Ledger

LEMMA LedgerPop ==
    ASSUME NEW s, NEW f \in Nat, NEW u \in Nat, NEW n \in Nat, Ledger(s, f, u, n), s.records # <<>>
    PROVE  LET p == PopActivation(s)
           IN  /\ Ledger(p, f - 1, u, n) /\ f - 1 \in Nat
               /\ p.top = s.top /\ p.bottom = s.bottom /\ p.active = s.active
<1> DEFINE fr == Front(s.records)
           la == Last(s.records)
           p == PopActivation(s)
<1>1. s \in States /\ s.records \in Seq(Records) /\ s.varargs \in Nat
    BY DEF Ledger, States
<1>2. fr \in Seq(Records) /\ la \in Records /\ Len(fr) = Len(s.records) - 1 /\ Append(fr, la) = s.records
      /\ Len(s.records) \in Nat \ {0}
    BY <1>1, Split
<1>3. la.chain \in Nat /\ la.varargStart \in Nat
    BY <1>2, CallsAssumption DEF Records
<1>4. Arena(fr, la.varargStart)
    BY <1>1, ArenaPop DEF Ledger
<1> HIDE DEF fr, la
<1>5. AllChains(fr) \in Nat /\ AllChains(s.records) = AllChains(fr) + la.chain
    BY <1>2, SumOfChains, Zenon
<1>6. /\ p.records = fr /\ p.varargs = la.varargStart /\ p.callDepth = s.callDepth - 1
      /\ p.metaDepth = s.metaDepth - la.chain /\ p.nativeDepth = s.nativeDepth
      /\ p.top = s.top /\ p.bottom = s.bottom /\ p.active = s.active
    BY <1>1 DEF PopActivation, fr, la, States
<1>7. s.callDepth - 1 \in 0 .. MaxCallDepth /\ s.metaDepth - la.chain \in 0 .. MaxMetamethodDepth
  <2>1. s.callDepth = Len(s.records) /\ s.metaDepth = AllChains(s.records) + u
      BY DEF Ledger
  <2>2. /\ s.callDepth \in Nat /\ s.callDepth <= MaxCallDepth
        /\ s.metaDepth \in Nat /\ s.metaDepth <= MaxMetamethodDepth
      BY <1>1, Fields
  <2>3. MaxCallDepth \in Nat /\ MaxMetamethodDepth \in Nat
      BY CallsAssumption
  <2>4. s.callDepth - 1 \in 0 .. MaxCallDepth
      BY <1>2, <2>1, <2>2, <2>3
  <2>5. s.metaDepth - la.chain \in 0 .. MaxMetamethodDepth
    <3>1. s.metaDepth = AllChains(fr) + la.chain + u
        BY <1>5, <2>1
    <3>2. s.metaDepth - la.chain = AllChains(fr) + u
        BY <1>3, <1>5, <3>1
    <3> QED
        BY <1>3, <1>5, <2>2, <2>3, <3>2
  <2> QED
      BY <2>4, <2>5
<1>8. p \in States
    BY <1>1, <1>2, <1>3, <1>7, Zenon DEF PopActivation, States, fr, la
<1> HIDE DEF p
<1>9. Ledger(p, f - 1, u, n) /\ f - 1 \in Nat
  <2>1. /\ s.callDepth = Len(s.records) /\ s.metaDepth = AllChains(s.records) + u
        /\ Len(s.records) = f /\ s.nativeDepth = n
      BY DEF Ledger
  <2>2. p.callDepth = Len(p.records) /\ Len(p.records) = f - 1 /\ f - 1 \in Nat
      BY <1>2, <1>6, <2>1
  <2>3. p.metaDepth = AllChains(p.records) + u
      BY <1>3, <1>5, <1>6, <2>1
  <2> QED
      BY <1>4, <1>6, <1>8, <2>1, <2>2, <2>3 DEF Ledger
<1> QED
    BY <1>6, <1>9 DEF p

-----------------------------------------------------------------------------
(* Both sides together: a call or a callback entered and left *)

LEMMA Kinds ==
    ASSUME NEW l \in Natives
    PROVE  /\ l.kind = "call" => l \in CallLevels
           /\ l.kind = "rust" => l \in RustLevels
           /\ l.kind = "run" => l \in RunLevels
           /\ l.kind \in {"call", "rust", "run"}
BY DEF Natives, CallLevels, RustLevels, RunLevels

LEMMA CoreSound ==
    ASSUME NEW s, NEW ns, Core(s, ns)
    PROVE  s \in States /\ Sound(ns) /\ ns \in Seq(Natives)
BY DEF Core, Levels, Ledger, Sound

LEMMA CoreSame ==
    ASSUME NEW s, NEW ns, Core(s, ns), NEW t \in States,
           t.records = s.records, t.varargs = s.varargs, t.callDepth = s.callDepth,
           t.metaDepth = s.metaDepth, t.nativeDepth = s.nativeDepth, t.active = s.active
    PROVE  Core(t, ns)
BY DEF Core, Ledger

LEMMA CorePush ==
    ASSUME NEW s, NEW ns, Core(s, ns), NEW t \in States, NEW l \in Natives, LevelOK(l), Fits(l, ns),
           l.kind # "run", IF l.kind = "rust" THEN l.previous = s.active ELSE t.active = s.active,
           t.records = s.records, t.varargs = s.varargs, t.callDepth = s.callDepth,
           t.metaDepth = s.metaDepth + UnitsOf(l), t.nativeDepth = s.nativeDepth + CallsOf(l)
    PROVE  Core(t, Append(ns, l))
<1>1. PICK f, u, n \in Nat : Levels(ns, f, u, n, s.active) /\ Ledger(s, f, u, n)
    BY DEF Core
<1>2. FramesOf(l) = 0 /\ UnitsOf(l) \in Nat /\ CallsOf(l) \in Nat
    BY DEF FramesOf, UnitsOf, CallsOf, Natives, CallLevels, RustLevels, RunLevels
<1>3. Levels(Append(ns, l), f, u + UnitsOf(l), n + CallsOf(l), t.active)
  <2>1. Levels(Append(ns, l), f + FramesOf(l), u + UnitsOf(l), n + CallsOf(l), t.active)
      BY <1>1, LevelsPush
  <2>2. f + FramesOf(l) = f
      BY <1>2
  <2> QED
      BY <2>1, <2>2
<1>4. PICK v, m \in Nat : v = u + UnitsOf(l) /\ m = n + CallsOf(l)
    BY <1>2
<1>5. t.metaDepth = s.metaDepth + v - u /\ t.nativeDepth = m
  <2>0. s \in States /\ s.nativeDepth = n
      BY <1>1 DEF Ledger
  <2>1. s.metaDepth \in Nat /\ s.nativeDepth = n
      BY <2>0, Fields
  <2> QED
      BY <1>2, <1>4, <2>1
<1>6. Ledger(t, f, v, m)
    BY <1>1, <1>5, LedgerMoves
<1>7. Levels(Append(ns, l), f, v, m, t.active)
    BY <1>3, <1>4
<1> QED
    BY <1>6, <1>7 DEF Core

(* What the innermost level holds, the State has *)
LEMMA CoreTop ==
    ASSUME NEW s, NEW ns, Core(s, ns), ns # <<>>
    PROVE  /\ Last(ns) \in Natives /\ LevelOK(Last(ns)) /\ Fits(Last(ns), Front(ns))
           /\ UnitsOf(Last(ns)) \in 0 .. s.metaDepth
           /\ CallsOf(Last(ns)) \in 0 .. s.nativeDepth
           /\ FramesOf(Last(ns)) \in 0 .. Len(s.records)
<1>1. PICK f, u, n \in Nat : Levels(ns, f, u, n, s.active) /\ Ledger(s, f, u, n)
    BY DEF Core
<1> DEFINE l == Last(ns)
<1>2. /\ l \in Natives /\ LevelOK(l) /\ Fits(l, Front(ns))
      /\ f - FramesOf(l) \in Nat /\ u - UnitsOf(l) \in Nat /\ n - CallsOf(l) \in Nat
    BY <1>1, LevelsPop
<1>3. FramesOf(l) \in Nat /\ UnitsOf(l) \in Nat /\ CallsOf(l) \in Nat
    BY <1>2 DEF FramesOf, UnitsOf, CallsOf, Natives, CallLevels, RustLevels, RunLevels
<1> HIDE DEF l
<1>4. s.metaDepth \in Nat /\ s.nativeDepth = n /\ Len(s.records) = f /\ s.metaDepth = AllChains(s.records) + u
      /\ s.records \in Seq(Records)
  <2>1. s \in States /\ s.nativeDepth = n /\ Len(s.records) = f /\ s.metaDepth = AllChains(s.records) + u
      BY <1>1 DEF Ledger
  <2> QED
      BY <2>1, Fields
<1>5. AllChains(s.records) \in Nat
  <2>1. [chain |-> 0, tail |-> FALSE, varargStart |-> 0] \in Records
      BY CallsAssumption DEF Records
  <2> QED
      BY <1>4, <2>1, SumOfChains
<1>6. UnitsOf(l) \in 0 .. s.metaDepth
    BY <1>2, <1>3, <1>4, <1>5
<1>7. CallsOf(l) \in 0 .. s.nativeDepth /\ FramesOf(l) \in 0 .. Len(s.records)
    BY <1>2, <1>3, <1>4
<1> QED
    BY <1>2, <1>6, <1>7 DEF l

LEMMA CorePop ==
    ASSUME NEW s, NEW ns, Core(s, ns), ns # <<>>, NEW t \in States, Last(ns).kind # "run",
           t.active = IF Last(ns).kind = "rust" THEN Last(ns).previous ELSE s.active,
           t.records = s.records, t.varargs = s.varargs, t.callDepth = s.callDepth,
           t.metaDepth = s.metaDepth - UnitsOf(Last(ns)), t.nativeDepth = s.nativeDepth - CallsOf(Last(ns))
    PROVE  Core(t, Front(ns))
<1>1. PICK f, u, n \in Nat : Levels(ns, f, u, n, s.active) /\ Ledger(s, f, u, n)
    BY DEF Core
<1> DEFINE l == Last(ns)
<1>2. /\ Levels(Front(ns), f - FramesOf(l), u - UnitsOf(l), n - CallsOf(l), t.active)
      /\ u - UnitsOf(l) \in Nat /\ n - CallsOf(l) \in Nat /\ l \in Natives
    BY <1>1, LevelsPop
<1>3. FramesOf(l) = 0 /\ UnitsOf(l) \in Nat /\ CallsOf(l) \in Nat
    BY <1>2 DEF FramesOf, UnitsOf, CallsOf, Natives, CallLevels, RustLevels, RunLevels
<1> HIDE DEF l
<1>4. PICK v, m \in Nat : v = u - UnitsOf(l) /\ m = n - CallsOf(l)
    BY <1>2
<1>5. t.metaDepth = s.metaDepth + v - u /\ t.nativeDepth = m
  <2>0. s \in States /\ s.nativeDepth = n
      BY <1>1 DEF Ledger
  <2>1. s.metaDepth \in Nat /\ s.nativeDepth = n
      BY <2>0, Fields
  <2> QED
      BY <1>3, <1>4, <2>1 DEF l
<1>6. Ledger(t, f, v, m)
    BY <1>1, <1>5, LedgerMoves
<1>7. Levels(Front(ns), f, v, m, t.active)
  <2>1. f - FramesOf(l) = f
      BY <1>3
  <2> QED
      BY <1>2, <1>4, <2>1
<1> QED
    BY <1>6, <1>7 DEF Core

(* The innermost level changes and stays what it is to the one below *)
Alike(k, l) ==
    /\ k.kind = l.kind /\ k.kind # "call"
    /\ k.kind = "run" => k.frames[1] = l.frames[1]
    /\ k.kind = "rust" => /\ k.via = l.via /\ k.base = l.base /\ k.old = l.old
                          /\ k.previous = l.previous /\ k.charges = l.charges

LEMMA LevelsSwap ==
    ASSUME NEW ns, NEW f \in Nat, NEW u \in Nat, NEW n \in Nat, NEW a, NEW k \in Natives,
           Levels(ns, f, u, n, a), ns # <<>>, LevelOK(k), Alike(k, Last(ns))
    PROVE  Levels(Append(Front(ns), k), f - FramesOf(Last(ns)) + FramesOf(k), u, n, a)
<1> DEFINE l == Last(ns)
           b == IF l.kind = "rust" THEN l.previous ELSE a
<1>1. /\ Levels(Front(ns), f - FramesOf(l), u - UnitsOf(l), n - CallsOf(l), b)
      /\ l \in Natives /\ Fits(l, Front(ns))
      /\ f - FramesOf(l) \in Nat /\ u - UnitsOf(l) \in Nat /\ n - CallsOf(l) \in Nat
    BY LevelsPop
<1>2. Fits(k, Front(ns))
  <2>1. Front(ns) # <<>> /\ Above(l, Last(Front(ns)))
      BY <1>1 DEF Fits, Outermost, Alike
  <2>2. Above(k, Last(Front(ns)))
      BY <2>1 DEF Above, Alike, RustOver
  <2> QED
      BY <2>1, <2>2 DEF Fits
<1>3. UnitsOf(k) = UnitsOf(l) /\ CallsOf(k) = CallsOf(l)
    BY DEF UnitsOf, CallsOf, Alike
<1>4. IF k.kind = "rust" THEN k.previous = b ELSE a = b
    BY DEF Alike
<1>5. UnitsOf(l) \in Nat /\ CallsOf(l) \in Nat
    BY <1>1 DEF UnitsOf, CallsOf, Natives, CallLevels, RustLevels, RunLevels
<1>6. PICK g, v, m \in Nat : g = f - FramesOf(l) /\ v = u - UnitsOf(l) /\ m = n - CallsOf(l)
    BY <1>1
<1> HIDE DEF l, b
<1>7. Levels(Append(Front(ns), k), g + FramesOf(k), v + UnitsOf(k), m + CallsOf(k), a)
  <2>1. Levels(Front(ns), g, v, m, b)
      BY <1>1, <1>6
  <2> QED
      BY <1>2, <1>4, <2>1, LevelsPush
<1>8. v + UnitsOf(k) = u /\ m + CallsOf(k) = n
    BY <1>3, <1>5, <1>6
<1> QED
    BY <1>6, <1>7, <1>8 DEF l

LEMMA CoreSwap ==
    ASSUME NEW s, NEW ns, Core(s, ns), ns # <<>>, NEW k \in Natives, LevelOK(k), Alike(k, Last(ns)),
           k.kind = "rust"
    PROVE  Core(s, [ns EXCEPT ![Len(ns)] = k])
<1>1. PICK f, u, n \in Nat : Levels(ns, f, u, n, s.active) /\ Ledger(s, f, u, n)
    BY DEF Core
<1>2. FramesOf(k) = 0 /\ FramesOf(Last(ns)) = 0
    BY DEF FramesOf, Alike
<1>3. f - FramesOf(Last(ns)) + FramesOf(k) = f
    BY <1>2
<1>4. Levels(Append(Front(ns), k), f, u, n, s.active)
  <2>1. Levels(Append(Front(ns), k), f - FramesOf(Last(ns)) + FramesOf(k), u, n, s.active)
      BY <1>1, LevelsSwap
  <2> QED
      BY <1>3, <2>1
<1>5. [ns EXCEPT ![Len(ns)] = k] = Append(Front(ns), k)
    BY CoreSound, Replaced
<1> QED
    BY <1>1, <1>4, <1>5, Zenon DEF Core

(* The frames of an invocation *)
LEMMA FramesPush ==
    ASSUME NEW l \in RunLevels, LevelOK(l), NEW b \in Nat, FrameOK(b)
    PROVE  LET k == [l EXCEPT !.frames = Append(@, b)]
           IN  /\ k \in Natives /\ LevelOK(k) /\ Alike(k, l) /\ FramesOf(k) = FramesOf(l) + 1
               /\ k.kind = "run" /\ Last(k.frames) = b
<1> DEFINE fs == Append(l.frames, b)
           k == [l EXCEPT !.frames = fs]
<1>1. l.frames \in Seq(Nat) /\ l.kind = "run"
    BY DEF RunLevels
<1>2. l.frames # <<>> /\ \A j \in 1 .. Len(l.frames) : FrameOK(l.frames[j])
    BY <1>1 DEF LevelOK
<1>3. Len(l.frames) \in Nat \ {0}
    BY <1>1, <1>2, EmptySeq
<1>4. fs \in Seq(Nat) /\ fs # <<>> /\ Len(fs) = Len(l.frames) + 1 /\ Last(fs) = b /\ fs[Len(l.frames) + 1] = b
      /\ \A i \in 1 .. Len(l.frames) : fs[i] = l.frames[i]
    BY <1>1, Appended DEF Last
<1> HIDE DEF fs
<1>5. k \in RunLevels /\ k.kind = "run" /\ k.frames = fs
    BY <1>1, <1>4, Zenon DEF RunLevels
<1>6. \A j \in 1 .. Len(fs) : FrameOK(fs[j])
    BY <1>2, <1>3, <1>4
<1> HIDE DEF k
<1>7. LevelOK(k) /\ Alike(k, l) /\ FramesOf(k) = FramesOf(l) + 1
    BY <1>1, <1>3, <1>4, <1>5, <1>6 DEF LevelOK, Alike, FramesOf
<1> QED
    BY <1>4, <1>5, <1>7 DEF Natives, k, fs

LEMMA FramesPop ==
    ASSUME NEW l \in RunLevels, LevelOK(l), Front(l.frames) # <<>>
    PROVE  LET k == [l EXCEPT !.frames = Front(l.frames)]
           IN  /\ k \in Natives /\ LevelOK(k) /\ Alike(k, l) /\ FramesOf(k) = FramesOf(l) - 1
               /\ k.kind = "run" /\ k.frames = Front(l.frames)
<1> DEFINE fs == Front(l.frames)
           k == [l EXCEPT !.frames = fs]
<1>1. l.frames \in Seq(Nat) /\ l.kind = "run"
    BY DEF RunLevels
<1>2. l.frames # <<>> /\ \A j \in 1 .. Len(l.frames) : FrameOK(l.frames[j])
    BY <1>1 DEF LevelOK
<1>3. fs \in Seq(Nat) /\ Len(l.frames) \in Nat \ {0} /\ Len(fs) = Len(l.frames) - 1
      /\ \A i \in 1 .. Len(l.frames) - 1 : fs[i] = l.frames[i]
    BY <1>1, <1>2, Split, Zenon
<1>4. Len(fs) \in Nat \ {0}
    BY <1>3, EmptySeq, Zenon
<1> HIDE DEF fs
<1>5. k \in RunLevels /\ k.kind = "run" /\ k.frames = fs
    BY <1>1, <1>3 DEF RunLevels
<1>6. \A j \in 1 .. Len(fs) : FrameOK(fs[j])
    BY <1>2, <1>3, <1>4
<1>7. fs # <<>>
    BY DEF fs
<1> HIDE DEF k
<1>8. LevelOK(k) /\ Alike(k, l) /\ FramesOf(k) = FramesOf(l) - 1
    BY <1>1, <1>3, <1>4, <1>5, <1>6, <1>7 DEF LevelOK, Alike, FramesOf
<1> QED
    BY <1>5, <1>8 DEF Natives, k, fs

(* A frame is entered, in an invocation of its own or above its caller *)
Pushes(s, t) ==
    \E r \in Records, d \in 0 .. MaxArguments :
        /\ r.varargStart = s.varargs
        /\ t.records = Append(s.records, r) /\ t.varargs = s.varargs + d
        /\ t.callDepth = s.callDepth + 1 /\ t.metaDepth = s.metaDepth + r.chain
        /\ t.nativeDepth = s.nativeDepth /\ t.active = s.active

LEMMA CoreRun ==
    ASSUME NEW s, NEW ns, Core(s, ns), ns # <<>>, Last(ns).kind = "call",
           NEW t \in States, Pushes(s, t), NEW b \in Nat, FrameOK(b), b = Last(ns).idx + 1
    PROVE  Core(t, Append(ns, [kind |-> "run", frames |-> <<b>>]))
<1>1. PICK f, u, n \in Nat : Levels(ns, f, u, n, s.active) /\ Ledger(s, f, u, n)
    BY DEF Core
<1>2. Ledger(t, f + 1, u, n) /\ t.active = s.active
    BY <1>1, LedgerPush DEF Pushes
<1> DEFINE k == [kind |-> "run", frames |-> <<b>>]
<1>3. k \in RunLevels /\ k.kind = "run" /\ k.frames = <<b>> /\ Len(k.frames) = 1 /\ k.frames[1] = b
    BY DEF RunLevels
<1> HIDE DEF k
<1>4. k \in Natives
    BY <1>3 DEF Natives
<1>5. LevelOK(k) /\ FramesOf(k) = 1 /\ UnitsOf(k) = 0 /\ CallsOf(k) = 0
    BY <1>3 DEF LevelOK, FramesOf, UnitsOf, CallsOf
<1>6. Fits(k, ns)
    BY <1>3 DEF Fits, Above
<1>7. Levels(Append(ns, k), f + FramesOf(k), u + UnitsOf(k), n + CallsOf(k), t.active)
    BY <1>1, <1>2, <1>3, <1>4, <1>5, <1>6, LevelsPush, Zenon
<1>8. Levels(Append(ns, k), f + 1, u, n, t.active)
  <2>1. f + FramesOf(k) = f + 1 /\ u + UnitsOf(k) = u /\ n + CallsOf(k) = n
      BY <1>5
  <2> QED
      BY <1>7, <2>1
<1> QED
    BY <1>2, <1>8 DEF Core, k

(* A frame pushed on the innermost invocation *)
FrameOn(ns, b) == [ns EXCEPT ![Len(ns)].frames = Append(@, b)]

LEMMA CoreFrame ==
    ASSUME NEW s, NEW ns, Core(s, ns), ns # <<>>, Last(ns).kind = "run",
           NEW t \in States, Pushes(s, t), NEW b \in Nat, FrameOK(b)
    PROVE  LET ms == FrameOn(ns, b)
           IN  Core(t, ms) /\ ms # <<>> /\ Last(ms).kind = "run" /\ Last(Last(ms).frames) = b
<1>1. PICK f, u, n \in Nat : Levels(ns, f, u, n, s.active) /\ Ledger(s, f, u, n)
    BY DEF Core
<1>2. Ledger(t, f + 1, u, n) /\ t.active = s.active
    BY <1>1, LedgerPush DEF Pushes
<1> DEFINE l == Last(ns)
           k == [l EXCEPT !.frames = Append(@, b)]
           ms == FrameOn(ns, b)
<1>3. l \in RunLevels /\ LevelOK(l)
    BY CoreTop, Kinds
<1>4. k \in Natives /\ LevelOK(k) /\ Alike(k, l) /\ FramesOf(k) = FramesOf(l) + 1
      /\ k.kind = "run" /\ Last(k.frames) = b
    BY <1>3, FramesPush
<1>5. ms = [ns EXCEPT ![Len(ns)] = k]
    BY DEF Last, FrameOn
<1> HIDE DEF k, l, ms
<1>6. ns \in Seq(Natives) /\ Front(ns) \in Seq(Natives)
    BY CoreSound, Split
<1>7. ms = Append(Front(ns), k)
    BY <1>4, <1>5, <1>6, Replaced
<1>8. ms # <<>> /\ Last(ms) = k
    BY <1>4, <1>6, <1>7, Appended
<1>9. Levels(ms, f - FramesOf(l) + FramesOf(k), u, n, s.active)
    BY <1>1, <1>4, <1>7, LevelsSwap DEF l
<1>10. Levels(ms, f + 1, u, n, t.active)
  <2>1. FramesOf(l) \in Nat
      BY <1>3 DEF FramesOf, RunLevels
  <2>2. f - FramesOf(l) + FramesOf(k) = f + 1
      BY <1>4, <2>1
  <2> QED
      BY <1>2, <1>9, <2>2
<1>11. Core(t, ms)
  <2>1. f + 1 \in Nat
      OBVIOUS
  <2> QED
      BY <1>2, <1>10, <2>1 DEF Core
<1> QED
    BY <1>4, <1>8, <1>11 DEF ms

(* A tail call puts the callee's record in its caller's place *)
Replaces(s, t) ==
    \E r \in Records, d \in 0 .. MaxArguments :
        /\ r.varargStart = Last(s.records).varargStart
        /\ t.records = Append(Front(s.records), r) /\ t.varargs = r.varargStart + d
        /\ t.callDepth = s.callDepth /\ t.metaDepth = s.metaDepth - Last(s.records).chain + r.chain
        /\ t.nativeDepth = s.nativeDepth /\ t.active = s.active

LEMMA CoreTail ==
    ASSUME NEW s, NEW ns, Core(s, ns), s.records # <<>>, NEW t \in States, Replaces(s, t)
    PROVE  Core(t, ns)
<1>1. PICK f, u, n \in Nat : Levels(ns, f, u, n, s.active) /\ Ledger(s, f, u, n)
    BY DEF Core
<1>2. PICK r \in Records, d \in 0 .. MaxArguments :
        /\ r.varargStart = Last(s.records).varargStart
        /\ t.records = Append(Front(s.records), r) /\ t.varargs = r.varargStart + d
        /\ t.callDepth = s.callDepth /\ t.metaDepth = s.metaDepth - Last(s.records).chain + r.chain
        /\ t.nativeDepth = s.nativeDepth /\ t.active = s.active
    BY DEF Replaces
<1>3. Ledger(t, f, u, n)
    BY <1>1, <1>2, LedgerReplace, Zenon
<1> QED
    BY <1>1, <1>2, <1>3 DEF Core

(* A frame is left, and with it its invocation if it was the last *)
LEMMA CorePopFrame ==
    ASSUME NEW s, NEW ns, Core(s, ns), ns # <<>>, Last(ns).kind = "run"
    PROVE  LET p == PopActivation(s)
               fs == Front(Last(ns).frames)
               ms == [ns EXCEPT ![Len(ns)].frames = fs]
           IN  /\ p \in States /\ p.top = s.top /\ p.bottom = s.bottom /\ p.active = s.active
               /\ fs = <<>> => Core(p, Front(ns))
               /\ fs # <<>> => Core(p, ms) /\ ms # <<>> /\ Last(ms).kind = "run" /\ Last(ms).frames = fs
<1> DEFINE p == PopActivation(s)
           l == Last(ns)
           fs == Front(l.frames)
           k == [l EXCEPT !.frames = fs]
           ms == [ns EXCEPT ![Len(ns)].frames = fs]
<1>1. PICK f, u, n \in Nat : Levels(ns, f, u, n, s.active) /\ Ledger(s, f, u, n)
    BY DEF Core
<1>2. l \in RunLevels /\ LevelOK(l) /\ FramesOf(l) \in 0 .. Len(s.records) /\ l \in Natives
    BY CoreTop, Kinds
<1>3. l.frames \in Seq(Nat) /\ l.frames # <<>> /\ FramesOf(l) = Len(l.frames)
    BY <1>2 DEF LevelOK, RunLevels, FramesOf
<1>4. Len(l.frames) \in Nat \ {0} /\ fs \in Seq(Nat) /\ Len(fs) = Len(l.frames) - 1
    BY <1>3, Split
<1>5. s.records # <<>>
  <2>1. s.records = <<>> => Len(s.records) = 0
      OBVIOUS
  <2> QED
      BY <1>2, <1>3, <1>4, <2>1
<1>6. Ledger(p, f - 1, u, n) /\ f - 1 \in Nat /\ p.top = s.top /\ p.bottom = s.bottom /\ p.active = s.active
    BY <1>1, <1>5, LedgerPop
<1>7. p \in States
    BY <1>6 DEF Ledger
<1>8. ASSUME fs = <<>> PROVE Core(p, Front(ns))
  <2>1. Levels(Front(ns), f - FramesOf(l), u - UnitsOf(l), n - CallsOf(l), s.active)
      BY <1>1, LevelsPop
  <2>2. FramesOf(l) = 1 /\ UnitsOf(l) = 0 /\ CallsOf(l) = 0
    <3> HIDE DEF fs
    <3>1. Len(fs) = 0
        BY <1>8
    <3> QED
        BY <1>3, <1>4, <3>1 DEF UnitsOf, CallsOf
  <2>3. f - FramesOf(l) = f - 1 /\ u - UnitsOf(l) = u /\ n - CallsOf(l) = n
      BY <2>2
  <2> HIDE DEF p, l
  <2>4. Levels(Front(ns), f - 1, u, n, p.active)
      BY <1>6, <2>1, <2>3
  <2> QED
      BY <1>6, <2>4 DEF Core
<1>9. ASSUME fs # <<>> PROVE Core(p, ms) /\ ms # <<>> /\ Last(ms).kind = "run" /\ Last(ms).frames = fs
  <2>1. k \in Natives /\ LevelOK(k) /\ Alike(k, l) /\ FramesOf(k) = FramesOf(l) - 1
        /\ k.kind = "run" /\ k.frames = fs
      BY <1>2, <1>9, FramesPop
  <2>2. ms = [ns EXCEPT ![Len(ns)] = k]
      BY DEF Last
  <2> HIDE DEF k, ms, fs, p
  <2>3. ns \in Seq(Natives) /\ Front(ns) \in Seq(Natives)
      BY CoreSound, Split
  <2>4. ms = Append(Front(ns), k)
      BY <2>1, <2>2, <2>3, Replaced
  <2>5. ms # <<>> /\ Last(ms) = k
      BY <2>1, <2>3, <2>4, Appended
  <2>6. Levels(ms, f - FramesOf(l) + FramesOf(k), u, n, s.active)
      BY <1>1, <2>1, <2>4, LevelsSwap
  <2>7. f - FramesOf(l) + FramesOf(k) = f - 1
    <3>1. FramesOf(l) \in Nat
        BY <1>3, <1>4
    <3> QED
        BY <2>1, <3>1
  <2>8. Levels(ms, f - 1, u, n, p.active)
      BY <1>6, <2>6, <2>7
  <2> QED
      BY <1>6, <2>1, <2>5, <2>8 DEF Core
<1> QED
    BY <1>6, <1>7, <1>8, <1>9
=============================================================================
