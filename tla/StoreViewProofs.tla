--------------------------- MODULE StoreViewProofs ---------------------------
(***************************************************************************)
(* What the display filters show, what the writers are given, and what the *)
(* user interface has been told of both.                                   *)
(***************************************************************************)
EXTENDS StoreOrderProofs, SequenceTheorems, WellFoundedInduction

-----------------------------------------------------------------------------
(* Induction over the natural numbers, for a set instead of a predicate.   *)

\* A set of natural numbers that is not empty has a least element.
LEMMA LeastOf ==
  ASSUME NEW T \in SUBSET Nat, T # {}
  PROVE  \E n \in T : \A m \in T : n <= m
<1> DEFINE less == {pair \in Nat \X Nat : pair[1] < pair[2]}
<1>1. IsWellFoundedOn(less, Nat)
  BY NatLessThanWellFounded DEF OpToRel
<1>2. T \subseteq Nat
  OBVIOUS
<1>3. \A m, n \in T : m < n => <<m, n>> \in less
  OBVIOUS
<1> HIDE DEF less
<1>4. PICK n \in T : \A m \in T : ~(<<m, n>> \in less)
  BY <1>1, WFMin
<1>5. \A m \in T : ~(m < n)
  BY <1>3, <1>4
<1> QED
  BY <1>2, <1>5

\* A set of natural numbers that has 0 and all successors up to a bound has
\* every number up to the bound.
LEMMA UpTo ==
  ASSUME NEW N \in Nat, NEW T, 0 \in T, \A n \in 0..N - 1 : n \in T => n + 1 \in T
  PROVE  \A n \in 0..N : n \in T
<1> DEFINE rest == {n \in 0..N : n \notin T}
<1> SUFFICES ASSUME rest # {} PROVE FALSE
  OBVIOUS
<1>1. rest \in SUBSET Nat
  OBVIOUS
<1>2. PICK n \in rest : \A m \in rest : n <= m
  <2> HIDE DEF rest
  <2> QED
    BY <1>1, LeastOf
<1>3. n \in 0..N /\ n # 0 /\ n - 1 \notin rest
  BY <1>2
<1>4. n - 1 \in 0..N - 1 /\ n - 1 \in T /\ (n - 1) + 1 = n
  BY <1>3
<1> QED
  BY <1>2, <1>4

-----------------------------------------------------------------------------
(* The frames that pass a filter.                                          *)

\* The vector of the frames found so far, as the scan goes on.
Step(found, frames, filter, n) ==
  IF Test(filter, frames[n]) THEN Append(found, frames[n]) ELSE found

IsFound(f, frames, filter, N) ==
  f = [n \in 0..N |-> IF n = 0 THEN <<>> ELSE Step(f[n - 1], frames, filter, n)]

\* The recursion of Found has a solution ...
LEMMA FoundExists ==
  ASSUME NEW frames, NEW filter, NEW N \in Nat
  PROVE  \E f : IsFound(f, frames, filter, N)
<1> DEFINE T == {m \in 0..N : \E f : IsFound(f, frames, filter, m)}
<1>1. 0 \in T
  <2>1. IsFound([n \in 0..0 |-> <<>>], frames, filter, 0)
    BY DEF IsFound
  <2> QED
    BY <2>1
<1>2. ASSUME NEW m \in 0..N - 1, m \in T
      PROVE  m + 1 \in T
  <2>1. PICK f : IsFound(f, frames, filter, m)
    BY <1>2
  <2> DEFINE g == [n \in 0..m + 1 |-> IF n <= m THEN f[n] ELSE Step(f[m], frames, filter, n)]
  <2>2. \A n \in 0..m + 1 : g[n] = IF n = 0 THEN <<>> ELSE Step(g[n - 1], frames, filter, n)
    <3>1. TAKE n \in 0..m + 1
    <3>2. CASE n = 0
      BY <2>1, <3>2 DEF IsFound
    <3>3. CASE n \in 1..m
      <4>1. g[n] = f[n] /\ g[n - 1] = f[n - 1]
        BY <3>3
      <4>2. f[n] = Step(f[n - 1], frames, filter, n)
        BY <2>1, <3>3 DEF IsFound
      <4> QED
        BY <3>3, <4>1, <4>2
    <3>4. CASE n = m + 1
      BY <3>4
    <3> QED
      BY <3>2, <3>3, <3>4
  <2>3. IsFound(g, frames, filter, m + 1)
    BY <2>2 DEF IsFound
  <2>4. m + 1 \in 0..N
    OBVIOUS
  <2> HIDE DEF g
  <2> QED
    BY <2>3, <2>4
<1> HIDE DEF T
<1>3. N \in T
  BY <1>1, <1>2, UpTo
<1> QED
  BY <1>3 DEF T

\* ... so that Found is one.
LEMMA FoundSteps ==
  ASSUME NEW frames \in Seq(Frame), NEW filter
  PROVE  /\ Found(frames, filter)[0] = <<>>
         /\ \A n \in 1..Len(frames) :
              Found(frames, filter)[n] = Step(Found(frames, filter)[n - 1], frames, filter, n)
<1>0. Len(frames) \in Nat
  OBVIOUS
<1>1. \E f : IsFound(f, frames, filter, Len(frames))
  BY <1>0, FoundExists
<1>2. Found(frames, filter) = CHOOSE f : IsFound(f, frames, filter, Len(frames))
  BY DEF Found, Step, IsFound
<1>3. IsFound(Found(frames, filter), frames, filter, Len(frames))
  BY <1>1, <1>2
<1> DEFINE F == Found(frames, filter)
<1> HIDE DEF F
<1>4. F = [n \in 0..Len(frames) |->
             IF n = 0 THEN <<>> ELSE Step(F[n - 1], frames, filter, n)]
  BY <1>3 DEF F, IsFound
<1>5. F[0] = <<>> /\ \A n \in 1..Len(frames) : F[n] = Step(F[n - 1], frames, filter, n)
  BY <1>4
<1> QED
  BY <1>5 DEF F

\* What is found are frames.
LEMMA FoundType ==
  ASSUME NEW s \in Seq(Frame), NEW filter
  PROVE  \A n \in 0..Len(s) : Found(s, filter)[n] \in Seq(Frame)
<1> DEFINE P(n) == Found(s, filter)[n] \in Seq(Frame)
           T == {n \in 0..Len(s) : P(n)}
<1>1. Len(s) \in Nat
  OBVIOUS
<1>2. P(0)
  BY FoundSteps, EmptySeq
<1>3. ASSUME NEW n \in 0..Len(s) - 1, P(n)
      PROVE  P(n + 1)
  <2>1. n + 1 \in 1..Len(s) /\ (n + 1) - 1 = n /\ s[n + 1] \in Frame
    BY <1>1
  <2>2. Found(s, filter)[n + 1] = Step(Found(s, filter)[n], s, filter, n + 1)
    BY <2>1, FoundSteps
  <2> QED
    BY <1>3, <2>1, <2>2, AppendProperties DEF Step
<1> HIDE DEF P
<1>4. 0 \in T /\ \A n \in 0..Len(s) - 1 : n \in T => n + 1 \in T
  BY <1>1, <1>2, <1>3
<1> HIDE DEF T
<1>5. \A n \in 0..Len(s) : n \in T
  BY <1>1, <1>4, UpTo
<1> QED
  BY <1>5 DEF T, P

LEMMA SelectedType ==
  ASSUME NEW s \in Seq(Frame), NEW filter
  PROVE  Selected(s, filter) \in Seq(Frame) /\ Len(Selected(s, filter)) \in Nat
<1>1. Len(s) \in 0..Len(s)
  OBVIOUS
<1>2. Selected(s, filter) \in Seq(Frame)
  BY <1>1, FoundType DEF Selected
<1> QED
  BY <1>2, LenProperties

\* What is found among the first frames depends on those only.
LEMMA FoundPrefix ==
  ASSUME NEW s \in Seq(Frame), NEW t \in Seq(Frame), NEW filter, NEW N \in Nat,
         N <= Len(s), N <= Len(t), \A n \in 1..N : s[n] = t[n]
  PROVE  Found(s, filter)[N] = Found(t, filter)[N]
<1> DEFINE P(n) == Found(s, filter)[n] = Found(t, filter)[n]
           T == {n \in 0..N : P(n)}
<1>1. Len(s) \in Nat /\ Len(t) \in Nat
  OBVIOUS
<1>2. P(0)
  BY FoundSteps
<1>3. ASSUME NEW n \in 0..N - 1, P(n)
      PROVE  P(n + 1)
  <2>1. /\ n + 1 \in 1..Len(s) /\ n + 1 \in 1..Len(t) /\ n + 1 \in 1..N
        /\ (n + 1) - 1 = n
    BY <1>1
  <2>2. /\ Found(s, filter)[n + 1] = Step(Found(s, filter)[n], s, filter, n + 1)
        /\ Found(t, filter)[n + 1] = Step(Found(t, filter)[n], t, filter, n + 1)
    BY <2>1, FoundSteps
  <2>3. s[n + 1] = t[n + 1]
    BY <2>1
  <2> QED
    BY <1>3, <2>2, <2>3 DEF Step
<1> HIDE DEF P
<1>4. 0 \in T /\ \A n \in 0..N - 1 : n \in T => n + 1 \in T
  BY <1>2, <1>3
<1> HIDE DEF T
<1>5. \A n \in 0..N : n \in T
  BY <1>4, UpTo
<1> QED
  BY <1>5 DEF T, P

LEMMA ConcatAppend ==
  ASSUME NEW S, NEW s \in Seq(S), NEW t \in Seq(S), NEW x \in S
  PROVE  s \o Append(t, x) = Append(s \o t, x)
<1>1. x \in S /\ <<x>> \in Seq(S)
  OBVIOUS
<1>2. s \o t \in Seq(S)
  BY ConcatProperties
<1>3. Append(t, x) = t \o <<x>> /\ Append(s \o t, x) = (s \o t) \o <<x>>
  BY <1>2, AppendIsConcat
<1> QED
  BY <1>1, <1>3, ConcatAssociative

\* Selecting from two parts one after the other selects from the whole.
LEMMA SelectedConcat ==
  ASSUME NEW s \in Seq(Frame), NEW t \in Seq(Frame), NEW filter
  PROVE  Selected(s \o t, filter) = Selected(s, filter) \o Selected(t, filter)
<1> DEFINE u == s \o t
           P(n) == Found(u, filter)[Len(s) + n] = Selected(s, filter) \o Found(t, filter)[n]
           T == {n \in 0..Len(t) : P(n)}
<1>1. u \in Seq(Frame) /\ Len(u) = Len(s) + Len(t) /\ Len(s) \in Nat /\ Len(t) \in Nat
  BY ConcatProperties, LenProperties
<1>2. \A n \in 1..Len(s) : u[n] = s[n]
  BY <1>1, ConcatProperties
<1>3. \A n \in 1..Len(t) : u[Len(s) + n] = t[n]
  <2>1. TAKE n \in 1..Len(t)
  <2>2. /\ Len(s) + n \in 1..Len(s) + Len(t) /\ ~(Len(s) + n <= Len(s))
        /\ (Len(s) + n) - Len(s) = n
    BY <1>1
  <2> QED
    BY <2>2, ConcatProperties
<1>4. Selected(s, filter) \in Seq(Frame)
  BY SelectedType
<1> HIDE DEF u
<1>5. P(0)
  <2>1. Len(s) <= Len(s) /\ Len(s) <= Len(u)
    BY <1>1
  <2>2. Found(u, filter)[Len(s)] = Found(s, filter)[Len(s)]
    BY <1>1, <1>2, <2>1, FoundPrefix
  <2>3. Found(t, filter)[0] = <<>> /\ Len(s) + 0 = Len(s)
    BY <1>1, FoundSteps
  <2>4. Found(u, filter)[Len(s)] = Selected(s, filter)
    BY <2>2 DEF Selected
  <2> QED
    BY <1>4, <2>3, <2>4, ConcatEmptySeq
<1>6. ASSUME NEW n \in 0..Len(t) - 1, P(n)
      PROVE  P(n + 1)
  <2>1. /\ n + 1 \in 1..Len(t) /\ (n + 1) - 1 = n
        /\ Len(s) + (n + 1) \in 1..Len(u) /\ (Len(s) + (n + 1)) - 1 = Len(s) + n
    <3> HIDE <1>6
    <3> QED
      BY <1>1
  <2>2. u[Len(s) + (n + 1)] = t[n + 1] /\ t[n + 1] \in Frame
    BY <1>3, <2>1, ElementOfSeq
  <2>3. Found(u, filter)[Len(s) + (n + 1)]
          = Step(Found(u, filter)[Len(s) + n], u, filter, Len(s) + (n + 1))
    BY <1>1, <2>1, FoundSteps
  <2>4. Found(t, filter)[n + 1] = Step(Found(t, filter)[n], t, filter, n + 1)
    BY <2>1, FoundSteps
  <2>5. Found(t, filter)[n] \in Seq(Frame)
    BY <1>1, FoundType
  <2>6. Append(Selected(s, filter) \o Found(t, filter)[n], t[n + 1])
          = Selected(s, filter) \o Append(Found(t, filter)[n], t[n + 1])
    <3> DEFINE a == Selected(s, filter)
               b == Found(t, filter)[n]
               x == t[n + 1]
    <3>1. a \in Seq(Frame) /\ b \in Seq(Frame) /\ x \in Frame
      BY <1>4, <2>2, <2>5
    <3> HIDE DEF a, b, x
    <3>2. a \o Append(b, x) = Append(a \o b, x)
      BY <3>1, ConcatAppend
    <3> QED
      BY <3>2 DEF a, b, x
  <2> QED
    BY <1>6, <2>2, <2>3, <2>4, <2>6 DEF Step
<1> HIDE DEF P
<1>7. 0 \in T /\ \A n \in 0..Len(t) - 1 : n \in T => n + 1 \in T
  BY <1>1, <1>5, <1>6
<1> HIDE DEF T
<1>8. \A n \in 0..Len(t) : n \in T
  BY <1>1, <1>7, UpTo
<1>9. P(Len(t))
  BY <1>1, <1>8 DEF T
<1> QED
  BY <1>1, <1>9 DEF Selected, P, u

\* A scan that goes on from where it stopped finds what one scan of all would.
LEMMA SelectedNext ==
  ASSUME NEW s \in Seq(Frame), NEW filter, NEW m \in Nat, NEW n \in Nat,
         m <= n, n <= Len(s)
  PROVE  Selected(SubSeq(s, 1, n), filter)
           = Selected(SubSeq(s, 1, m), filter) \o Selected(SubSeq(s, m + 1, n), filter)
<1>1. Len(s) \in Nat /\ \A k \in 1..Len(s) : s[k] \in Frame
  BY LenProperties, ElementOfSeq
<1>2. SubSeq(s, 1, m) \in Seq(Frame)
  <2>1. \A k \in 1..m : s[k] \in Frame
    BY <1>1
  <2> QED
    BY <2>1, SubSeqProperties
<1>3. SubSeq(s, m + 1, n) \in Seq(Frame)
  <2>1. \A k \in m + 1..n : s[k] \in Frame
    BY <1>1
  <2>2. m + 1 \in Int /\ n \in Int
    OBVIOUS
  <2> QED
    BY <2>1, <2>2, SubSeqProperties
<1>4. SubSeq(s, 1, m) \o SubSeq(s, m + 1, n) = SubSeq(s, 1, n)
  <2>1. 1 \in 1..Len(s) + 1 /\ m \in 1 - 1..Len(s) /\ n \in m..Len(s)
    BY <1>1
  <2> QED
    BY <2>1, ConcatAdjacentSubSeq
<1> DEFINE a == SubSeq(s, 1, m)
           b == SubSeq(s, m + 1, n)
<1> HIDE DEF a, b
<1>5. Selected(a \o b, filter) = Selected(a, filter) \o Selected(b, filter)
  BY <1>2, <1>3, SelectedConcat DEF a, b
<1> QED
  BY <1>4, <1>5 DEF a, b

\* The beginning of the store stays as frames are added.
LEMMA BeginningStays ==
  ASSUME NEW s \in Seq(Frame), NEW t \in Seq(Frame), NEW n \in Nat, n <= Len(s)
  PROVE  SubSeq(s \o t, 1, n) = SubSeq(s, 1, n)
<1>1. CASE n = 0
  BY <1>1, SubSeqEmpty
<1>2. CASE n # 0
  <2>1. 1 \in 1..Len(s) /\ n \in 1..Len(s)
    BY <1>2, LenProperties
  <2> QED
    BY <2>1, SubSeqOfConcat1
<1> QED
  BY <1>1, <1>2

LEMMA SelectedNothing ==
  ASSUME NEW s \in Seq(Frame), NEW filter
  PROVE  SubSeq(s, 1, 0) = <<>> /\ Selected(SubSeq(s, 1, 0), filter) = <<>>
<1>1. SubSeq(s, 1, 0) = <<>>
  <2>1. 1 \in Int /\ 0 \in Int /\ 0 < 1
    OBVIOUS
  <2> QED
    BY <2>1, SubSeqEmpty
<1>2. <<>> \in Seq(Frame) /\ Len(<<>>) = 0
  BY EmptySeq
<1>3. Found(<<>>, filter)[0] = <<>>
  BY <1>2, FoundSteps
<1> QED
  BY <1>1, <1>2, <1>3 DEF Selected

\* The indices of frames.
LEMMA IndicesType ==
  ASSUME NEW s \in Seq(Frame)
  PROVE  Indices(s) \in Seq(Nat) /\ Len(Indices(s)) = Len(s) /\ (s = <<>> => Indices(s) = <<>>)
<1>1. Len(s) \in Nat /\ DOMAIN s = 1..Len(s)
  BY LenProperties
<1>2. \A k \in 1..Len(s) : s[k].index \in Nat
  <2>1. \A k \in 1..Len(s) : s[k] \in Frame
    BY ElementOfSeq
  <2> QED
    BY <2>1 DEF Frame
<1>3. Indices(s) \in [1..Len(s) -> Nat]
  BY <1>1, <1>2 DEF Indices
<1>4. Indices(s) \in Seq(Nat) /\ Len(Indices(s)) = Len(s)
  BY <1>1, <1>3
<1>5. s = <<>> => Indices(s) = <<>>
  BY <1>4, EmptySeq
<1> QED
  BY <1>4, <1>5

LEMMA IndicesConcat ==
  ASSUME NEW s \in Seq(Frame), NEW t \in Seq(Frame)
  PROVE  Indices(s \o t) = Indices(s) \o Indices(t)
<1> DEFINE u == Indices(s \o t)
           a == Indices(s)
           b == Indices(t)
           v == a \o b
<1>1. /\ Len(s) \in Nat /\ Len(t) \in Nat /\ s \o t \in Seq(Frame)
      /\ Len(s \o t) = Len(s) + Len(t)
      /\ \A k \in 1..Len(s) + Len(t) :
           (s \o t)[k] = IF k <= Len(s) THEN s[k] ELSE t[k - Len(s)]
  BY LenProperties, ConcatProperties
<1>2. u \in Seq(Nat) /\ Len(u) = Len(s) + Len(t)
  BY <1>1, IndicesType
<1>3. \A k \in 1..Len(s) + Len(t) : u[k] = (s \o t)[k].index
  <2>1. DOMAIN (s \o t) = 1..Len(s) + Len(t)
    BY <1>1, LenProperties
  <2> QED
    BY <2>1 DEF Indices
<1>4. a \in Seq(Nat) /\ Len(a) = Len(s) /\ b \in Seq(Nat) /\ Len(b) = Len(t)
  BY IndicesType
<1>5. /\ \A k \in 1..Len(s) : a[k] = s[k].index
      /\ \A k \in 1..Len(t) : b[k] = t[k].index
  BY LenProperties DEF Indices
<1> HIDE DEF a, b, u
<1>6. /\ v \in Seq(Nat) /\ Len(v) = Len(s) + Len(t)
      /\ \A k \in 1..Len(s) + Len(t) :
           v[k] = IF k <= Len(s) THEN a[k] ELSE b[k - Len(s)]
  <2>1. /\ v \in Seq(Nat) /\ Len(v) = Len(a) + Len(b)
        /\ \A k \in 1..Len(a) + Len(b) :
             v[k] = IF k <= Len(a) THEN a[k] ELSE b[k - Len(a)]
    BY <1>4, ConcatProperties
  <2> QED
    BY <1>4, <2>1
<1> HIDE DEF v
<1>7. ASSUME NEW k \in 1..Len(s) + Len(t)
      PROVE  u[k] = v[k]
  <2>1. CASE k <= Len(s)
    <3>1. k \in 1..Len(s)
      BY <1>1, <2>1
    <3> QED
      BY <1>1, <1>3, <1>5, <1>6, <2>1, <3>1
  <2>2. CASE ~(k <= Len(s))
    <3>1. k - Len(s) \in 1..Len(t)
      BY <1>1, <2>2
    <3> QED
      BY <1>1, <1>3, <1>5, <1>6, <2>2, <3>1
  <2> QED
    BY <2>1, <2>2
<1>8. u = v
  BY <1>2, <1>6, <1>7, SeqEqual
<1> QED
  BY <1>8 DEF a, b, u, v

-----------------------------------------------------------------------------
(* FilterInv is inductive.                                                 *)

\* What the filters have found and announced has its type.
FilteredOK ==
  /\ filtered \in [FilterIds -> Seq(Nat)]
  /\ fannounced \in [FilterIds -> Nat]

\* The filter under an id has found exactly what it was to find.
Scanned(id) ==
  filtered[id] = Indices(Selected(SubSeq(stored, 1, filterMap[id].offset), filterMap[id].filter))

\* Between the two halves of set_filter the indices are those of the former
\* filter, and nothing is announced of the new one.
Unlinking(id) == evpc = "unlink" /\ cur = id

FilterOK(id) ==
  /\ filterMap[id].offset <= Len(stored)
  /\ evpc \in {"loop", "announceFiltered"} /\ id \notin todo =>
       filterMap[id].offset = Len(stored)
  /\ fannounced[id] <= Len(filtered[id])
  /\ fannounced[id] = Len(filtered[id]) \/ (evpc \in {"unlink", "announceFiltered"} /\ cur = id)
  /\ Unlinking(id) => fannounced[id] = 0 /\ filterMap[id].offset = 0
  /\ ~Unlinking(id) => Scanned(id)

\* The event loop is past its last command.
Dropped == {"dropSerial", "joinSerial", "dropParallel", "joinParallel", "ended", "aborted"}

\* The inductive strengthening of AnnouncedBacked and FilteredExact.
FilterInv ==
  /\ TypeOK /\ FilteredOK
  /\ announced <= Len(stored) /\ (evpc # "announce" => announced = Len(stored))
  /\ todo \subseteq Active(filterMap)
  /\ \A id \in FilterIds \ Active(filterMap) : filtered[id] = <<>>
  /\ \A id \in Active(filterMap) : FilterOK(id)

LEMMA InitFilter == Init => FilterInv
<1> SUFFICES ASSUME Init PROVE FilterInv
  OBVIOUS
<1>1. TypeOK
  BY InitType
<1>2. FilteredOK /\ Active(filterMap) = {}
  BY EmptySeq DEF Init, FilteredOK, Active, Unset
<1> QED
  BY <1>1, <1>2, EmptySeq DEF Init, FilterInv

\* The types that the steps below need.
LEMMA FilterTypes ==
  ASSUME FilterInv
  PROVE  /\ stored \in Seq(Frame) /\ Len(stored) \in Nat
         /\ filterMap \in [FilterIds -> [filter : Filters \cup {NoFilter}, offset : Nat]]
         /\ filtered \in [FilterIds -> Seq(Nat)]
         /\ fannounced \in [FilterIds -> Nat]
         /\ \A id \in FilterIds : filterMap[id].offset \in Nat /\ Len(filtered[id]) \in Nat
         /\ Active(filterMap) \subseteq FilterIds
<1>1. /\ stored \in Seq(Frame)
      /\ filterMap \in [FilterIds -> [filter : Filters \cup {NoFilter}, offset : Nat]]
      /\ filtered \in [FilterIds -> Seq(Nat)]
      /\ fannounced \in [FilterIds -> Nat]
  BY DEF FilterInv, FilteredOK, TypeOK, FramesOK, ViewsOK
<1>2. \A id \in FilterIds : filterMap[id].offset \in Nat /\ Len(filtered[id]) \in Nat
  BY <1>1, LenProperties
<1> QED
  BY <1>1, <1>2, LenProperties DEF Active

\* A step that the filters do not see.
LEMMA FilterSame ==
  ASSUME FilterInv, TypeOK', UNCHANGED <<stored, filterView, todo, announced, evpc>>
  PROVE  FilterInv'
  BY DEF FilterInv, FilterOK, FilteredOK, Unlinking, Scanned, Active, filterView

\* A step between commands, outputs and drops: all filters are due again, or
\* those that were due still are.
LEMMA FilterRest ==
  ASSUME FilterInv, TypeOK', UNCHANGED <<stored, filterView, announced>>,
         evpc \notin {"announce", "unlink", "announceFiltered"},
         evpc' \notin {"announce", "unlink", "announceFiltered"},
         todo' \subseteq Active(filterMap),
         evpc' = "loop" => todo' = Active(filterMap)
  PROVE  FilterInv'
<1>1. /\ UNCHANGED <<filterMap, filtered, cur, fannounced>>
      /\ Active(filterMap') = Active(filterMap)
  BY DEF filterView
<1>2. FilteredOK' /\ (evpc' # "announce" => announced' = Len(stored'))
      /\ announced' <= Len(stored')
      /\ \A id \in FilterIds \ Active(filterMap') : filtered'[id] = <<>>
  BY <1>1 DEF FilterInv, FilteredOK
<1>3. ASSUME NEW id \in Active(filterMap)
      PROVE  FilterOK(id)'
  BY <1>1, <1>3 DEF FilterInv, FilterOK, Unlinking, Scanned
<1> QED
  BY <1>1, <1>2, <1>3 DEF FilterInv

LEMMA ProcessStoreFilter ==
  ASSUME FilterInv, TypeOK', ProcessStore, UNCHANGED loopStutter
  PROVE  FilterInv'
<1> DEFINE b == Head(chan).frames
<1>1. b \in Seq(Frame) /\ evpc = "loop" /\ todo = {}
  BY Taken, CommandFields DEF ProcessStore, Received, FilterInv, TypeOK, Batch
<1>2. /\ stored' = stored \o b /\ evpc' = "announce"
      /\ UNCHANGED <<filterMap, filtered, cur, fannounced, todo, announced>>
      /\ Active(filterMap') = Active(filterMap)
  BY DEF ProcessStore, filterVars, filterView, eventVars
<1> HIDE DEF b
<1>3. Len(stored') = Len(stored) + Len(b) /\ Len(stored) \in Nat /\ Len(b) \in Nat
  BY <1>1, <1>2, FilterTypes, ConcatProperties, LenProperties
<1>4. announced' <= Len(stored')
  <2>1. announced = Len(stored)
    BY <1>1 DEF FilterInv
  <2> QED
    BY <1>2, <1>3, <2>1
<1>5. ASSUME NEW id \in Active(filterMap)
      PROVE  FilterOK(id)'
  <2>1. FilterOK(id) /\ filterMap[id].offset \in Nat
    BY <1>5, FilterTypes DEF FilterInv
  <2>2. SubSeq(stored', 1, filterMap[id].offset) = SubSeq(stored, 1, filterMap[id].offset)
    BY <1>1, <1>2, <2>1, FilterTypes, BeginningStays DEF FilterOK
  <2>3. Scanned(id)'
    BY <1>1, <1>2, <2>1, <2>2 DEF FilterOK, Scanned, Unlinking
  <2>4. filterMap[id].offset <= Len(stored')
    BY <1>3, <2>1 DEF FilterOK
  <2> QED
    BY <1>1, <1>2, <2>1, <2>3, <2>4 DEF FilterOK, Unlinking
<1> QED
  BY <1>2, <1>4, <1>5 DEF FilterInv, FilteredOK

LEMMA AnnounceFramesFilter ==
  ASSUME FilterInv, TypeOK', AnnounceFrames, UNCHANGED loopStutter
  PROVE  FilterInv'
<1>1. /\ evpc = "announce" /\ evpc' = "loop" /\ announced' = Len(stored)
      /\ todo' = Active(filterMap)
      /\ UNCHANGED <<stored, filterMap, filtered, cur, fannounced>>
      /\ Active(filterMap') = Active(filterMap)
  BY DEF AnnounceFrames, FiltersDue, loopVars, filterView
<1>2. ASSUME NEW id \in Active(filterMap)
      PROVE  FilterOK(id)'
  BY <1>1, <1>2 DEF FilterInv, FilterOK, Unlinking, Scanned
<1> QED
  BY <1>1, <1>2, FilterTypes DEF FilterInv, FilteredOK

\* set_filter with a filter: the old indices stay, announced as none.
LEMMA ProcessPushFilterFilter ==
  ASSUME FilterInv, TypeOK', ProcessPushFilter, UNCHANGED loopStutter
  PROVE  FilterInv'
<1> DEFINE fid == Head(chan).id
           filter == Head(chan).filter
<1>1. fid \in FilterIds /\ filter \in Filters \cup {NoFilter} /\ filter # NoFilter
  BY Taken, CommandFields DEF ProcessPushFilter, FilterInv, TypeOK
<1>2. /\ evpc = "loop" /\ todo = {} /\ evpc' = "unlink" /\ cur' = fid
      /\ filterMap' = [filterMap EXCEPT ![fid] = [filter |-> filter, offset |-> 0]]
      /\ fannounced' = [fannounced EXCEPT ![fid] = 0]
      /\ UNCHANGED <<stored, filtered, todo, announced>>
  BY DEF ProcessPushFilter, Received, NewContext, loopVars, eventVars
<1> HIDE DEF fid, filter
<1>3. Active(filterMap') = Active(filterMap) \cup {fid}
  BY <1>1, <1>2, FilterTypes DEF Active
<1>4. FilteredOK'
  BY <1>1, <1>2, FilterTypes DEF FilteredOK
<1>5. ASSUME NEW id \in Active(filterMap')
      PROVE  FilterOK(id)'
  <2>1. CASE id = fid
    <3>1. filterMap'[id].offset = 0 /\ fannounced'[id] = 0
      BY <1>1, <1>2, <2>1, FilterTypes
    <3>2. Len(stored) \in Nat /\ Len(filtered[id]) \in Nat
      BY <1>1, <2>1, FilterTypes
    <3> QED
      BY <1>2, <2>1, <3>1, <3>2 DEF FilterOK, Unlinking
  <2>2. CASE id # fid
    <3>1. id \in Active(filterMap) /\ FilterOK(id)
      BY <1>3, <1>5, <2>2 DEF FilterInv
    <3>2. filterMap'[id] = filterMap[id] /\ fannounced'[id] = fannounced[id]
      BY <1>2, <2>2, <3>1, FilterTypes
    <3> QED
      BY <1>2, <2>2, <3>1, <3>2 DEF FilterOK, Unlinking, Scanned
  <2> QED
    BY <2>1, <2>2
<1> QED
  BY <1>2, <1>3, <1>4, <1>5 DEF FilterInv

\* ... and are removed after the callback.
LEMMA UnlinkFilteredFilter ==
  ASSUME FilterInv, TypeOK', UnlinkFiltered, UNCHANGED loopStutter
  PROVE  FilterInv'
<1>1. /\ evpc = "unlink" /\ evpc' = "loop" /\ cur' = NoId /\ cur \in FilterIds
      /\ filtered' = [filtered EXCEPT ![cur] = <<>>] /\ todo' = Active(filterMap)
      /\ UNCHANGED <<stored, filterMap, fannounced, announced>>
      /\ Active(filterMap') = Active(filterMap)
  BY DEF UnlinkFiltered, FiltersDue, loopVars, eventVars, FilterInv, TypeOK, ControlOK
<1>2. FilteredOK'
  BY <1>1, FilterTypes, EmptySeq DEF FilteredOK
<1>3. ASSUME NEW id \in Active(filterMap)
      PROVE  FilterOK(id)'
  <2>1. FilterOK(id) /\ id \in FilterIds
    BY <1>3, FilterTypes DEF FilterInv
  <2>2. CASE id = cur
    <3>1. /\ filtered'[id] = <<>> /\ fannounced'[id] = 0 /\ filterMap'[id].offset = 0
          /\ Len(filtered'[id]) = 0
      BY <1>1, <2>1, <2>2, FilterTypes, EmptySeq DEF FilterOK, Unlinking
    <3>2. Indices(Selected(SubSeq(stored, 1, 0), filterMap[id].filter)) = <<>>
      BY FilterTypes, SelectedNothing, IndicesType, EmptySeq
    <3>3. Scanned(id)'
      BY <1>1, <3>1, <3>2 DEF Scanned
    <3> QED
      BY <1>1, <1>3, <2>1, <3>1, <3>3 DEF FilterOK, Unlinking
  <2>3. CASE id # cur
    <3>1. filtered'[id] = filtered[id]
      BY <1>1, <2>1, <2>3, FilterTypes
    <3> QED
      BY <1>1, <1>3, <2>1, <2>3, <3>1 DEF FilterOK, Unlinking, Scanned
  <2> QED
    BY <2>2, <2>3
<1>4. \A id \in FilterIds \ Active(filterMap') : filtered'[id] = <<>>
  BY <1>1, FilterTypes DEF FilterInv
<1> QED
  BY <1>1, <1>2, <1>3, <1>4 DEF FilterInv

LEMMA ProcessRemoveFilterFilter ==
  ASSUME FilterInv, TypeOK', ProcessRemoveFilter, UNCHANGED loopStutter
  PROVE  FilterInv'
<1> DEFINE fid == Head(chan).id
<1>1. fid \in FilterIds
  BY Taken, CommandFields DEF ProcessRemoveFilter, FilterInv, TypeOK
<1>2. /\ evpc = "loop" /\ todo = {} /\ evpc' = "loop" /\ todo' = Active(filterMap')
      /\ filterMap' = [filterMap EXCEPT ![fid] = Unset]
      /\ filtered' = [filtered EXCEPT ![fid] = <<>>]
      /\ UNCHANGED <<stored, cur, fannounced, announced>>
  BY DEF ProcessRemoveFilter, Received, FiltersDue, loopVars, eventVars
<1> HIDE DEF fid
<1>3. Active(filterMap') = Active(filterMap) \ {fid}
  BY <1>1, <1>2, FilterTypes DEF Active, Unset
<1>4. FilteredOK'
  BY <1>1, <1>2, FilterTypes, EmptySeq DEF FilteredOK
<1>5. ASSUME NEW id \in Active(filterMap')
      PROVE  FilterOK(id)'
  <2>1. id \in Active(filterMap) /\ id # fid /\ FilterOK(id) /\ id \in FilterIds
    BY <1>3, <1>5, FilterTypes DEF FilterInv
  <2>2. filterMap'[id] = filterMap[id] /\ filtered'[id] = filtered[id]
    BY <1>2, <2>1, FilterTypes
  <2> QED
    BY <1>2, <1>5, <2>1, <2>2 DEF FilterOK, Unlinking, Scanned
<1>6. \A id \in FilterIds \ Active(filterMap') : filtered'[id] = <<>>
  BY <1>1, <1>2, <1>3, FilterTypes DEF FilterInv
<1> QED
  BY <1>2, <1>4, <1>5, <1>6 DEF FilterInv

\* One turn of the scan: the indices found are those of the next frames.
LEMMA ScanFilterFilter ==
  ASSUME FilterInv, TypeOK', NEW fid \in FilterIds, ScanFilter(fid), UNCHANGED loopStutter
  PROVE  FilterInv'
<1> DEFINE offset == filterMap[fid].offset
           filter == filterMap[fid].filter
           end == Least(Len(stored), offset + FilterChunk)
           next == Selected(SubSeq(stored, offset + 1, end), filter)
           found == Indices(next)
<1>1. /\ evpc = "loop" /\ fid \in todo
      /\ filterMap' = [filterMap EXCEPT ![fid].offset = end]
      /\ todo' = IF end >= Len(stored) THEN todo \ {fid} ELSE todo
      /\ filtered' = [filtered EXCEPT ![fid] = @ \o found]
      /\ IF found = <<>> THEN UNCHANGED <<cur, evpc>>
                         ELSE cur' = fid /\ evpc' = "announceFiltered"
      /\ UNCHANGED <<stored, fannounced, announced>>
  BY DEF ScanFilter, loopVars, eventVars
<1>2. fid \in Active(filterMap) /\ FilterOK(fid) /\ todo \subseteq Active(filterMap)
  BY <1>1 DEF FilterInv
<1>3. offset \in Nat /\ Len(stored) \in Nat /\ offset <= Len(stored)
  BY <1>2, FilterTypes DEF FilterOK
<1>4. end \in Nat /\ offset <= end /\ end <= Len(stored)
  BY <1>3, ChunkAssumption DEF Least
<1> HIDE DEF offset, filter, end
<1>5. SubSeq(stored, offset + 1, end) \in Seq(Frame)
  <2>1. \A k \in offset + 1..end : stored[k] \in Frame
    <3>1. \A k \in offset + 1..end : k \in 1..Len(stored)
      BY <1>3, <1>4
    <3> QED
      BY <3>1, FilterTypes, ElementOfSeq
  <2>2. offset + 1 \in Int /\ end \in Int
    BY <1>3, <1>4
  <2> QED
    BY <2>1, <2>2, SubSeqProperties
<1>6. next \in Seq(Frame)
  BY <1>5, SelectedType
<1> HIDE DEF next
<1>7. found \in Seq(Nat) /\ Len(found) \in Nat
  BY <1>6, IndicesType, LenProperties
<1>8. /\ filterMap'[fid].offset = end /\ filterMap'[fid].filter = filter
      /\ filtered'[fid] = filtered[fid] \o found
      /\ Active(filterMap') = Active(filterMap)
      /\ \A id \in FilterIds \ {fid} :
           filterMap'[id] = filterMap[id] /\ filtered'[id] = filtered[id]
  BY <1>1, FilterTypes DEF filter, Active
<1>9. filtered[fid] = Indices(Selected(SubSeq(stored, 1, offset), filter))
  BY <1>1, <1>2 DEF FilterOK, Unlinking, Scanned, offset, filter
<1>10. filtered'[fid] = Indices(Selected(SubSeq(stored, 1, end), filter))
  <2> DEFINE a == Selected(SubSeq(stored, 1, offset), filter)
  <2>1. a \in Seq(Frame)
    <3>1. \A k \in 1..offset : stored[k] \in Frame
      <4>1. \A k \in 1..offset : k \in 1..Len(stored)
        BY <1>3
      <4> QED
        BY <4>1, FilterTypes, ElementOfSeq
    <3>2. SubSeq(stored, 1, offset) \in Seq(Frame)
      BY <1>3, <3>1, SubSeqProperties
    <3> QED
      BY <3>2, SelectedType
  <2>2. Selected(SubSeq(stored, 1, end), filter) = a \o next
    BY <1>3, <1>4, FilterTypes, SelectedNext DEF next
  <2>3. filtered[fid] = Indices(a)
    BY <1>9
  <2> HIDE DEF a
  <2>4. Indices(a \o next) = Indices(a) \o found
    BY <1>6, <2>1, IndicesConcat
  <2> QED
    BY <1>8, <2>2, <2>3, <2>4
<1> HIDE DEF found
<1>11. FilteredOK'
  <2>1. filtered[fid] \o found \in Seq(Nat)
    BY <1>7, FilterTypes, ConcatProperties
  <2> QED
    BY <1>1, <2>1, FilterTypes DEF FilteredOK
<1>12. /\ Len(filtered'[fid]) = Len(filtered[fid]) + Len(found)
       /\ Len(filtered[fid]) \in Nat /\ fannounced[fid] \in Nat
       /\ fannounced[fid] = Len(filtered[fid])
       /\ found = <<>> => Len(found) = 0
  <2>1. Len(filtered[fid] \o found) = Len(filtered[fid]) + Len(found)
    BY <1>7, FilterTypes, ConcatProperties
  <2>2. fannounced[fid] = Len(filtered[fid])
    BY <1>1, <1>2 DEF FilterOK
  <2> QED
    BY <1>8, <2>1, <2>2, FilterTypes, EmptySeq
<1>13. FilterOK(fid)'
  <2>1. filterMap'[fid].offset <= Len(stored')
    BY <1>1, <1>4, <1>8
  <2>2. fid \notin todo' => filterMap'[fid].offset = Len(stored')
    BY <1>1, <1>3, <1>4, <1>8
  <2>3. fannounced'[fid] <= Len(filtered'[fid])
    BY <1>1, <1>7, <1>12
  <2>4. fannounced'[fid] = Len(filtered'[fid]) \/ (evpc' = "announceFiltered" /\ cur' = fid)
    BY <1>1, <1>7, <1>12
  <2>5. Scanned(fid)' /\ evpc' # "unlink"
    BY <1>1, <1>8, <1>10 DEF Scanned
  <2> QED
    BY <2>1, <2>2, <2>3, <2>4, <2>5 DEF FilterOK, Unlinking
<1>14. ASSUME NEW id \in Active(filterMap), id # fid
       PROVE  FilterOK(id)'
  <2>1. FilterOK(id) /\ id \in FilterIds \ {fid}
    BY <1>14, FilterTypes DEF FilterInv
  <2>2. evpc' \in {"loop", "announceFiltered"} /\ (id \in todo' <=> id \in todo)
    BY <1>1, <1>14
  <2> QED
    BY <1>1, <1>8, <2>1, <2>2 DEF FilterOK, Unlinking, Scanned
<1>15. /\ todo' \subseteq Active(filterMap')
       /\ announced' <= Len(stored') /\ announced' = Len(stored')
       /\ \A id \in FilterIds \ Active(filterMap') : filtered'[id] = <<>>
  BY <1>1, <1>2, <1>8 DEF FilterInv
<1> QED
  BY <1>8, <1>11, <1>13, <1>14, <1>15 DEF FilterInv

LEMMA AnnounceFilteredFilter ==
  ASSUME FilterInv, TypeOK', AnnounceFiltered, UNCHANGED loopStutter
  PROVE  FilterInv'
<1>1. /\ evpc = "announceFiltered" /\ evpc' = "loop" /\ cur' = NoId /\ cur \in FilterIds
      /\ fannounced' = [fannounced EXCEPT ![cur] = Len(filtered[cur])]
      /\ UNCHANGED <<stored, filterMap, filtered, todo, announced>>
      /\ Active(filterMap') = Active(filterMap)
  BY DEF AnnounceFiltered, loopVars, eventVars, FilterInv, TypeOK, ControlOK
<1>2. FilteredOK'
  BY <1>1, FilterTypes DEF FilteredOK
<1>3. ASSUME NEW id \in Active(filterMap)
      PROVE  FilterOK(id)'
  <2>1. FilterOK(id) /\ id \in FilterIds /\ Len(filtered[id]) \in Nat
    BY <1>3, FilterTypes DEF FilterInv
  <2>2. fannounced'[id] = IF id = cur THEN Len(filtered[id]) ELSE fannounced[id]
    BY <1>1, <2>1, FilterTypes
  <2> QED
    BY <1>1, <2>1, <2>2 DEF FilterOK, Unlinking, Scanned
<1> QED
  BY <1>1, <1>2, <1>3 DEF FilterInv

LEMMA EventLoopFilter ==
  ASSUME FilterInv, EventLoop
  PROVE  FilterInv'
<1>1. TypeOK' /\ UNCHANGED loopStutter
  BY EventLoopType DEF FilterInv, EventLoop
<1>2. CASE ProcessInput \/ ProcessInputError \/ ProcessSerial
  BY <1>1, <1>2, FilterRest DEF ProcessInput, ProcessInputError, ProcessSerial, Received,
     FiltersDue, loopVars, eventVars
<1>3. CASE ProcessOutput \/ ProcessClose
  BY <1>1, <1>3, FilterRest DEF ProcessOutput, ProcessClose, Received, filterVars, loopVars,
     eventVars
<1>4. CASE OutputWriteError \/ OutputFinish
  BY <1>1, <1>4, FilterRest DEF OutputWriteError, OutputFinish, Finished, FiltersDue, loopVars
<1>5. CASE OutputWrite
  BY <1>1, <1>5, FilterSame DEF OutputWrite, loopVars, filterVars, eventVars
<1>6. ASSUME UNCHANGED <<stored, filterVars, announced>>, evpc \in Dropped, evpc' \in Dropped
      PROVE  FilterInv'
  BY <1>1, <1>6, FilterRest DEF Dropped, filterVars, FilterInv
<1>7. CASE DropSerial \/ JoinSerial \/ DropParallel \/ JoinParallel \/ LoopExit
  BY <1>6, <1>7 DEF DropSerial, JoinSerial, DropParallel, JoinParallel, LoopExit, JoinPanics,
     loopVars, eventVars, Dropped
<1> QED
  BY <1>1, <1>2, <1>3, <1>4, <1>5, <1>7, ProcessStoreFilter, AnnounceFramesFilter,
     ProcessPushFilterFilter, UnlinkFilteredFilter, ProcessRemoveFilterFilter,
     ScanFilterFilter, AnnounceFilteredFilter
  DEF EventLoop

LEMMA NextFilter == FilterInv /\ [Next]_vars => FilterInv'
<1> SUFFICES ASSUME FilterInv, [Next]_vars PROVE FilterInv'
  OBVIOUS
<1>1. TypeOK'
  BY NextType DEF FilterInv
<1>2. CASE EventLoop
  BY <1>2, EventLoopFilter
<1>3. CASE PluginPanic
  <2>1. /\ UNCHANGED <<stored, filterView, announced>> /\ todo' = {}
        /\ evpc \in {"loop", "output"} /\ evpc' = "dropSerial"
    BY <1>3 DEF PluginPanic, loopVars, eventVars
  <2> QED
    BY <1>1, <2>1, FilterRest
<1>4. CASE ~EventLoop /\ ~PluginPanic
  <2>1. UNCHANGED <<stored, filterView, todo, announced, evpc>>
    BY <1>4 DEF Next, Worker, Serial, Reader, Caller, Drop, Panic, Terminated, poolStutter,
       readerStutter, callerStutter, vars, loopVars, filterVars, eventVars
  <2> QED
    BY <1>1, <2>1, FilterSame
<1> QED
  BY <1>2, <1>3, <1>4

\* The conjuncts of FilterInv hold throughout.
LEMMA FilterKept == Spec => []FilterInv
<1> QED
  BY InitFilter, NextFilter, PTL DEF Spec

(* A length the user interface was told is backed by as many frames or      *)
(* indices, while filters are set, replaced and removed.                    *)
THEOREM AnnouncedIsBacked == Spec => []AnnouncedBacked
<1>1. FilterInv => AnnouncedBacked
  BY DEF FilterInv, FilterOK, AnnouncedBacked
<1> QED
  BY FilterKept, <1>1, PTL

(* The indices under a filter are those of exactly the matching frames, in  *)
(* order and once each, however the scan is cut into chunks.                *)
THEOREM FilteredIsExact == Spec => []FilteredExact
<1>1. FilterInv => FilteredExact
  BY DEF FilterInv, FilterOK, Unlinking, Scanned, FilteredExact
<1> QED
  BY FilterKept, <1>1, PTL

-----------------------------------------------------------------------------
(* OutputInv is inductive: what a writer has been given.                   *)

\* The outputs in the channel: each writer has one at most, which comes before
\* anything is written for it.
Outputs(c) == {p \in DOMAIN c : c[p].op = "PushOutput"}
OutputsOnce(c) ==
  /\ \A p \in Outputs(c) : c[p].id <= ioCnt /\ file[c[p].id] = <<>>
  /\ \A p, q \in Outputs(c) : p # q => c[p].id # c[q].id
  /\ evpc = "output" => \A p \in Outputs(c) : c[p].id # out.id

\* The inductive strengthening of OutputComplete.
OutputInv ==
  /\ TypeOK
  /\ file \in [Ids -> Seq(Frame)]
  /\ \A i \in Ids : i > ioCnt => file[i] = <<>>
  /\ OutputsOnce(chan)
  /\ evpc = "output" =>
       /\ out.id <= ioCnt
       /\ out.offset <= Len(stored)
       /\ file[out.id] = Selected(SubSeq(stored, 1, out.offset), out.filter)

LEMMA InitOutput == Init => OutputInv
<1> SUFFICES ASSUME Init PROVE OutputInv
  OBVIOUS
<1>1. TypeOK
  BY InitType
<1>2. file \in [Ids -> Seq(Frame)] /\ Outputs(chan) = {}
  BY EmptySeq DEF Init, Outputs
<1> QED
  BY <1>1, <1>2 DEF Init, OutputInv, OutputsOnce

\* A channel that loses its first command or gets another one at its end.
LEMMA OutputsMove ==
  ASSUME NEW c \in Seq(Command), NEW d \in Seq(Command),
         \/ d = c
         \/ c # <<>> /\ d = Tail(c)
         \/ \E x \in Command : x.op # "PushOutput" /\ d = Append(c, x)
  PROVE  \E shift \in {0, 1} :
           /\ \A p \in Outputs(d) : p \in Nat /\ p + shift \in Outputs(c) /\ d[p] = c[p + shift]
           /\ d = Tail(c) /\ c # <<>> => shift = 1
<1>1. Len(c) \in Nat /\ Len(d) \in Nat
  BY LenProperties
<1>2. CASE c # <<>> /\ d = Tail(c)
  <2>1. \A p \in DOMAIN d : p \in Nat /\ p + 1 \in DOMAIN c /\ d[p] = c[p + 1]
    BY <1>2
  <2> QED
    BY <2>1 DEF Outputs
<1>3. CASE d = c /\ ~(c # <<>> /\ d = Tail(c))
  <2>1. \A p \in Outputs(d) : p \in Nat /\ p + 0 \in Outputs(c) /\ d[p] = c[p + 0]
    BY <1>3 DEF Outputs
  <2> QED
    BY <1>3, <2>1
<1>4. ASSUME NEW x \in Command, x.op # "PushOutput", d = Append(c, x)
      PROVE  /\ \A p \in Outputs(d) : p \in Nat /\ p + 0 \in Outputs(c) /\ d[p] = c[p + 0]
             /\ ~(d = Tail(c) /\ c # <<>>)
  <2>1. Len(d) = Len(c) + 1
    BY <1>4, AppendProperties
  <2>2. c # <<>> => Len(Tail(c)) = Len(c) - 1
    BY HeadTailProperties
  <2>3. \A p \in Outputs(d) : p \in Nat /\ p + 0 \in Outputs(c) /\ d[p] = c[p + 0]
    BY <1>4 DEF Outputs
  <2> QED
    BY <1>1, <2>1, <2>2, <2>3
<1> QED
  BY <1>2, <1>3, <1>4

\* The outputs in the channel become fewer at most, and nothing is written.
LEMMA OutputsRest ==
  ASSUME OutputInv, TypeOK', UNCHANGED file, ioCnt' >= ioCnt,
         \/ UNCHANGED chan
         \/ chan # <<>> /\ chan' = Tail(chan)
         \/ \E x \in Command : x.op # "PushOutput" /\ chan' = Append(chan, x),
         evpc' = "output" => evpc = "output" /\ UNCHANGED out
  PROVE  OutputsOnce(chan)'
<1>1. /\ chan \in Seq(Command) /\ chan' \in Seq(Command)
      /\ ioCnt \in Int /\ ioCnt' \in Int /\ OutputsOnce(chan)
  BY DEF OutputInv, TypeOK, ChannelsOK, ControlOK
<1>2. PICK shift \in {0, 1} :
        \A p \in Outputs(chan') :
          p \in Nat /\ p + shift \in Outputs(chan) /\ chan'[p] = chan[p + shift]
  BY <1>1, OutputsMove
<1>3. ASSUME NEW p \in Outputs(chan')
      PROVE  chan'[p].id <= ioCnt' /\ file'[chan'[p].id] = <<>>
  <2>1. chan'[p].id <= ioCnt /\ file[chan'[p].id] = <<>>
    BY <1>1, <1>2 DEF OutputsOnce
  <2>2. chan'[p].id \in Int
    <3>1. p \in DOMAIN chan' /\ chan'[p] \in Command /\ chan'[p].op = "PushOutput"
      BY <1>1, <1>3, LenProperties, ElementOfSeq DEF Outputs
    <3> QED
      BY <3>1, CommandFields DEF Ids
  <2> QED
    BY <1>1, <2>1, <2>2
<1>4. ASSUME NEW p \in Outputs(chan'), NEW q \in Outputs(chan'), p # q
      PROVE  chan'[p].id # chan'[q].id
  <2>1. p + shift # q + shift
    BY <1>2, <1>4
  <2> QED
    BY <1>1, <1>2, <2>1 DEF OutputsOnce
<1>5. evpc' = "output" => \A p \in Outputs(chan') : chan'[p].id # out'.id
  BY <1>1, <1>2 DEF OutputsOnce
<1> QED
  BY <1>3, <1>4, <1>5 DEF OutputsOnce

\* A step that writes nothing.
LEMMA OutputRest ==
  ASSUME OutputInv, TypeOK', UNCHANGED file, ioCnt' >= ioCnt,
         \/ UNCHANGED chan
         \/ chan # <<>> /\ chan' = Tail(chan)
         \/ \E x \in Command : x.op # "PushOutput" /\ chan' = Append(chan, x),
         evpc' = "output" => evpc = "output" /\ UNCHANGED <<out, stored>>
  PROVE  OutputInv'
<1>1. OutputsOnce(chan)'
  BY OutputsRest
<1>2. ioCnt \in Int /\ ioCnt' \in Int /\ (evpc = "output" => out.id \in Int)
  BY DEF OutputInv, TypeOK, ControlOK, Ids
<1>3. \A i \in Ids : i > ioCnt' => file'[i] = <<>>
  <2>1. \A i \in Ids : i > ioCnt' => i > ioCnt
    BY <1>2 DEF Ids
  <2> QED
    BY <2>1 DEF OutputInv
<1>4. evpc' = "output" =>
        /\ out'.id <= ioCnt' /\ out'.offset <= Len(stored')
        /\ file'[out'.id] = Selected(SubSeq(stored', 1, out'.offset), out'.filter)
  BY <1>2 DEF OutputInv
<1> QED
  BY <1>1, <1>3, <1>4 DEF OutputInv

\* An output begins: nothing has been written for it.
LEMMA ProcessOutputOutput ==
  ASSUME OutputInv, TypeOK', ProcessOutput, UNCHANGED loopStutter
  PROVE  OutputInv'
<1>1. /\ chan \in Seq(Command) /\ chan # <<>> /\ Head(chan).op = "PushOutput"
      /\ chan' = Tail(chan) /\ chan' \in Seq(Command)
      /\ UNCHANGED <<file, stored, ioCnt>> /\ evpc' = "output" /\ OutputsOnce(chan)
      /\ out' = [id |-> Head(chan).id, filter |-> Head(chan).filter, offset |-> 0]
  BY DEF ProcessOutput, Received, OutputInv, TypeOK, ChannelsOK, loopVars, loopStutter,
     callerVars
<1>2. 1 \in Outputs(chan) /\ chan[1] = Head(chan)
  BY <1>1 DEF Outputs
<1>3. \A p \in Outputs(chan') : p + 1 \in Outputs(chan) /\ p + 1 # 1 /\ chan'[p] = chan[p + 1]
                               /\ p \in Nat
  BY <1>1 DEF Outputs
<1>4. OutputsOnce(chan)'
  <2>1. \A p \in Outputs(chan') : chan'[p].id <= ioCnt' /\ file'[chan'[p].id] = <<>>
    BY <1>1, <1>3 DEF OutputsOnce
  <2>2. ASSUME NEW p \in Outputs(chan'), NEW q \in Outputs(chan'), p # q
        PROVE  chan'[p].id # chan'[q].id
    <3>1. p + 1 # q + 1
      BY <1>3, <2>2
    <3> QED
      BY <1>1, <1>3, <3>1 DEF OutputsOnce
  <2>3. \A p \in Outputs(chan') : chan'[p].id # out'.id
    BY <1>1, <1>2, <1>3 DEF OutputsOnce
  <2> QED
    BY <2>1, <2>2, <2>3 DEF OutputsOnce
<1>5. out'.id <= ioCnt' /\ out'.offset = 0 /\ file'[out'.id] = <<>>
  BY <1>1, <1>2 DEF OutputsOnce
<1>6. stored' \in Seq(Frame) /\ out'.offset <= Len(stored')
  BY <1>5, LenProperties DEF TypeOK, FramesOK
<1>7. file'[out'.id] = Selected(SubSeq(stored', 1, out'.offset), out'.filter)
  BY <1>5, <1>6, SelectedNothing
<1> QED
  BY <1>1, <1>4, <1>5, <1>6, <1>7 DEF OutputInv

\* The chunk an output goes on with, and where it ends.
LEMMA OutputChunkFound ==
  ASSUME OutputInv, evpc = "output"
  PROVE  /\ out.id \in Ids /\ out.offset \in Nat /\ OutputEnd \in Nat
         /\ out.offset <= OutputEnd /\ OutputEnd <= Len(stored)
         /\ OutputFrames \in Seq(Frame)
         /\ file[out.id] \in Seq(Frame)
         /\ file[out.id] \o OutputFrames = Selected(SubSeq(stored, 1, OutputEnd), out.filter)
<1>1. /\ out.id \in Ids /\ out.offset \in Nat /\ stored \in Seq(Frame) /\ Len(stored) \in Nat
      /\ file[out.id] \in Seq(Frame) /\ out.offset <= Len(stored)
  BY LenProperties DEF OutputInv, TypeOK, FramesOK, ViewsOK, ControlOK
<1>2. OutputEnd \in Nat /\ out.offset <= OutputEnd /\ OutputEnd <= Len(stored)
  BY <1>1, ChunkAssumption DEF OutputEnd, Least
<1>3. SubSeq(stored, out.offset + 1, OutputEnd) \in Seq(Frame)
  <2>1. \A k \in out.offset + 1..OutputEnd : k \in 1..Len(stored)
    BY <1>1, <1>2
  <2>2. \A k \in out.offset + 1..OutputEnd : stored[k] \in Frame
    BY <1>1, <2>1, ElementOfSeq
  <2>3. out.offset + 1 \in Int /\ OutputEnd \in Int
    BY <1>1, <1>2
  <2> QED
    BY <2>2, <2>3, SubSeqProperties
<1>4. OutputFrames \in Seq(Frame)
  BY <1>3, SelectedType DEF OutputFrames
<1>5. file[out.id] = Selected(SubSeq(stored, 1, out.offset), out.filter)
  BY DEF OutputInv
<1>6. Selected(SubSeq(stored, 1, OutputEnd), out.filter)
        = Selected(SubSeq(stored, 1, out.offset), out.filter) \o OutputFrames
  BY <1>1, <1>2, SelectedNext DEF OutputFrames
<1> QED
  BY <1>1, <1>2, <1>4, <1>5, <1>6

\* More is written for the writer whose turn it is: no output waits for it.
LEMMA OutputsWritten ==
  ASSUME OutputInv, TypeOK', evpc = "output", UNCHANGED <<chan, ioCnt>>, NEW more,
         file' = [file EXCEPT ![out.id] = more], evpc' = "output" => out'.id = out.id
  PROVE  /\ OutputsOnce(chan)'
         /\ \A i \in Ids : i > ioCnt' => file'[i] = <<>>
<1>1. /\ chan \in Seq(Command) /\ out.id \in Ids /\ out.id <= ioCnt
      /\ file \in [Ids -> Seq(Frame)] /\ OutputsOnce(chan) /\ ioCnt \in Int
  BY DEF OutputInv, TypeOK, ChannelsOK, ControlOK
<1>2. \A i \in Ids : i # out.id => file'[i] = file[i]
  BY <1>1
<1>3. \A p \in Outputs(chan) : chan[p].id \in Ids /\ chan[p].id # out.id
  <2>1. \A p \in Outputs(chan) : chan[p] \in Command /\ chan[p].op = "PushOutput"
    BY <1>1 DEF Outputs
  <2> QED
    BY <1>1, <2>1, CommandFields DEF OutputsOnce
<1>4. OutputsOnce(chan)'
  BY <1>1, <1>2, <1>3 DEF OutputsOnce
<1>5. \A i \in Ids : i > ioCnt => i # out.id
  BY <1>1 DEF Ids
<1> QED
  BY <1>2, <1>4, <1>5 DEF OutputInv

LEMMA OutputWriteOutput ==
  ASSUME OutputInv, TypeOK', OutputWrite, UNCHANGED loopStutter
  PROVE  OutputInv'
<1>1. /\ evpc = "output" /\ evpc' = "output" /\ out.offset < Len(stored)
      /\ file' = [file EXCEPT ![out.id] = file[out.id] \o OutputFrames]
      /\ out' = [out EXCEPT !.offset = OutputEnd]
      /\ UNCHANGED <<chan, stored, ioCnt>>
      /\ out \in [id : Ids \cup {0}, filter : Filters \cup {NoFilter}, offset : Nat]
  BY DEF OutputWrite, loopVars, loopStutter, callerVars, OutputInv, TypeOK, ViewsOK
<1>2. /\ out.id \in Ids /\ OutputEnd <= Len(stored)
      /\ file[out.id] \o OutputFrames \in Seq(Frame)
      /\ file[out.id] \o OutputFrames = Selected(SubSeq(stored, 1, OutputEnd), out.filter)
  BY <1>1, OutputChunkFound, ConcatProperties
<1>3. out'.id = out.id /\ out'.filter = out.filter /\ out'.offset = OutputEnd
  BY <1>1
<1>4. OutputsOnce(chan)' /\ \A i \in Ids : i > ioCnt' => file'[i] = <<>>
  BY <1>1, <1>3, OutputsWritten
<1>5. file' \in [Ids -> Seq(Frame)] /\ file'[out.id] = file[out.id] \o OutputFrames
  BY <1>1, <1>2 DEF OutputInv
<1> QED
  BY <1>1, <1>2, <1>3, <1>4, <1>5 DEF OutputInv

\* An output ends within a chunk: an error, or a panic.
LEMMA OutputCut ==
  ASSUME OutputInv, TypeOK', evpc = "output", evpc' # "output", UNCHANGED <<chan, ioCnt>>,
         NEW n \in 0..Len(OutputFrames),
         file' = [file EXCEPT ![out.id] = file[out.id] \o SubSeq(OutputFrames, 1, n)]
  PROVE  OutputInv'
<1>1. out.id \in Ids /\ OutputFrames \in Seq(Frame) /\ file[out.id] \in Seq(Frame)
  BY OutputChunkFound
<1>2. SubSeq(OutputFrames, 1, n) \in Seq(Frame)
  <2>1. \A k \in 1..n : OutputFrames[k] \in Frame
    BY <1>1, LenProperties, ElementOfSeq
  <2> QED
    BY <2>1, SubSeqProperties
<1>3. file[out.id] \o SubSeq(OutputFrames, 1, n) \in Seq(Frame)
  BY <1>1, <1>2, ConcatProperties
<1>4. file' \in [Ids -> Seq(Frame)]
  BY <1>1, <1>3 DEF OutputInv
<1>5. OutputsOnce(chan)' /\ \A i \in Ids : i > ioCnt' => file'[i] = <<>>
  BY OutputsWritten
<1> QED
  BY <1>4, <1>5 DEF OutputInv

LEMMA OutputWriteErrorOutput ==
  ASSUME OutputInv, TypeOK', OutputWriteError, UNCHANGED loopStutter
  PROVE  OutputInv'
<1>1. /\ evpc = "output" /\ evpc' = "loop" /\ UNCHANGED <<chan, ioCnt>>
  BY DEF OutputWriteError, Finished, FiltersDue, loopStutter, callerVars
<1>2. PICK n \in 0..Len(OutputFrames) - 1 :
        file' = [file EXCEPT ![out.id] = file[out.id] \o SubSeq(OutputFrames, 1, n)]
  BY DEF OutputWriteError
<1>3. n \in 0..Len(OutputFrames)
  BY <1>1, OutputChunkFound, LenProperties
<1> QED
  BY <1>1, <1>2, <1>3, OutputCut

LEMMA PluginPanicOutput ==
  ASSUME OutputInv, TypeOK', PluginPanic
  PROVE  OutputInv'
<1>1. evpc' # "output" /\ UNCHANGED <<chan, ioCnt>> /\ ioCnt \in Int
  BY DEF PluginPanic, callerVars, OutputInv, TypeOK, ControlOK
<1>2. CASE UNCHANGED file
  BY <1>1, <1>2, OutputRest
<1>3. CASE evpc = "output" /\ ~UNCHANGED file
  <2>1. PICK n \in 0..Len(OutputFrames) :
          file' = [file EXCEPT ![out.id] = file[out.id] \o SubSeq(OutputFrames, 1, n)]
    BY <1>3 DEF PluginPanic
  <2> QED
    BY <1>1, <1>3, <2>1, OutputCut
<1> QED
  BY <1>2, <1>3 DEF PluginPanic

LEMMA EventLoopOutput ==
  ASSUME OutputInv, EventLoop
  PROVE  OutputInv'
<1>1. TypeOK' /\ UNCHANGED loopStutter /\ UNCHANGED ioCnt /\ ioCnt \in Int
  BY EventLoopType DEF OutputInv, EventLoop, loopStutter, callerVars, TypeOK, ControlOK
<1>2. CASE \/ ProcessInput \/ ProcessInputError \/ ProcessSerial \/ ProcessStore
           \/ ProcessPushFilter \/ ProcessRemoveFilter \/ ProcessClose
  <2>1. UNCHANGED file /\ chan # <<>> /\ chan' = Tail(chan) /\ evpc' # "output"
    BY <1>2 DEF ProcessInput, ProcessInputError, ProcessSerial, ProcessStore,
       ProcessPushFilter, ProcessRemoveFilter, ProcessClose, Received, FiltersDue, outputVars
  <2> QED
    BY <1>1, <2>1, OutputRest
<1>3. CASE \/ AnnounceFrames \/ UnlinkFiltered \/ AnnounceFiltered \/ OutputFinish
           \/ DropSerial \/ JoinSerial \/ DropParallel \/ JoinParallel
           \/ \E id \in FilterIds : ScanFilter(id)
  <2>1. UNCHANGED file /\ UNCHANGED chan /\ evpc' # "output"
    BY <1>3 DEF AnnounceFrames, UnlinkFiltered, AnnounceFiltered, OutputFinish, Finished,
       DropSerial, JoinSerial, DropParallel, JoinParallel, JoinPanics, ScanFilter,
       FiltersDue, outputVars
  <2> QED
    BY <1>1, <2>1, OutputRest
<1>4. CASE LoopExit
  <2>1. UNCHANGED file /\ chan' = <<>> /\ evpc' # "output"
    BY <1>4 DEF LoopExit, outputVars
  <2>2. Outputs(chan') = {}
    BY <2>1 DEF Outputs
  <2> QED
    BY <1>1, <2>1, <2>2 DEF OutputInv, OutputsOnce
<1> QED
  BY <1>1, <1>2, <1>3, <1>4, ProcessOutputOutput, OutputWriteOutput, OutputWriteErrorOutput
  DEF EventLoop

\* A writer is created under a new id.
LEMMA CreateWriterOutput ==
  ASSUME OutputInv, TypeOK', CreateWriter, UNCHANGED callerStutter
  PROVE  OutputInv'
<1>1. PICK filter \in Filters \cup {NoFilter} : chan' = Append(chan, PushOutput(ioCnt', filter))
  BY DEF CreateWriter
<1>2. /\ ioCnt' = ioCnt + 1 /\ ioCnt \in Nat /\ ioCnt' \in Ids
      /\ UNCHANGED <<file, stored, out, evpc>> /\ chan \in Seq(Command) /\ OutputsOnce(chan)
      /\ evpc = "output" => out.id <= ioCnt /\ out.id \in Int
  <2>1. UNCHANGED <<file, stored, out, evpc>>
    BY DEF callerStutter, outputVars, loopVars
  <2>2. ioCnt' = ioCnt + 1 /\ ioCnt < MaxIo
    BY DEF CreateWriter
  <2>3. /\ ioCnt \in 0..MaxIo /\ chan \in Seq(Command) /\ OutputsOnce(chan)
        /\ evpc = "output" => out.id <= ioCnt /\ out.id \in Ids
    BY DEF OutputInv, TypeOK, ControlOK, ChannelsOK
  <2>4. ioCnt \in Nat /\ ioCnt' \in Ids
    BY <2>2, <2>3, MaxIoAssumption DEF Ids
  <2> QED
    BY <2>1, <2>2, <2>3, <2>4 DEF Ids
<1> DEFINE new == Len(chan) + 1
           command == PushOutput(ioCnt', filter)
<1>3. command \in Command /\ command.op = "PushOutput" /\ command.id = ioCnt'
  BY <1>2, CommandForms DEF PushOutput
<1> HIDE DEF command
<1>4. /\ Outputs(chan') = Outputs(chan) \cup {new} /\ chan'[new] = command
      /\ \A p \in Outputs(chan) : p # new /\ chan'[p] = chan[p]
  BY <1>1, <1>2, <1>3 DEF Outputs, command
<1>5. \A p \in Outputs(chan) : chan[p].id <= ioCnt /\ chan[p].id \in Int
  <2>1. \A p \in Outputs(chan) : chan[p] \in Command /\ chan[p].op = "PushOutput"
    BY <1>2 DEF Outputs
  <2> QED
    BY <1>2, <2>1, CommandFields DEF OutputsOnce, Ids
<1>6. file[ioCnt'] = <<>>
  BY <1>2 DEF OutputInv
<1> HIDE DEF new
<1>7. OutputsOnce(chan)'
  <2>1. \A p \in Outputs(chan') : chan'[p].id <= ioCnt' /\ file'[chan'[p].id] = <<>>
    BY <1>2, <1>3, <1>4, <1>5, <1>6 DEF OutputsOnce, Ids
  <2>2. ASSUME NEW p \in Outputs(chan'), NEW q \in Outputs(chan'), p # q
        PROVE  chan'[p].id # chan'[q].id
    BY <1>2, <1>3, <1>4, <1>5, <2>2 DEF OutputsOnce
  <2>3. evpc' = "output" => \A p \in Outputs(chan') : chan'[p].id # out'.id
    BY <1>2, <1>3, <1>4 DEF OutputsOnce
  <2> QED
    BY <2>1, <2>2, <2>3 DEF OutputsOnce
<1>8. \A i \in Ids : i > ioCnt' => file'[i] = <<>>
  <2>1. \A i \in Ids : i > ioCnt' => i > ioCnt
    BY <1>2 DEF Ids
  <2> QED
    BY <1>2, <2>1 DEF OutputInv
<1> QED
  BY <1>2, <1>7, <1>8 DEF OutputInv

LEMMA CallerOutput ==
  ASSUME OutputInv, Caller
  PROVE  OutputInv'
<1>1. /\ TypeOK' /\ UNCHANGED callerStutter /\ UNCHANGED <<file, stored, out, evpc>>
      /\ ioCnt \in Int
  BY CallerType DEF OutputInv, Caller, callerStutter, loopVars, outputVars, TypeOK, ControlOK
<1>2. CASE CreateReader \/ CreateFails \/ \E i \in Ids : CloseReader(i)
  <2>1. UNCHANGED chan /\ ioCnt' >= ioCnt
    BY <1>1, <1>2 DEF CreateReader, CreateFails, CloseReader
  <2> QED
    BY <1>1, <2>1, OutputRest
<1>3. CASE CallSetFilter
  <2>1. PICK id \in FilterIds, filter \in Filters \cup {NoFilter} :
          chan' = Append(chan, SetFilter(id, filter))
    BY <1>3 DEF CallSetFilter
  <2>2. SetFilter(id, filter) \in Command /\ SetFilter(id, filter).op # "PushOutput"
    <3>1. SetFilter(id, filter) \in Command
      BY CommandForms
    <3> QED
      BY <3>1 DEF SetFilter
  <2>3. ioCnt' >= ioCnt
    BY <1>1, <1>3 DEF CallSetFilter
  <2> QED
    BY <1>1, <2>1, <2>2, <2>3, OutputRest
<1>4. CASE DropLoop
  <2>1. Close \in Command /\ Close.op # "PushOutput"
    BY CommandForms DEF Close
  <2>2. ioCnt' >= ioCnt /\ chan' = Append(chan, Close)
    BY <1>1, <1>4 DEF DropLoop
  <2> QED
    BY <1>1, <2>1, <2>2, OutputRest
<1> QED
  BY <1>1, <1>2, <1>3, <1>4, CreateWriterOutput DEF Caller

\* The other threads send other commands.
LEMMA ThreadOutput ==
  ASSUME OutputInv, TypeOK',
         \/ \E w \in Workers : Worker(w)
         \/ Serial
         \/ \E i \in Ids : Reader(i)
  PROVE  OutputInv'
<1>1. UNCHANGED <<file, stored, out, evpc, ioCnt>> /\ TypeOK /\ ioCnt \in Int
  BY DEF Worker, Serial, Reader, poolStutter, readerStutter, loopVars, outputVars, callerVars,
     OutputInv, TypeOK, ControlOK
<1>2. ASSUME NEW x \in Command, x.op # "PushOutput", chan' = Append(chan, x)
      PROVE  OutputInv'
  BY <1>1, <1>2, OutputRest
<1>3. ASSUME UNCHANGED chan
      PROVE  OutputInv'
  BY <1>1, <1>3, OutputRest
<1>4. ASSUME NEW w \in Workers, WorkerDone(w)
      PROVE  OutputInv'
  <2>1. wk[w].frames \in Batch
    BY <1>1, <1>4 DEF TypeOK, PoolsOK, WorkerDone, Batch
  <2>2. PushSerialFrames(wk[w].frames) \in Command
    BY <2>1, CommandForms
  <2>3. PushSerialFrames(wk[w].frames).op # "PushOutput"
    BY DEF PushSerialFrames
  <2> QED
    BY <1>2, <1>4, <2>2, <2>3 DEF WorkerDone
<1>5. CASE SerialDrain
  <2>1. smap[snext] \in Batch
    BY <1>1, <1>5 DEF TypeOK, PoolsOK, SerialDrain
  <2>2. StoreFrames(smap[snext]) \in Command
    BY <2>1, CommandForms
  <2>3. StoreFrames(smap[snext]).op # "PushOutput"
    BY DEF StoreFrames
  <2> QED
    BY <1>2, <1>5, <2>2, <2>3 DEF SerialDrain
<1>6. ASSUME NEW i \in Ids, ReaderRead(i)
      PROVE  OutputInv'
  <2>1. PICK n \in 0..MaxBatch :
          chan' = IF n = 0 THEN chan
                  ELSE Append(chan, PushFrames(i,
                         [k \in 1..n |-> [src |-> i, seq |-> nread[i] + k]]))
    BY <1>6 DEF ReaderRead
  <2> DEFINE layers == [k \in 1..n |-> [src |-> i, seq |-> nread[i] + k]]
  <2>2. layers \in Seq(Layer)
    BY <1>1, ReadAssumption, ReadLayers DEF TypeOK, ReadersOK
  <2> HIDE DEF layers
  <2>3. PushFrames(i, layers) \in Command
    BY <2>2, CommandForms
  <2>4. PushFrames(i, layers).op # "PushOutput"
    BY DEF PushFrames
  <2>5. chan' = chan \/ chan' = Append(chan, PushFrames(i, layers))
    BY <2>1 DEF layers
  <2> QED
    BY <1>2, <1>3, <2>3, <2>4, <2>5
<1>7. ASSUME NEW i \in Ids, ReaderFail(i)
      PROVE  OutputInv'
  <2>1. PushError(i) \in Command
    BY CommandForms
  <2>2. PushError(i).op # "PushOutput"
    BY DEF PushError
  <2> QED
    BY <1>2, <1>7, <2>1, <2>2 DEF ReaderFail
<1> QED
  BY <1>3, <1>4, <1>5, <1>6, <1>7 DEF Worker, WorkerRecv, Serial, SerialRecv, SerialWait,
     Reader, ReaderCheck

LEMMA NextOutput == OutputInv /\ [Next]_vars => OutputInv'
<1> SUFFICES ASSUME OutputInv, [Next]_vars PROVE OutputInv'
  OBVIOUS
<1>1. TypeOK' /\ ioCnt \in Int
  BY NextType DEF OutputInv, TypeOK, ControlOK
<1>2. CASE Drop \/ UNCHANGED vars
  <2>1. UNCHANGED <<file, stored, out, evpc, ioCnt, chan>>
    BY <1>2 DEF Drop, JoinLoop, DropInput, JoinInput, Closed, callerStutter, loopVars,
       outputVars, vars, callerVars
  <2> QED
    BY <1>1, <2>1, OutputRest
<1>3. CASE Panic /\ ~PluginPanic
  <2>1. UNCHANGED <<file, ioCnt, chan, evpc, out, stored>>
    BY <1>3 DEF Panic, WorkerPanic, SerialPanic, ReaderPanic, poolStutter, readerStutter,
       loopVars, outputVars, callerVars
  <2> QED
    BY <1>1, <2>1, OutputRest
<1> QED
  BY <1>1, <1>2, <1>3, PluginPanicOutput, ThreadOutput, EventLoopOutput, CallerOutput
  DEF Next, Terminated

-----------------------------------------------------------------------------
(* What a writer has been given when it is told the result.                *)

\* The beginning of a sequence that ends within its second part.
LEMMA BeginningOfTwo ==
  ASSUME NEW s \in Seq(Frame), NEW t \in Seq(Frame), NEW n \in Nat, n <= Len(t)
  PROVE  s \o SubSeq(t, 1, n) = SubSeq(s \o t, 1, Len(s \o SubSeq(t, 1, n)))
<1>1. Len(s) \in Nat /\ Len(t) \in Nat /\ \A k \in 1..n : t[k] \in Frame
  BY LenProperties, ElementOfSeq
<1> DEFINE b == SubSeq(t, 1, n)
           u == s \o t
           v == s \o b
           w == SubSeq(u, 1, Len(s) + n)
<1>2. b \in Seq(Frame) /\ Len(b) = n /\ \A k \in 1..n : b[k] = t[k]
  BY <1>1, SubSeqProperties
<1>3. /\ u \in Seq(Frame) /\ Len(u) = Len(s) + Len(t)
      /\ \A k \in 1..Len(s) + Len(t) : u[k] = IF k <= Len(s) THEN s[k] ELSE t[k - Len(s)]
  BY ConcatProperties
<1> HIDE DEF b, u
<1>4. /\ v \in Seq(Frame) /\ Len(v) = Len(s) + Len(b)
      /\ \A k \in 1..Len(s) + Len(b) : v[k] = IF k <= Len(s) THEN s[k] ELSE b[k - Len(s)]
  BY <1>2, ConcatProperties
<1>5. /\ w \in Seq(Frame) /\ Len(w) = Len(s) + n
      /\ \A k \in 1..Len(s) + n : w[k] = u[k]
  <2>1. \A k \in 1..Len(s) + n : u[k] \in Frame
    <3>1. \A k \in 1..Len(s) + n : k \in 1..Len(u)
      BY <1>1, <1>3
    <3> QED
      BY <1>3, <3>1, ElementOfSeq
  <2>2. Len(s) + n \in Nat
    BY <1>1
  <2> QED
    BY <2>1, <2>2, SubSeqProperties
<1> HIDE DEF v, w
<1>6. ASSUME NEW k \in 1..Len(s) + n
      PROVE  v[k] = w[k]
  <2>1. k \in 1..Len(s) + Len(t) /\ k \in 1..Len(s) + Len(b)
    BY <1>1, <1>2
  <2>2. ~(k <= Len(s)) => k - Len(s) \in 1..n
    BY <1>1
  <2> QED
    BY <1>2, <1>3, <1>4, <1>5, <2>1, <2>2
<1>7. v = w
  BY <1>2, <1>4, <1>5, <1>6, SeqEqual
<1> QED
  BY <1>2, <1>4, <1>7 DEF b, u, v, w

\* All that is selected begins with what is selected from the first frames.
LEMMA SelectedBeginning ==
  ASSUME NEW s \in Seq(Frame), NEW filter, NEW n \in Nat, n <= Len(s)
  PROVE  \E rest \in Seq(Frame) :
           /\ Selected(SubSeq(s, 1, n), filter) \in Seq(Frame)
           /\ Selected(s, filter) = Selected(SubSeq(s, 1, n), filter) \o rest
<1>1. Len(s) \in Nat /\ SubSeq(s, 1, Len(s)) = s
  BY LenProperties, SubSeqFull
<1>2. Selected(s, filter) = Selected(SubSeq(s, 1, n), filter)
                              \o Selected(SubSeq(s, n + 1, Len(s)), filter)
  <2>1. Len(s) <= Len(s)
    BY <1>1
  <2>2. Selected(SubSeq(s, 1, Len(s)), filter)
          = Selected(SubSeq(s, 1, n), filter) \o Selected(SubSeq(s, n + 1, Len(s)), filter)
    BY <1>1, <2>1, SelectedNext
  <2> QED
    BY <1>1, <2>2
<1>3. SubSeq(s, 1, n) \in Seq(Frame) /\ SubSeq(s, n + 1, Len(s)) \in Seq(Frame)
  <2>1. (\A k \in 1..n : s[k] \in Frame) /\ (\A k \in n + 1..Len(s) : s[k] \in Frame)
    <3>1. (\A k \in 1..n : k \in 1..Len(s)) /\ (\A k \in n + 1..Len(s) : k \in 1..Len(s))
      BY <1>1
    <3> QED
      BY <3>1, ElementOfSeq
  <2>2. n + 1 \in Int /\ Len(s) \in Int
    BY <1>1
  <2> QED
    BY <2>1, <2>2, SubSeqProperties
<1> QED
  BY <1>2, <1>3, SelectedType

LEMMA OutputWriteErrorStep ==
  ASSUME OutputInv, OutputWriteError
  PROVE  LET selection == Selected(stored, out.filter)
         IN file'[out.id] = SubSeq(selection, 1, Len(file'[out.id]))
<1>1. evpc = "output" /\ out.offset < Len(stored)
  BY DEF OutputWriteError
<1>2. PICK n \in 0..Len(OutputFrames) - 1 :
        file' = [file EXCEPT ![out.id] = file[out.id] \o SubSeq(OutputFrames, 1, n)]
  BY DEF OutputWriteError
<1> DEFINE a == file[out.id]
           b == OutputFrames
           part == SubSeq(b, 1, n)
<1>3. /\ out.id \in Ids /\ OutputEnd \in Nat /\ OutputEnd <= Len(stored)
      /\ a \in Seq(Frame) /\ b \in Seq(Frame) /\ stored \in Seq(Frame)
      /\ Selected(SubSeq(stored, 1, OutputEnd), out.filter) = a \o b
  BY <1>1, OutputChunkFound DEF OutputInv, TypeOK, FramesOK
<1>4. file'[out.id] = a \o part
  BY <1>2, <1>3 DEF OutputInv
<1>5. n \in Nat /\ n <= Len(b) /\ Len(b) \in Nat
  BY <1>3, LenProperties
<1> HIDE DEF a, b, part
<1>6. PICK rest \in Seq(Frame) : Selected(stored, out.filter) = (a \o b) \o rest
  BY <1>3, SelectedBeginning
<1>7. a \o part = SubSeq(a \o b, 1, Len(a \o part))
  BY <1>3, <1>5, BeginningOfTwo DEF part
<1>8. /\ part \in Seq(Frame) /\ Len(part) = n
      /\ Len(a \o part) = Len(a) + Len(part) /\ Len(a \o b) = Len(a) + Len(b)
      /\ a \o b \in Seq(Frame) /\ Len(a) \in Nat
  <2>1. \A k \in 1..n : b[k] \in Frame
    BY <1>3, <1>5, ElementOfSeq
  <2>2. part \in Seq(Frame) /\ Len(part) = n
    BY <1>5, <2>1, SubSeqProperties DEF part
  <2> QED
    BY <1>3, <2>2, ConcatProperties, LenProperties
<1>9. SubSeq((a \o b) \o rest, 1, Len(a \o part)) = SubSeq(a \o b, 1, Len(a \o part))
  <2>1. Len(a \o part) \in Nat /\ Len(a \o part) <= Len(a \o b)
    BY <1>5, <1>8
  <2> QED
    BY <1>8, <2>1, BeginningStays
<1> QED
  BY <1>4, <1>6, <1>7, <1>9

(* A writer that is told "ok" was given every matching frame of the store,  *)
(* and one that is told an error some matching frames from the start,       *)
(* however the output is cut into blocks.                                   *)
THEOREM OutputIsComplete == Spec => OutputComplete
<1> DEFINE Told(i) ==
             LET selection == Selected(stored, out.filter)
             IN /\ i = out.id
                /\ file'[i] = SubSeq(selection, 1, Len(file'[i]))
                /\ done'[i] = <<"ok">> => file'[i] = selection
<1>1. ASSUME OutputInv, [Next]_vars, NEW i \in Ids, done'[i] # done[i], evpc = "output"
      PROVE  Told(i)
  <2>1. out.id \in Ids /\ done \in [Ids -> Seq({"ok", "err"})] /\ stored \in Seq(Frame)
    BY <1>1 DEF OutputInv, TypeOK, ControlOK, FramesOK
  <2>2. OutputWriteError \/ OutputFinish
    BY <1>1 DEF Next, EventLoop, ProcessInput, ProcessInputError, ProcessSerial, ProcessStore,
       AnnounceFrames, ProcessPushFilter, UnlinkFiltered, ProcessRemoveFilter, ScanFilter,
       AnnounceFiltered, ProcessOutput, OutputWrite, ProcessClose, DropSerial, JoinSerial,
       DropParallel, JoinParallel, LoopExit, Received, Worker, Serial, Reader, Caller, Drop,
       Panic, PluginPanic, Terminated, poolStutter, readerStutter, callerStutter, vars,
       eventVars
  <2>3. CASE OutputWriteError
    <3>1. done' = [done EXCEPT ![out.id] = Append(@, "err")]
      BY <2>3 DEF OutputWriteError, Finished
    <3>2. i = out.id /\ done'[i] = Append(done[i], "err") /\ done[i] \in Seq({"ok", "err"})
      BY <1>1, <2>1, <3>1
    <3>3. done'[i] # <<"ok">>
      <4> DEFINE told == done[i]
      <4>1. told \in Seq({"ok", "err"}) /\ Len(told) \in Nat
        BY <3>2
      <4> HIDE DEF told
      <4>2. Append(told, "err")[Len(told) + 1] = "err" /\ Len(Append(told, "err")) = Len(told) + 1
        BY <4>1
      <4>3. Len(<<"ok">>) = 1 /\ <<"ok">>[1] = "ok" /\ "ok" # "err"
        OBVIOUS
      <4>4. Append(told, "err") # <<"ok">>
        <5> SUFFICES ASSUME Append(told, "err") = <<"ok">> PROVE FALSE
          OBVIOUS
        <5>1. Len(told) + 1 = 1
          BY <4>2, <4>3
        <5>2. <<"ok">>[1] = "err"
          BY <4>2, <5>1
        <5> QED
          BY <4>3, <5>2
      <4> QED
        BY <3>2, <4>4 DEF told
    <3> QED
      BY <1>1, <2>3, <3>2, <3>3, OutputWriteErrorStep
  <2>4. CASE OutputFinish
    <3>1. PICK result : done' = [done EXCEPT ![out.id] = Append(@, result)]
      BY <2>4 DEF OutputFinish, Finished
    <3>2. i = out.id
      BY <1>1, <2>1, <3>1
    <3>3. UNCHANGED file /\ out.offset >= Len(stored)
      BY <2>4 DEF OutputFinish
    <3>4. /\ out.offset = Len(stored)
          /\ file[out.id] = Selected(SubSeq(stored, 1, out.offset), out.filter)
      BY <1>1, <2>1, <3>3, LenProperties DEF OutputInv, TypeOK, ViewsOK
    <3>5. file'[i] = Selected(stored, out.filter) /\ file'[i] \in Seq(Frame)
      BY <1>1, <2>1, <3>2, <3>3, <3>4, SubSeqFull DEF OutputInv
    <3>6. SubSeq(file'[i], 1, Len(file'[i])) = file'[i]
      BY <3>5, SubSeqFull
    <3> QED
      BY <3>2, <3>5, <3>6
  <2> QED
    BY <2>2, <2>3, <2>4
<1>2. OutputInv /\ [Next]_vars =>
        [\A i \in Ids : done'[i] # done[i] /\ evpc = "output" => Told(i)]_vars
  BY <1>1
<1> QED
  BY <1>2, InitOutput, NextOutput, PTL DEF Spec, OutputComplete
=============================================================================
