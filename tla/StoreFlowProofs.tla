-------------------------- MODULE StoreFlowProofs ---------------------------
(***************************************************************************)
(* What the readers return goes through the store in their order, once,    *)
(* and before they are reported as done; and no frame is lost on the way   *)
(* through the pools.                                                      *)
(***************************************************************************)
EXTENDS StoreOrderProofs, FiniteSetTheorems, SequenceTheorems, WellFoundedInduction

-----------------------------------------------------------------------------
(* The layers of one reader on their way to the event loop.                *)

\* The commands of reader or writer i: layers it returned, and what ends it.
IsRead(c, i) == c.op = "PushFrames" /\ c.ok /\ c.id = i
IsAnswer(c, i) ==
  \/ c.op = "PushFrames" /\ ~c.ok /\ c.id = i
  \/ c.op = "PushOutput" /\ c.id = i
Inert(c) == c.op \notin {"PushFrames", "PushOutput"}
Reads(c, i) == {p \in DOMAIN c : IsRead(c[p], i)}
Answers(c, i) == {p \in DOMAIN c : IsAnswer(c[p], i)}

\* A read returned layers of its reader, with consecutive serial numbers.
GoodRead(c) ==
  c.op = "PushFrames" /\ c.ok =>
    /\ c.layers # <<>>
    /\ \A k \in DOMAIN c.layers :
         /\ c.layers[k].src = c.id
         /\ c.layers[k].seq \in Nat \ {0}
         /\ c.layers[k].seq = c.layers[1].seq + k - 1

\* What reader i has on its way, as if it were what the serial thread hands
\* over, with the serial numbers as the indices: the channel keeps the order of
\* both in the same way, and the lemmas about Handover speak of both.
AsBatch(layers) == [k \in 1..Len(layers) |-> NewFrame(layers[k].seq - 1, layers[k])]
Pass(c, i) == IF IsRead(c, i) THEN StoreFrames(AsBatch(c.layers)) ELSE Close
Passed(c, i) == [p \in DOMAIN c |-> Pass(c[p], i)]

\* A read as a batch.
LEMMA ReadBatch ==
  ASSUME NEW c \in Command, GoodRead(c), c.op = "PushFrames", c.ok
  PROVE  /\ c.layers \in Seq(Layer) /\ Len(c.layers) \in Nat \ {0}
         /\ AsBatch(c.layers) \in Batch /\ Len(AsBatch(c.layers)) = Len(c.layers)
         /\ First(AsBatch(c.layers)) = c.layers[1].seq - 1
         /\ Whole(AsBatch(c.layers))
         /\ First(AsBatch(c.layers)) <= Final(AsBatch(c.layers))
<1> DEFINE layers == c.layers
           n == Len(layers)
<1>1. layers \in Seq(Layer)
  BY CommandFields
<1>2. /\ layers # <<>>
      /\ \A k \in DOMAIN layers : /\ layers[k].seq \in Nat \ {0}
                                  /\ layers[k].seq = layers[1].seq + k - 1
  BY DEF GoodRead
<1> HIDE DEF layers
<1>3. n \in Nat \ {0} /\ DOMAIN layers = 1..n
  BY <1>1, <1>2
<1>4. \A k \in 1..n : AsBatch(layers)[k] = NewFrame(layers[k].seq - 1, layers[k])
  BY <1>3 DEF AsBatch
<1>5. \A k \in 1..n : NewFrame(layers[k].seq - 1, layers[k]) \in Frame
  <2>1. TAKE k \in 1..n
  <2>2. layers[k] \in Layer /\ layers[k].seq - 1 \in Nat
    BY <1>1, <1>2, <1>3
  <2> QED
    BY <2>2 DEF Layer, NewFrame, Frame
<1>6. AsBatch(layers) \in [1..n -> Frame]
  BY <1>5 DEF AsBatch
<1>7. AsBatch(layers) \in Seq(Frame) /\ Len(AsBatch(layers)) = n
  BY <1>3, <1>6
<1>8. AsBatch(layers) \in Batch
  BY <1>3, <1>7 DEF Batch
<1>9. 1 \in 1..n /\ n \in 1..n
  BY <1>3
<1> HIDE DEF n
<1>10. First(AsBatch(layers)) = layers[1].seq - 1
  <2>1. AsBatch(layers)[1] = NewFrame(layers[1].seq - 1, layers[1])
    BY <1>4, <1>9
  <2> QED
    BY <2>1 DEF First, NewFrame
<1>11. Final(AsBatch(layers)) = layers[n].seq - 1
  <2>1. AsBatch(layers)[n] = NewFrame(layers[n].seq - 1, layers[n])
    BY <1>4, <1>9
  <2> QED
    BY <1>7, <2>1 DEF Final, NewFrame
<1>12. layers[n].seq = layers[1].seq + n - 1 /\ layers[1].seq \in Nat
  <2>1. layers[n].seq = layers[1].seq + n - 1
    BY <1>2, <1>3, <1>9
  <2>2. layers[1].seq \in Nat \ {0}
    BY <1>2, <1>3, <1>9
  <2> QED
    BY <2>1, <2>2
<1> QED
  BY <1>1, <1>3, <1>7, <1>8, <1>10, <1>11, <1>12 DEF Whole, layers, n

LEMMA PassType ==
  ASSUME NEW c \in Command, GoodRead(c), NEW i
  PROVE  /\ Pass(c, i) \in Command
         /\ Pass(c, i).op = "StoreFrames" <=> IsRead(c, i)
         /\ IsRead(c, i) => Pass(c, i).frames = AsBatch(c.layers)
<1>1. CASE IsRead(c, i)
  <2>1. AsBatch(c.layers) \in Batch
    BY <1>1, ReadBatch DEF IsRead
  <2>2. Pass(c, i) = StoreFrames(AsBatch(c.layers))
    BY <1>1 DEF Pass
  <2> QED
    BY <1>1, <2>1, <2>2, CommandForms DEF StoreFrames
<1>2. CASE ~IsRead(c, i)
  <2>1. Pass(c, i) = Close
    BY <1>2 DEF Pass
  <2> QED
    BY <1>2, <2>1, CommandForms DEF Close
<1> QED
  BY <1>1, <1>2

LEMMA PassedType ==
  ASSUME NEW c \in Seq(Command), \A p \in DOMAIN c : GoodRead(c[p]), NEW i
  PROVE  /\ Passed(c, i) \in Seq(Command) /\ Len(Passed(c, i)) = Len(c)
         /\ \A p \in 1..Len(c) : Passed(c, i)[p] = Pass(c[p], i)
         /\ Handed(Passed(c, i)) = Reads(c, i)
         /\ \A p \in Reads(c, i) :
              /\ Passed(c, i)[p].frames = AsBatch(c[p].layers)
              /\ First(AsBatch(c[p].layers)) <= Final(AsBatch(c[p].layers))
<1>1. Len(c) \in Nat /\ DOMAIN c = 1..Len(c) /\ \A p \in 1..Len(c) : c[p] \in Command
  OBVIOUS
<1>2. \A p \in 1..Len(c) : Pass(c[p], i) \in Command
  BY <1>1, PassType
<1>3. Passed(c, i) \in [1..Len(c) -> Command]
  BY <1>1, <1>2 DEF Passed
<1>4. Passed(c, i) \in Seq(Command) /\ Len(Passed(c, i)) = Len(c)
  BY <1>1, <1>3
<1>5. \A p \in 1..Len(c) : Passed(c, i)[p] = Pass(c[p], i)
  BY <1>1 DEF Passed
<1>6. \A p \in 1..Len(c) : Pass(c[p], i).op = "StoreFrames" <=> IsRead(c[p], i)
  BY <1>1, PassType
<1>7. Handed(Passed(c, i)) = Reads(c, i)
  <2>1. DOMAIN Passed(c, i) = 1..Len(c)
    BY <1>1 DEF Passed
  <2> QED
    BY <1>1, <1>5, <1>6, <2>1 DEF Handed, Reads
<1>8. ASSUME NEW p \in Reads(c, i)
      PROVE  /\ Passed(c, i)[p].frames = AsBatch(c[p].layers)
             /\ First(AsBatch(c[p].layers)) <= Final(AsBatch(c[p].layers))
  <2>1. p \in 1..Len(c) /\ IsRead(c[p], i) /\ c[p] \in Command /\ GoodRead(c[p])
    BY <1>1, <1>8 DEF Reads
  <2> QED
    BY <1>5, <2>1, PassType, ReadBatch DEF IsRead
<1> QED
  BY <1>4, <1>5, <1>7, <1>8

LEMMA PassedAppend ==
  ASSUME NEW c \in Seq(Command), NEW d \in Command, GoodRead(d), NEW i,
         \A p \in DOMAIN c : GoodRead(c[p])
  PROVE  /\ Passed(Append(c, d), i) = Append(Passed(c, i), Pass(d, i))
         /\ \A p \in DOMAIN Append(c, d) : GoodRead(Append(c, d)[p])
<1> DEFINE e == Append(c, d)
           s == Passed(c, i)
           t == Passed(e, i)
           x == Pass(d, i)
<1>1. /\ s \in Seq(Command) /\ Len(s) = Len(c) /\ x \in Command
      /\ \A p \in 1..Len(c) : s[p] = Pass(c[p], i)
  BY PassedType, PassType
<1>2. /\ e \in Seq(Command) /\ Len(e) = Len(c) + 1 /\ Len(c) \in Nat
      /\ e[Len(c) + 1] = d /\ \A p \in 1..Len(c) : e[p] = c[p]
      /\ DOMAIN e = 1..Len(e) /\ DOMAIN c = 1..Len(c)
  OBVIOUS
<1> HIDE DEF e
<1>3. \A p \in DOMAIN e : GoodRead(e[p])
  <2>1. \A p \in DOMAIN e : p \in 1..Len(c) \/ p = Len(c) + 1
    BY <1>2
  <2> QED
    BY <1>2, <2>1
<1>4. t \in Seq(Command) /\ Len(t) = Len(e) /\ \A p \in 1..Len(e) : t[p] = Pass(e[p], i)
  BY <1>2, <1>3, PassedType
<1> HIDE DEF s, t, x
<1>5. /\ Append(s, x) \in Seq(Command) /\ Len(Append(s, x)) = Len(s) + 1
      /\ Append(s, x)[Len(s) + 1] = x /\ \A p \in 1..Len(s) : Append(s, x)[p] = s[p]
  BY <1>1, AppendProperties
<1>6. ASSUME NEW p \in 1..Len(t) PROVE t[p] = Append(s, x)[p]
  <2>1. CASE p = Len(c) + 1
    BY <1>1, <1>2, <1>4, <1>5, <2>1 DEF x
  <2>2. CASE p # Len(c) + 1
    <3>1. p \in 1..Len(c)
      BY <1>2, <1>4, <2>2
    <3> QED
      BY <1>1, <1>2, <1>4, <1>5, <3>1
  <2> QED
    BY <2>1, <2>2
<1>7. t = Append(s, x)
  <2>1. Len(t) = Len(Append(s, x))
    BY <1>1, <1>2, <1>4, <1>5
  <2> QED
    BY <1>4, <1>5, <1>6, <2>1, SeqEqual
<1> QED
  BY <1>3, <1>7 DEF e, s, t, x

LEMMA PassedTail ==
  ASSUME NEW c \in Seq(Command), c # <<>>, NEW i, \A p \in DOMAIN c : GoodRead(c[p])
  PROVE  /\ Passed(Tail(c), i) = Tail(Passed(c, i))
         /\ Passed(c, i) # <<>> /\ Head(Passed(c, i)) = Pass(Head(c), i)
         /\ \A p \in DOMAIN Tail(c) : GoodRead(Tail(c)[p])
<1> DEFINE e == Tail(c)
           s == Passed(c, i)
           t == Passed(e, i)
<1>1. /\ s \in Seq(Command) /\ Len(s) = Len(c)
      /\ \A p \in 1..Len(c) : s[p] = Pass(c[p], i)
  BY PassedType
<1>2. /\ e \in Seq(Command) /\ Len(e) = Len(c) - 1 /\ Len(c) \in Nat \ {0}
      /\ \A p \in 1..Len(e) : e[p] = c[p + 1]
      /\ DOMAIN e = 1..Len(e) /\ DOMAIN c = 1..Len(c) /\ Head(c) = c[1]
  OBVIOUS
<1> HIDE DEF e
<1>3. \A p \in DOMAIN e : GoodRead(e[p])
  <2>1. \A p \in DOMAIN e : p + 1 \in DOMAIN c
    BY <1>2
  <2> QED
    BY <1>2, <2>1
<1>4. t \in Seq(Command) /\ Len(t) = Len(e) /\ \A p \in 1..Len(e) : t[p] = Pass(e[p], i)
  BY <1>2, <1>3, PassedType
<1> HIDE DEF s, t
<1>5. /\ s # <<>> /\ Tail(s) \in Seq(Command) /\ Len(Tail(s)) = Len(s) - 1
      /\ \A p \in 1..Len(Tail(s)) : Tail(s)[p] = s[p + 1]
      /\ Head(s) = s[1]
  BY <1>1, <1>2
<1>6. ASSUME NEW p \in 1..Len(t) PROVE t[p] = Tail(s)[p]
  <2>1. p \in 1..Len(e) /\ p \in 1..Len(Tail(s)) /\ p + 1 \in 1..Len(c)
    BY <1>1, <1>2, <1>4, <1>5
  <2> QED
    BY <1>1, <1>2, <1>4, <1>5, <2>1
<1>7. t = Tail(s)
  <2>1. Len(t) = Len(Tail(s))
    BY <1>1, <1>2, <1>4, <1>5
  <2> QED
    BY <1>4, <1>5, <1>6, <2>1, SeqEqual
<1>8. Head(s) = Pass(Head(c), i)
  BY <1>1, <1>2, <1>5
<1> QED
  BY <1>3, <1>5, <1>7, <1>8 DEF e, s, t

-----------------------------------------------------------------------------
(* The frames of one reader in the log.                                    *)

Own(log, i) == {k \in DOMAIN log : log[k].src = i}
Earlier(log, n, i) == {k \in 1..n : log[k].src = i}

LEMMA OwnFinite ==
  ASSUME NEW log \in Seq(Frame), NEW i
  PROVE  /\ IsFiniteSet(Own(log, i)) /\ Cardinality(Own(log, i)) \in Nat
         /\ Own(log, i) \subseteq 1..Len(log)
<1>1. Own(log, i) \subseteq 1..Len(log) /\ Len(log) \in Nat
  BY DEF Own
<1>2. IsFiniteSet(1..Len(log))
  BY <1>1, FS_Interval
<1>3. IsFiniteSet(Own(log, i))
  BY <1>1, <1>2, FS_Subset
<1> QED
  BY <1>1, <1>3, FS_CardinalityType

\* The log goes on with frames of other readers.
LEMMA OwnOther ==
  ASSUME NEW log \in Seq(Frame), NEW more \in Seq(Frame), NEW j,
         \A k \in 1..Len(more) : more[k].src # j
  PROVE  Own(log \o more, j) = Own(log, j)
<1>1. /\ Len(log \o more) = Len(log) + Len(more) /\ log \o more \in Seq(Frame)
      /\ Len(log) \in Nat /\ Len(more) \in Nat
      /\ \A k \in 1..Len(log) : (log \o more)[k] = log[k]
      /\ \A k \in Len(log) + 1..Len(log) + Len(more) :
           (log \o more)[k] = more[k - Len(log)]
  BY ConcatProperties, LenProperties
<1>2. DOMAIN (log \o more) = 1..Len(log \o more) /\ DOMAIN log = 1..Len(log)
  BY <1>1
<1> DEFINE both == log \o more
<1> HIDE DEF both
<1>3. ASSUME NEW k \in 1..Len(both), both[k].src = j PROVE k \in 1..Len(log)
  <2>1. CASE k \notin 1..Len(log)
    <3>1. k \in Len(log) + 1..Len(log) + Len(more) /\ k - Len(log) \in 1..Len(more)
      BY <1>1, <1>3, <2>1 DEF both
    <3>2. both[k].src # j
      BY <1>1, <3>1 DEF both
    <3> QED
      BY <1>3, <3>2
  <2> QED
    BY <2>1
<1>4. \A k \in 1..Len(log) : k \in 1..Len(both) /\ both[k] = log[k]
  BY <1>1 DEF both
<1>5. Own(both, j) = Own(log, j)
  BY <1>2, <1>3, <1>4 DEF Own, both
<1> QED
  BY <1>5 DEF both

\* The log goes on with frames of reader i: it has one more with each of them.
LEMMA OwnMore ==
  ASSUME NEW log \in Seq(Frame), NEW more \in Seq(Frame), NEW i,
         \A k \in 1..Len(more) : more[k].src = i,
         NEW n \in 0..Len(more)
  PROVE  Cardinality(Earlier(log \o more, Len(log) + n, i)) = Cardinality(Own(log, i)) + n
<1> DEFINE both == log \o more
           new == Len(log) + 1..Len(log) + n
           all == {k \in 1..Len(log) + n : both[k].src = i}
<1>1. /\ Len(log) \in Nat /\ Len(more) \in Nat /\ n \in Nat /\ n <= Len(more)
      /\ \A k \in 1..Len(log) : both[k] = log[k]
      /\ \A k \in Len(log) + 1..Len(log) + Len(more) : both[k] = more[k - Len(log)]
      /\ DOMAIN log = 1..Len(log)
  BY ConcatProperties, LenProperties
<1> HIDE DEF both
<1>2. \A k \in new : both[k].src = i
  <2>1. TAKE k \in new
  <2>2. k \in Len(log) + 1..Len(log) + Len(more) /\ k - Len(log) \in 1..Len(more)
    BY <1>1
  <2> QED
    BY <1>1, <2>2
<1>3. all = Own(log, i) \cup new
  <2>1. \A k : k \in 1..Len(log) + n <=> k \in 1..Len(log) \/ k \in new
    BY <1>1
  <2> HIDE DEF new
  <2> QED
    BY <1>1, <1>2, <2>1 DEF Own
<1>4. Own(log, i) \cap new = {}
  BY <1>1 DEF Own
<1>5. IsFiniteSet(new) /\ Cardinality(new) = n
  <2>1. /\ IsFiniteSet(new)
        /\ Cardinality(new) =
             IF Len(log) + 1 > Len(log) + n THEN 0 ELSE (Len(log) + n) - (Len(log) + 1) + 1
    <3>1. Len(log) + 1 \in Int /\ Len(log) + n \in Int
      BY <1>1
    <3> QED
      BY <3>1, FS_Interval
  <2> QED
    BY <1>1, <2>1
<1>6. IsFiniteSet(Own(log, i)) /\ Cardinality(Own(log, i)) \in Nat
  BY OwnFinite
<1> HIDE DEF new, all
<1>7. Cardinality(all) = Cardinality(Own(log, i)) + Cardinality(new) - Cardinality({})
  BY <1>3, <1>4, <1>5, <1>6, FS_Union
<1>8. Cardinality(all) = Cardinality(Own(log, i)) + n
  BY <1>1, <1>5, <1>6, <1>7, FS_EmptySet
<1> QED
  BY <1>8 DEF all, both, Earlier

-----------------------------------------------------------------------------
(* The answer to one reader or writer.                                     *)

\* The answer of i is on its way once at most, after everything i has read, and
\* is given once at most.
AnsweredOnce(c, i, busy, told) ==
  /\ \A p, q \in Answers(c, i) : p = q
  /\ \A p \in Answers(c, i), q \in Reads(c, i) : q < p
  /\ Answers(c, i) # {} => ~busy /\ told = <<>>
  /\ busy => told = <<>>
  /\ busy \/ told # <<>> => Reads(c, i) = {}
  /\ Len(told) <= 1

\* Another command at the end.
LEMMA AnswerAppendOther ==
  ASSUME NEW c \in Seq(Command), NEW d \in Command, NEW i, ~IsRead(d, i), ~IsAnswer(d, i)
  PROVE  Reads(Append(c, d), i) = Reads(c, i) /\ Answers(Append(c, d), i) = Answers(c, i)
<1> DEFINE e == Append(c, d)
<1>1. /\ Len(c) \in Nat /\ DOMAIN c = 1..Len(c) /\ DOMAIN e = 1..Len(c) + 1
      /\ e[Len(c) + 1] = d /\ \A p \in 1..Len(c) : e[p] = c[p]
  OBVIOUS
<1> HIDE DEF e
<1>2. \A p : p \in DOMAIN e <=> p \in DOMAIN c \/ p = Len(c) + 1
  BY <1>1
<1>3. \A p \in DOMAIN c : e[p] = c[p]
  BY <1>1
<1>4. Reads(e, i) = Reads(c, i) /\ Answers(e, i) = Answers(c, i)
  BY <1>1, <1>2, <1>3 DEF Reads, Answers
<1> QED
  BY <1>4 DEF e

\* A read or an answer at the end.
LEMMA AnswerAppend ==
  ASSUME NEW c \in Seq(Command), NEW d \in Command, NEW i
  PROVE  /\ IsRead(d, i) => /\ Reads(Append(c, d), i) = Reads(c, i) \cup {Len(c) + 1}
                            /\ Answers(Append(c, d), i) = Answers(c, i)
         /\ IsAnswer(d, i) => /\ Answers(Append(c, d), i) = Answers(c, i) \cup {Len(c) + 1}
                              /\ Reads(Append(c, d), i) = Reads(c, i)
         /\ \A q \in Reads(c, i) : q < Len(c) + 1
<1> DEFINE e == Append(c, d)
<1>1. /\ Len(c) \in Nat /\ DOMAIN c = 1..Len(c) /\ DOMAIN e = 1..Len(c) + 1
      /\ e[Len(c) + 1] = d /\ \A p \in 1..Len(c) : e[p] = c[p]
  OBVIOUS
<1> HIDE DEF e
<1>2. \A p : p \in DOMAIN e <=> p \in DOMAIN c \/ p = Len(c) + 1
  BY <1>1
<1>3. \A p \in DOMAIN c : e[p] = c[p]
  BY <1>1
<1>4. IsRead(d, i) => Reads(e, i) = Reads(c, i) \cup {Len(c) + 1}
  BY <1>1, <1>2, <1>3 DEF Reads
<1>5. IsAnswer(d, i) => Answers(e, i) = Answers(c, i) \cup {Len(c) + 1}
  BY <1>1, <1>2, <1>3 DEF Answers
<1>6. ~(IsRead(d, i) /\ IsAnswer(d, i))
  BY DEF IsRead, IsAnswer
<1>7. /\ IsRead(d, i) => Answers(e, i) = Answers(c, i)
      /\ IsAnswer(d, i) => Reads(e, i) = Reads(c, i)
  BY <1>1, <1>2, <1>3, <1>6 DEF Answers, Reads
<1>8. \A q \in Reads(c, i) : q < Len(c) + 1
  BY <1>1 DEF Reads
<1> QED
  BY <1>4, <1>5, <1>7, <1>8 DEF e

\* The first command taken away.
LEMMA AnswerTail ==
  ASSUME NEW c \in Seq(Command), c # <<>>, NEW i
  PROVE  /\ \A p \in Reads(Tail(c), i) : p \in Nat /\ p + 1 \in Reads(c, i)
         /\ \A p \in Answers(Tail(c), i) : p \in Nat /\ p + 1 \in Answers(c, i)
         /\ \A p \in Reads(c, i) \ {1} : p - 1 \in Reads(Tail(c), i)
         /\ 1 \in Reads(c, i) <=> IsRead(Head(c), i)
         /\ 1 \in Answers(c, i) <=> IsAnswer(Head(c), i)
         /\ Reads(c, i) \subseteq Nat \ {0} /\ Answers(c, i) \subseteq Nat \ {0}
<1> DEFINE e == Tail(c)
<1>1. /\ Len(c) \in Nat \ {0} /\ DOMAIN c = 1..Len(c) /\ DOMAIN e = 1..Len(c) - 1
      /\ Head(c) = c[1] /\ \A p \in 1..Len(c) - 1 : e[p] = c[p + 1]
  OBVIOUS
<1> HIDE DEF e
<1>2. \A p \in DOMAIN e : p \in Nat /\ p + 1 \in DOMAIN c /\ e[p] = c[p + 1]
  BY <1>1
<1>3. \A p \in DOMAIN c \ {1} : p - 1 \in DOMAIN e /\ c[p] = e[p - 1]
  BY <1>1, <1>2
<1>4. 1 \in DOMAIN c /\ DOMAIN c \subseteq Nat \ {0}
  BY <1>1
<1> QED
  BY <1>1, <1>2, <1>3, <1>4 DEF Reads, Answers, e

\* Taking a command that does not concern i, or a read of i.
LEMMA AnsweredTail ==
  ASSUME NEW c \in Seq(Command), c # <<>>, NEW i, NEW busy, NEW later, NEW told,
         AnsweredOnce(c, i, busy, told), later => busy
  PROVE  AnsweredOnce(Tail(c), i, later, told)
<1>1. \A p, q \in Answers(Tail(c), i) : p = q
  <2>1. TAKE p, q \in Answers(Tail(c), i)
  <2>2. p \in Nat /\ q \in Nat /\ p + 1 = q + 1
    BY AnswerTail DEF AnsweredOnce
  <2> QED
    BY <2>2
<1>2. \A p \in Answers(Tail(c), i), q \in Reads(Tail(c), i) : q < p
  <2>1. TAKE p \in Answers(Tail(c), i), q \in Reads(Tail(c), i)
  <2>2. p \in Nat /\ q \in Nat /\ q + 1 < p + 1
    BY AnswerTail DEF AnsweredOnce
  <2> QED
    BY <2>2
<1>3. Answers(Tail(c), i) # {} => Answers(c, i) # {}
  BY AnswerTail
<1>4. Reads(c, i) = {} => Reads(Tail(c), i) = {}
  BY AnswerTail
<1> QED
  BY <1>1, <1>2, <1>3, <1>4 DEF AnsweredOnce

\* Taking the answer of i: there is no other one, and nothing was read before it
\* that the event loop has not taken.
LEMMA AnsweredTaken ==
  ASSUME NEW c \in Seq(Command), c # <<>>, NEW i, IsAnswer(Head(c), i),
         NEW busy, NEW told, AnsweredOnce(c, i, busy, told)
  PROVE  /\ Answers(Tail(c), i) = {} /\ Reads(Tail(c), i) = {} /\ Reads(c, i) = {}
         /\ ~busy /\ told = <<>>
<1>1. 1 \in Answers(c, i)
  BY AnswerTail
<1>2. Answers(Tail(c), i) = {}
  <2>1. ASSUME NEW p \in Answers(Tail(c), i) PROVE FALSE
    <3>1. p \in Nat /\ p + 1 \in Answers(c, i) /\ p \in Nat
      BY AnswerTail
    <3>2. p + 1 = 1
      BY <1>1, <3>1 DEF AnsweredOnce
    <3>3. p \in DOMAIN Tail(c)
      BY DEF Answers
    <3>4. DOMAIN Tail(c) = 1..Len(c) - 1
      OBVIOUS
    <3> QED
      BY <3>1, <3>2, <3>3, <3>4
  <2> QED
    BY <2>1
<1>3. Reads(c, i) = {}
  <2>1. ASSUME NEW q \in Reads(c, i) PROVE FALSE
    <3>1. q < 1 /\ q \in Nat \ {0}
      BY <1>1, AnswerTail DEF AnsweredOnce
    <3> QED
      BY <3>1
  <2> QED
    BY <2>1
<1>4. Reads(Tail(c), i) = {}
  BY <1>3, AnswerTail
<1> QED
  BY <1>1, <1>2, <1>3, <1>4 DEF AnsweredOnce

-----------------------------------------------------------------------------
(* FlowInv is inductive.                                                   *)

Busy(i) == evpc = "output" /\ out.id = i
Due(i) == Answers(chan, i) # {} \/ Busy(i) \/ done[i] # <<>>

\* What i has read continues what is in the log, and ends with its answer; what
\* has an answer has no thread, or its thread has ended.
FlowOK(i) ==
  /\ Handover(Passed(chan, i), Cardinality(Own(accepted, i)), nread[i], TRUE)
  /\ AnsweredOnce(chan, i, Busy(i), done[i])
  /\ Due(i) => rpc[i] \in {"none", "ended"}
  /\ i > ioCnt => rpc[i] = "none" /\ ~Due(i)

\* While the event loop runs.
RunInv ==
  /\ TypeOK
  /\ ReaderOrder
  /\ \A p \in DOMAIN chan : GoodRead(chan[p])
  /\ \A i \in Ids : FlowOK(i)

\* Once it has ended, with what was in its channel: who has an answer had read
\* nothing that was not in the log, and reads no more.
Told(i) ==
  /\ Len(done[i]) <= 1
  /\ done[i] # <<>> =>
       nread[i] = Cardinality(Own(accepted, i)) /\ rpc[i] \in {"none", "ended"}
  /\ i > ioCnt => rpc[i] = "none" /\ done[i] = <<>>
EndInv == TypeOK /\ ReaderOrder /\ \A i \in Ids : Told(i)

\* The inductive strengthening of ReaderOrder and CompletionLast.
FlowInv == IF evpc = "ended" THEN EndInv ELSE RunInv

LEMMA InitFlow == Init => FlowInv
<1> SUFFICES ASSUME Init PROVE RunInv
  BY DEF Init, FlowInv
<1>1. TypeOK
  BY InitType
<1>2. chan = <<>> /\ accepted = <<>> /\ evpc = "loop"
  BY DEF Init
<1>3. ReaderOrder /\ \A p \in DOMAIN chan : GoodRead(chan[p])
  BY <1>2 DEF ReaderOrder
<1>4. ASSUME NEW i \in Ids
      PROVE  /\ Handover(Passed(chan, i), Cardinality(Own(accepted, i)), nread[i], TRUE)
             /\ AnsweredOnce(chan, i, Busy(i), done[i])
             /\ ~Due(i) /\ rpc[i] = "none"
  <2>1. nread[i] = 0 /\ done[i] = <<>> /\ rpc[i] = "none"
    BY DEF Init, InputsInit
  <2>2. Reads(chan, i) = {} /\ Answers(chan, i) = {} /\ ~Busy(i) /\ Own(accepted, i) = {}
    BY <1>2 DEF Reads, Answers, Busy, Own
  <2>3. Handed(Passed(chan, i)) = {}
    BY <1>2 DEF Handed, Passed
  <2>4. Cardinality(Own(accepted, i)) = 0
    BY <2>2, FS_EmptySet
  <2>5. Handover(Passed(chan, i), Cardinality(Own(accepted, i)), nread[i], TRUE)
    BY <2>1, <2>3, <2>4 DEF Handover
  <2>6. AnsweredOnce(chan, i, Busy(i), done[i])
    BY <2>1, <2>2 DEF AnsweredOnce
  <2> QED
    BY <2>1, <2>2, <2>5, <2>6 DEF Due
<1> QED
  BY <1>1, <1>3, <1>4 DEF RunInv, FlowOK

\* The steps that neither send, nor take, nor answer anything of a reader or a
\* writer.
LEMMA FlowRest ==
  ASSUME RunInv, TypeOK', UNCHANGED <<accepted, nread, done>>,
         \/ UNCHANGED chan
         \/ \E d \in Command : Inert(d) /\ chan' = Append(chan, d)
         \/ chan # <<>> /\ Inert(Head(chan)) /\ chan' = Tail(chan),
         \A i \in Ids : Busy(i)' => Busy(i),
         ioCnt' >= ioCnt,
         \A i \in Ids :
           /\ rpc'[i] = rpc[i] \/ rpc[i] \in {"check", "read"} \/ i > ioCnt
           /\ i > ioCnt' => rpc'[i] = rpc[i]
  PROVE  RunInv'
<1>1. chan \in Seq(Command) /\ \A p \in DOMAIN chan : GoodRead(chan[p])
  BY DEF RunInv, TypeOK, ChannelsOK
<1>2. ReaderOrder'
  BY DEF RunInv, ReaderOrder
<1>3. \A i \in Ids : ioCnt \in Int /\ ioCnt' \in Int /\ (i > ioCnt' => i > ioCnt)
  <2>1. ioCnt \in 0..MaxIo /\ ioCnt' \in 0..MaxIo
    BY DEF RunInv, TypeOK, ControlOK
  <2> QED
    BY <2>1 DEF Ids
<1>4. ASSUME NEW i \in Ids
      PROVE  /\ Handover(Passed(chan', i), Cardinality(Own(accepted, i)), nread[i], TRUE)
             /\ AnsweredOnce(chan', i, Busy(i)', done[i])
             /\ Answers(chan', i) # {} => Answers(chan, i) # {}
  <2>1. /\ Handover(Passed(chan, i), Cardinality(Own(accepted, i)), nread[i], TRUE)
        /\ AnsweredOnce(chan, i, Busy(i), done[i])
    BY DEF RunInv, FlowOK
  <2>2. Passed(chan, i) \in Seq(Command)
    BY <1>1, PassedType
  <2>3. CASE UNCHANGED chan
    BY <1>1, <2>1, <2>3 DEF AnsweredOnce
  <2>4. ASSUME NEW d \in Command, Inert(d), chan' = Append(chan, d)
        PROVE  /\ Handover(Passed(chan', i), Cardinality(Own(accepted, i)), nread[i], TRUE)
               /\ AnsweredOnce(chan', i, Busy(i)', done[i])
               /\ Answers(chan', i) # {} => Answers(chan, i) # {}
    <3>1. ~IsRead(d, i) /\ ~IsAnswer(d, i) /\ GoodRead(d)
      BY <2>4 DEF Inert, IsRead, IsAnswer, GoodRead
    <3>2. Pass(d, i) \in Command /\ Pass(d, i).op # "StoreFrames"
      BY <3>1, PassType
    <3>3. /\ Passed(chan', i) = Append(Passed(chan, i), Pass(d, i))
          /\ \A p \in DOMAIN chan' : GoodRead(chan'[p])
      BY <1>1, <2>4, <3>1, PassedAppend
    <3>4. Handover(Passed(chan', i), Cardinality(Own(accepted, i)), nread[i], TRUE)
      BY <2>1, <2>2, <3>2, <3>3, HandoverAppendOther
    <3>5. Reads(chan', i) = Reads(chan, i) /\ Answers(chan', i) = Answers(chan, i)
      BY <1>1, <2>4, <3>1, AnswerAppendOther
    <3>6. AnsweredOnce(chan', i, Busy(i)', done[i])
      BY <2>1, <3>5 DEF AnsweredOnce
    <3> QED
      BY <3>3, <3>4, <3>5, <3>6
  <2>5. CASE chan # <<>> /\ Inert(Head(chan)) /\ chan' = Tail(chan)
    <3>1. ~IsRead(Head(chan), i)
      BY <2>5 DEF Inert, IsRead
    <3>2. Head(chan) \in Command /\ GoodRead(Head(chan))
      BY <1>1, <2>5 DEF GoodRead, Inert
    <3>3. /\ Passed(chan', i) = Tail(Passed(chan, i)) /\ Passed(chan, i) # <<>>
          /\ Head(Passed(chan, i)).op # "StoreFrames"
          /\ \A p \in DOMAIN chan' : GoodRead(chan'[p])
      BY <1>1, <2>5, <3>1, <3>2, PassedTail, PassType
    <3>4. Handover(Passed(chan', i), Cardinality(Own(accepted, i)), nread[i], TRUE)
      BY <2>1, <2>2, <3>3, HandoverTailOther
    <3>5. AnsweredOnce(chan', i, Busy(i)', done[i])
      BY <1>1, <2>1, <2>5, AnsweredTail
    <3>6. Answers(chan', i) # {} => Answers(chan, i) # {}
      BY <1>1, <2>5, AnswerTail
    <3> QED
      BY <3>3, <3>4, <3>5, <3>6
  <2> QED
    BY <2>3, <2>4, <2>5
<1>5. ASSUME NEW i \in Ids
      PROVE  /\ Due(i)' => rpc'[i] \in {"none", "ended"}
             /\ i > ioCnt' => rpc'[i] = "none" /\ ~Due(i)'
  <2>1. Due(i)' => Due(i)
    BY <1>4 DEF Due
  <2>2. /\ Due(i) => rpc[i] \in {"none", "ended"}
        /\ i > ioCnt => rpc[i] = "none" /\ ~Due(i)
    BY DEF RunInv, FlowOK
  <2> QED
    BY <1>3, <2>1, <2>2
<1>6. \A p \in DOMAIN chan' : GoodRead(chan'[p])
  <2>1. CASE UNCHANGED chan
    BY <1>1, <2>1
  <2>2. ASSUME NEW d \in Command, Inert(d), chan' = Append(chan, d)
        PROVE  \A p \in DOMAIN chan' : GoodRead(chan'[p])
    <3>1. GoodRead(d)
      BY <2>2 DEF Inert, GoodRead
    <3> QED
      BY <1>1, <2>2, <3>1, PassedAppend
  <2>3. CASE chan # <<>> /\ chan' = Tail(chan)
    BY <1>1, <2>3, PassedTail
  <2> QED
    BY <2>1, <2>2, <2>3
<1> QED
  BY <1>2, <1>4, <1>5, <1>6 DEF RunInv, FlowOK

\* Another command at the end, which is none of i.
LEMMA FlowAppendOther ==
  ASSUME RunInv, NEW d \in Command, GoodRead(d), chan' = Append(chan, d),
         UNCHANGED <<accepted, out, evpc>>,
         NEW i \in Ids, ~IsRead(d, i), ~IsAnswer(d, i),
         nread'[i] = nread[i], rpc'[i] = rpc[i], done'[i] = done[i],
         i > ioCnt' => i > ioCnt
  PROVE  FlowOK(i)'
<1>1. /\ chan \in Seq(Command) /\ \A p \in DOMAIN chan : GoodRead(chan[p])
      /\ Handover(Passed(chan, i), Cardinality(Own(accepted, i)), nread[i], TRUE)
      /\ AnsweredOnce(chan, i, Busy(i), done[i])
  BY DEF RunInv, FlowOK, TypeOK, ChannelsOK
<1>2. Pass(d, i) \in Command /\ Pass(d, i).op # "StoreFrames"
  BY PassType
<1>3. Passed(chan', i) = Append(Passed(chan, i), Pass(d, i))
  BY <1>1, PassedAppend
<1>4. Passed(chan, i) \in Seq(Command)
  BY <1>1, PassedType
<1>5. Handover(Passed(chan', i), Cardinality(Own(accepted, i)), nread[i], TRUE)
  BY <1>1, <1>2, <1>3, <1>4, HandoverAppendOther
<1>6. Reads(chan', i) = Reads(chan, i) /\ Answers(chan', i) = Answers(chan, i)
  BY <1>1, AnswerAppendOther
<1>7. (Busy(i)' <=> Busy(i)) /\ (Due(i)' <=> Due(i))
  BY <1>6 DEF Busy, Due
<1>8. AnsweredOnce(chan', i, Busy(i)', done[i])
  BY <1>1, <1>6, <1>7 DEF AnsweredOnce
<1>9. /\ Due(i) => rpc[i] \in {"none", "ended"}
      /\ i > ioCnt => rpc[i] = "none" /\ ~Due(i)
  BY DEF RunInv, FlowOK
<1> QED
  BY <1>5, <1>7, <1>8, <1>9 DEF FlowOK

\* A reader returns layers: they continue what it returned before.
LEMMA ReaderReadFlow ==
  ASSUME RunInv, NEW i \in Ids, ReaderRead(i), UNCHANGED readerStutter, TypeOK'
  PROVE  RunInv'
<1>1. PICK n \in 0..MaxBatch :
        /\ nread' = [nread EXCEPT ![i] = @ + n]
        /\ chan' = IF n = 0
                   THEN chan
                   ELSE Append(chan, PushFrames(i,
                          [k \in 1..n |-> [src |-> i, seq |-> nread[i] + k]]))
  BY DEF ReaderRead
<1>2. /\ n \in Nat /\ nread \in [Ids -> Nat] /\ rpc[i] = "read"
      /\ \A j \in Ids : rpc'[j] = IF j = i THEN "check" ELSE rpc[j]
      /\ chan \in Seq(Command) /\ ioCnt \in Int
      /\ UNCHANGED <<accepted, done, out, evpc, ioCnt>>
  <2>1. rpc[i] = "read" /\ rpc' = [rpc EXCEPT ![i] = "check"]
    BY DEF ReaderRead
  <2>2. /\ rpc \in [Ids -> {"none", "check", "read", "ended", "dead"}]
        /\ nread \in [Ids -> Nat] /\ chan \in Seq(Command) /\ ioCnt \in 0..MaxIo
    BY DEF RunInv, TypeOK, ReadersOK, ChannelsOK, ControlOK
  <2>3. UNCHANGED <<accepted, done, out, evpc, ioCnt>>
    BY DEF readerStutter, loopVars, eventVars, outputVars, callerVars
  <2>4. n \in Nat
    BY ReadAssumption
  <2> QED
    BY <2>1, <2>2, <2>3, <2>4
<1>3. CASE n = 0
  <2>1. UNCHANGED chan /\ \A j \in Ids : nread'[j] = nread[j]
    BY <1>1, <1>2, <1>3
  <2>2. nread' = nread
    BY <1>1, <1>2, <1>3
  <2>3. \A j \in Ids : Busy(j)' => Busy(j)
    BY <1>2 DEF Busy
  <2>4. \A j \in Ids : rpc'[j] = rpc[j] \/ rpc[j] \in {"check", "read"}
    BY <1>2
  <2>5. ioCnt' = ioCnt /\ ioCnt' >= ioCnt
    BY <1>2
  <2>6. \A j \in Ids : j > ioCnt' => rpc'[j] = rpc[j]
    <3>1. i <= ioCnt
      <4>1. ~(i > ioCnt)
        BY <1>2 DEF RunInv, FlowOK
      <4> QED
        BY <1>2, <4>1 DEF Ids
    <3> QED
      BY <1>2, <3>1 DEF Ids
  <2> QED
    BY <1>2, <2>1, <2>2, <2>3, <2>4, <2>5, <2>6, FlowRest
<1>4. CASE n # 0
  <2> DEFINE layers == [k \in 1..n |-> [src |-> i, seq |-> nread[i] + k]]
             d == PushFrames(i, layers)
  <2>1. layers \in Seq(Layer) /\ nread[i] \in Nat
    BY <1>2, ReadLayers
  <2>2. Len(layers) = n /\ DOMAIN layers = 1..n /\ 1 \in 1..n
    BY <1>2, <1>4, <2>1
  <2>3. \A k \in 1..n : layers[k].src = i /\ layers[k].seq = nread[i] + k
    OBVIOUS
  <2> HIDE DEF layers
  <2>4. /\ d \in Command /\ d.op = "PushFrames" /\ d.ok /\ d.id = i /\ d.layers = layers
    BY <2>1, CommandForms DEF PushFrames
  <2> HIDE DEF d
  <2>5. GoodRead(d)
    <3>1. layers # <<>>
      BY <2>2
    <3>2. \A k \in 1..n : /\ layers[k].seq \in Nat \ {0}
                            /\ layers[k].seq = layers[1].seq + k - 1
      <4>1. TAKE k \in 1..n
      <4>2. layers[k].seq = nread[i] + k /\ layers[1].seq = nread[i] + 1
        BY <2>2, <2>3
      <4>3. k \in Nat \ {0}
        BY <1>2
      <4> QED
        BY <2>1, <4>2, <4>3
    <3> QED
      BY <2>2, <2>3, <2>4, <3>1, <3>2 DEF GoodRead
  <2>6. chan' = Append(chan, d)
    BY <1>1, <1>4 DEF layers, d
  <2>7. \A j \in Ids : IsRead(d, j) <=> j = i
    BY <2>4 DEF IsRead
  <2>8. \A j \in Ids : ~IsAnswer(d, j)
    BY <2>4 DEF IsAnswer
  <2>9. ASSUME NEW j \in Ids, j # i PROVE FlowOK(j)'
    <3>1. nread'[j] = nread[j] /\ rpc'[j] = rpc[j] /\ done'[j] = done[j] /\ ioCnt' = ioCnt
      BY <1>1, <1>2, <2>9
    <3> QED
      BY <1>2, <2>4, <2>5, <2>6, <2>7, <2>8, <2>9, <3>1, FlowAppendOther
  <2>10. FlowOK(i)'
    <3>1. /\ Handover(Passed(chan, i), Cardinality(Own(accepted, i)), nread[i], TRUE)
          /\ ~Due(i) /\ ~(i > ioCnt)
      BY <1>2 DEF RunInv, FlowOK
    <3>2. /\ Answers(chan, i) = {} /\ ~Busy(i) /\ done[i] = <<>>
      BY <3>1 DEF Due
    <3>3. /\ Answers(chan', i) = {}
      BY <1>2, <2>4, <2>6, <2>7, <3>2, AnswerAppend
    <3>4. ~Busy(i)' /\ done'[i] = <<>> /\ ~Due(i)' /\ ~(i > ioCnt')
      BY <1>2, <3>1, <3>2, <3>3 DEF Busy, Due
    <3>5. AnsweredOnce(chan', i, Busy(i)', done'[i])
      BY <3>3, <3>4 DEF AnsweredOnce
    <3> DEFINE b == AsBatch(layers)
    <3>6. /\ b \in Batch /\ Whole(b) /\ First(b) <= Final(b) /\ Len(b) = n
          /\ First(b) = layers[1].seq - 1
      BY <2>2, <2>4, <2>5, ReadBatch
    <3>7. Passed(chan', i) = Append(Passed(chan, i), StoreFrames(b))
      <4>1. Pass(d, i) = StoreFrames(b)
        BY <2>4, <2>7 DEF Pass
      <4> QED
        BY <1>2, <2>4, <2>5, <2>6, <4>1, PassedAppend DEF RunInv
    <3> HIDE DEF b
    <3>8. /\ Passed(chan, i) \in Seq(Command)
          /\ \A p \in Handed(Passed(chan, i)) :
               First(Passed(chan, i)[p].frames) <= Final(Passed(chan, i)[p].frames)
      <4>1. \A p \in DOMAIN chan : GoodRead(chan[p])
        BY DEF RunInv
      <4> QED
        BY <1>2, <4>1, PassedType
    <3>9. First(b) = nread[i] /\ Final(b) + 1 = nread'[i]
      <4>1. layers[1].seq = nread[i] + 1
        BY <2>2, <2>3
      <4>2. First(b) = nread[i]
        BY <2>1, <3>6, <4>1
      <4>3. Final(b) = nread[i] + n - 1
        BY <3>6, <4>2 DEF Whole
      <4>4. nread'[i] = nread[i] + n
        BY <1>1, <1>2
      <4> QED
        BY <1>2, <2>1, <4>2, <4>3, <4>4
    <3>10. Cardinality(Own(accepted, i)) \in Nat
      BY OwnFinite DEF RunInv, TypeOK, FramesOK
    <3>11. Handover(Passed(chan', i), Cardinality(Own(accepted, i)), nread'[i], TRUE)
      BY <2>1, <3>1, <3>6, <3>7, <3>8, <3>9, <3>10, HandoverAppendStore
    <3>12. Handover(Passed(chan, i), Cardinality(Own(accepted, i)), nread[i], TRUE)'
      BY <1>2, <3>11
    <3> QED
      BY <3>4, <3>5, <3>12 DEF FlowOK
  <2>11. \A p \in DOMAIN chan' : GoodRead(chan'[p])
    BY <1>2, <2>4, <2>5, <2>6, PassedAppend DEF RunInv
  <2>12. ReaderOrder'
    BY <1>2 DEF RunInv, ReaderOrder
  <2> QED
    BY <2>9, <2>10, <2>11, <2>12 DEF RunInv
<1> QED
  BY <1>3, <1>4

\* A reader fails: its answer follows everything it returned.
LEMMA ReaderFailFlow ==
  ASSUME RunInv, NEW i \in Ids, ReaderFail(i), UNCHANGED readerStutter, TypeOK'
  PROVE  RunInv'
<1> DEFINE d == PushError(i)
<1>1. /\ rpc[i] = "read" /\ rpc' = [rpc EXCEPT ![i] = "ended"] /\ chan' = Append(chan, d)
      /\ UNCHANGED <<nread, accepted, done, out, evpc, ioCnt>>
  BY DEF ReaderFail, readerStutter, loopVars, eventVars, outputVars, callerVars
<1>2. /\ rpc \in [Ids -> {"none", "check", "read", "ended", "dead"}] /\ chan \in Seq(Command)
  BY DEF RunInv, TypeOK, ReadersOK, ChannelsOK
<1>3. d \in Command /\ d.op = "PushFrames" /\ ~d.ok /\ d.id = i
  BY CommandForms DEF PushError
<1> HIDE DEF d
<1>4. GoodRead(d) /\ \A j \in Ids : ~IsRead(d, j) /\ (IsAnswer(d, j) <=> j = i)
  BY <1>3 DEF GoodRead, IsRead, IsAnswer
<1>5. ASSUME NEW j \in Ids, j # i PROVE FlowOK(j)'
  <2>1. nread'[j] = nread[j] /\ rpc'[j] = rpc[j] /\ done'[j] = done[j] /\ ioCnt' = ioCnt
    BY <1>1, <1>2, <1>5
  <2> QED
    BY <1>1, <1>3, <1>4, <1>5, <2>1, FlowAppendOther
<1>6. FlowOK(i)'
  <2>1. /\ Handover(Passed(chan, i), Cardinality(Own(accepted, i)), nread[i], TRUE)
        /\ ~Due(i) /\ ~(i > ioCnt)
    BY <1>1 DEF RunInv, FlowOK
  <2>2. Answers(chan, i) = {} /\ ~Busy(i) /\ done[i] = <<>>
    BY <2>1 DEF Due
  <2>3. /\ Answers(chan', i) = {Len(chan) + 1} /\ Reads(chan', i) = Reads(chan, i)
        /\ \A q \in Reads(chan, i) : q < Len(chan) + 1
    BY <1>1, <1>2, <1>3, <1>4, <2>2, AnswerAppend
  <2>4. ~Busy(i)' /\ done'[i] = <<>> /\ ~(i > ioCnt') /\ rpc'[i] = "ended"
    BY <1>1, <1>2, <2>1, <2>2 DEF Busy
  <2>5. AnsweredOnce(chan', i, Busy(i)', done'[i])
    BY <2>3, <2>4 DEF AnsweredOnce
  <2>6. /\ Passed(chan', i) = Append(Passed(chan, i), Pass(d, i))
        /\ Passed(chan, i) \in Seq(Command)
    BY <1>1, <1>2, <1>3, <1>4, PassedAppend, PassedType DEF RunInv
  <2>7. Pass(d, i) \in Command /\ Pass(d, i).op # "StoreFrames"
    BY <1>3, <1>4, PassType
  <2>8. Handover(Passed(chan', i), Cardinality(Own(accepted, i)), nread[i], TRUE)
    BY <2>1, <2>6, <2>7, HandoverAppendOther
  <2>9. Handover(Passed(chan, i), Cardinality(Own(accepted, i)), nread[i], TRUE)'
    BY <1>1, <2>8
  <2> QED
    BY <2>4, <2>5, <2>9 DEF FlowOK
<1>7. \A p \in DOMAIN chan' : GoodRead(chan'[p])
  BY <1>1, <1>2, <1>3, <1>4, PassedAppend DEF RunInv
<1>8. ReaderOrder'
  BY <1>1 DEF RunInv, ReaderOrder
<1> QED
  BY <1>5, <1>6, <1>7, <1>8 DEF RunInv

\* A writer is created: nothing is known of its id yet.
LEMMA CreateWriterFlow ==
  ASSUME RunInv, CreateWriter, UNCHANGED callerStutter, TypeOK'
  PROVE  RunInv'
<1>1. PICK filter \in Filters \cup {NoFilter} : chan' = Append(chan, PushOutput(ioCnt', filter))
  BY DEF CreateWriter
<1>2. /\ ioCnt' = ioCnt + 1 /\ ioCnt < MaxIo
      /\ UNCHANGED <<rpc, nread, accepted, done, out, evpc>>
  BY DEF CreateWriter, callerStutter, loopVars, eventVars, outputVars
<1>3. ioCnt \in 0..MaxIo /\ chan \in Seq(Command)
  BY DEF RunInv, TypeOK, ControlOK, ChannelsOK
<1>4. PICK i \in Ids : i = ioCnt' /\ i > ioCnt /\ ~(i > ioCnt')
  BY <1>2, <1>3, MaxIoAssumption DEF Ids
<1> DEFINE d == PushOutput(i, filter)
<1>5. d \in Command /\ d.op = "PushOutput" /\ d.id = i
  BY <1>4, CommandForms DEF PushOutput
<1>6. chan' = Append(chan, d)
  BY <1>1, <1>4
<1> HIDE DEF d
<1>7. GoodRead(d) /\ \A j \in Ids : ~IsRead(d, j) /\ (IsAnswer(d, j) <=> j = i)
  BY <1>5 DEF GoodRead, IsRead, IsAnswer
<1>8. ASSUME NEW j \in Ids, j # i PROVE FlowOK(j)'
  <2>1. nread'[j] = nread[j] /\ rpc'[j] = rpc[j] /\ done'[j] = done[j]
    BY <1>2
  <2>2. j > ioCnt' => j > ioCnt
    BY <1>2, <1>3 DEF Ids
  <2> QED
    BY <1>2, <1>5, <1>6, <1>7, <1>8, <2>1, <2>2, FlowAppendOther
<1>9. FlowOK(i)'
  <2>1. /\ Handover(Passed(chan, i), Cardinality(Own(accepted, i)), nread[i], TRUE)
        /\ ~Due(i) /\ rpc[i] = "none"
    BY <1>4 DEF RunInv, FlowOK
  <2>2. Answers(chan, i) = {} /\ ~Busy(i) /\ done[i] = <<>>
    BY <2>1 DEF Due
  <2>3. /\ Answers(chan', i) = {Len(chan) + 1} /\ Reads(chan', i) = Reads(chan, i)
        /\ \A q \in Reads(chan, i) : q < Len(chan) + 1
    BY <1>3, <1>4, <1>5, <1>6, <1>7, <2>2, AnswerAppend
  <2>4. ~Busy(i)' /\ done'[i] = <<>> /\ rpc'[i] = "none"
    BY <1>2, <2>1, <2>2 DEF Busy
  <2>5. AnsweredOnce(chan', i, Busy(i)', done'[i])
    BY <2>3, <2>4 DEF AnsweredOnce
  <2>6. /\ Passed(chan', i) = Append(Passed(chan, i), Pass(d, i))
        /\ Passed(chan, i) \in Seq(Command)
    BY <1>3, <1>5, <1>6, <1>7, PassedAppend, PassedType DEF RunInv
  <2>7. Pass(d, i) \in Command /\ Pass(d, i).op # "StoreFrames"
    BY <1>4, <1>5, <1>7, PassType
  <2>8. Handover(Passed(chan', i), Cardinality(Own(accepted, i)), nread[i], TRUE)
    BY <2>1, <2>6, <2>7, HandoverAppendOther
  <2> QED
    BY <1>2, <1>4, <2>4, <2>5, <2>8 DEF FlowOK
<1>10. \A p \in DOMAIN chan' : GoodRead(chan'[p])
  BY <1>3, <1>5, <1>6, <1>7, PassedAppend DEF RunInv
<1>11. ReaderOrder'
  BY <1>2 DEF RunInv, ReaderOrder
<1> QED
  BY <1>8, <1>9, <1>10, <1>11 DEF RunInv

\* The event loop takes a command that is none of i.
LEMMA FlowTailOther ==
  ASSUME RunInv, chan # <<>>, chan' = Tail(chan),
         NEW i \in Ids, ~IsRead(Head(chan), i), ~IsAnswer(Head(chan), i),
         Own(accepted', i) = Own(accepted, i), UNCHANGED <<nread, rpc, ioCnt>>,
         done'[i] = done[i], Busy(i)' => Busy(i)
  PROVE  FlowOK(i)'
<1>1. /\ chan \in Seq(Command) /\ \A p \in DOMAIN chan : GoodRead(chan[p])
      /\ Handover(Passed(chan, i), Cardinality(Own(accepted, i)), nread[i], TRUE)
      /\ AnsweredOnce(chan, i, Busy(i), done[i])
  BY DEF RunInv, FlowOK, TypeOK, ChannelsOK
<1>2. Head(chan) \in Command /\ GoodRead(Head(chan))
  <2>1. Head(chan) = chan[1] /\ 1 \in DOMAIN chan /\ Head(chan) \in Command
    BY <1>1
  <2> QED
    BY <1>1, <2>1
<1>3. /\ Passed(chan', i) = Tail(Passed(chan, i)) /\ Passed(chan, i) # <<>>
      /\ Head(Passed(chan, i)).op # "StoreFrames" /\ Passed(chan, i) \in Seq(Command)
  BY <1>1, <1>2, PassedTail, PassedType, PassType
<1>4. Handover(Passed(chan', i), Cardinality(Own(accepted', i)), nread'[i], TRUE)
  BY <1>1, <1>3, HandoverTailOther
<1>5. AnsweredOnce(chan', i, Busy(i)', done'[i])
  BY <1>1, AnsweredTail
<1>6. Answers(chan', i) # {} => Answers(chan, i) # {}
  BY <1>1, AnswerTail
<1>7. /\ Due(i)' => Due(i)
      /\ Due(i) => rpc[i] \in {"none", "ended"}
      /\ i > ioCnt => rpc[i] = "none" /\ ~Due(i)
  BY <1>6 DEF RunInv, FlowOK, Due
<1> QED
  BY <1>4, <1>5, <1>7 DEF FlowOK

\* The log goes on with the frames of one reader.
LEMMA ReaderOrderMore ==
  ASSUME NEW log \in Seq(Frame), NEW more \in Seq(Frame), NEW i,
         \A k \in 1..Len(more) :
           more[k].src = i /\ more[k].seq = Cardinality(Own(log, i)) + k,
         \A k \in DOMAIN log : log[k].seq = Cardinality(Earlier(log, k, log[k].src)),
         NEW k \in DOMAIN (log \o more)
  PROVE  (log \o more)[k].seq = Cardinality(Earlier(log \o more, k, (log \o more)[k].src))
<1> DEFINE both == log \o more
<1>1. /\ Len(log) \in Nat /\ Len(more) \in Nat /\ k \in 1..Len(log) + Len(more)
      /\ \A j \in 1..Len(log) : both[j] = log[j]
      /\ \A j \in Len(log) + 1..Len(log) + Len(more) : both[j] = more[j - Len(log)]
      /\ DOMAIN log = 1..Len(log)
  BY ConcatProperties, LenProperties
<1> HIDE DEF both
<1>2. CASE k \in 1..Len(log)
  <2>1. both[k] = log[k] /\ \A j \in 1..k : both[j] = log[j]
    BY <1>1, <1>2
  <2>2. Earlier(both, k, both[k].src) = Earlier(log, k, log[k].src)
    BY <2>1 DEF Earlier
  <2>3. both[k].seq = Cardinality(Earlier(both, k, both[k].src))
    BY <1>1, <1>2, <2>1, <2>2
  <2> QED
    BY <2>3 DEF both
<1>3. CASE k \notin 1..Len(log)
  <2>1. PICK n \in 1..Len(more) : k = Len(log) + n
    <3>1. k - Len(log) \in 1..Len(more) /\ k = Len(log) + (k - Len(log))
      BY <1>1, <1>3
    <3> QED
      BY <3>1
  <2>2. both[k] = more[n]
    <3>1. k \in Len(log) + 1..Len(log) + Len(more) /\ k - Len(log) = n
      BY <1>1, <2>1
    <3> QED
      BY <1>1, <3>1
  <2>3. both[k].src = i /\ both[k].seq = Cardinality(Own(log, i)) + n
    BY <2>2
  <2>4. n \in 0..Len(more)
    BY <1>1
  <2>5. Cardinality(Earlier(both, Len(log) + n, i)) = Cardinality(Own(log, i)) + n
    BY <2>4, OwnMore DEF both
  <2>6. both[k].seq = Cardinality(Earlier(both, k, both[k].src))
    BY <2>1, <2>3, <2>5
  <2> QED
    BY <2>6 DEF both
<1> QED
  BY <1>2, <1>3

\* The frames made of a read are those of its reader, with the same numbers.
LEMMA NumberedRead ==
  ASSUME NEW c \in Command, GoodRead(c), c.op = "PushFrames", c.ok, NEW n \in Nat, NEW more,
         more = [k \in 1..Len(c.layers) |-> NewFrame(n + k - 1, c.layers[k])]
  PROVE  /\ more \in Seq(Frame) /\ Len(more) = Len(c.layers)
         /\ \A k \in 1..Len(more) : more[k].src = c.id /\ more[k].seq = c.layers[1].seq + k - 1
<1> DEFINE layers == c.layers
<1>1. layers \in Seq(Layer) /\ Len(layers) \in Nat \ {0} /\ DOMAIN layers = 1..Len(layers)
  BY ReadBatch
<1>2. \A k \in 1..Len(layers) : layers[k].src = c.id /\ layers[k].seq = layers[1].seq + k - 1
  BY <1>1 DEF GoodRead
<1> HIDE DEF layers
<1>3. more = [k \in 1..Len(layers) |-> NewFrame(n + k - 1, layers[k])]
  BY DEF layers
<1>4. more \in Seq(Frame) /\ Len(more) = Len(layers)
  <2>1. more \in Seq(Frame)
    BY <1>1, <1>3, NumberedFrames
  <2>2. DOMAIN more = 1..Len(layers)
    BY <1>3
  <2> QED
    BY <1>1, <2>1, <2>2
<1>5. \A k \in 1..Len(layers) : more[k].src = layers[k].src /\ more[k].seq = layers[k].seq
  BY <1>3 DEF NewFrame
<1> QED
  BY <1>2, <1>4, <1>5 DEF layers

\* process_input numbers a read of a reader: it is the next one of that reader.
LEMMA ProcessInputFlow ==
  ASSUME RunInv, ProcessInput, UNCHANGED loopStutter, TypeOK'
  PROVE  RunInv'
<1> DEFINE c == Head(chan)
           n == Len(c.layers)
<1>1. /\ chan \in Seq(Command) /\ chan # <<>> /\ chan' = Tail(chan) /\ evpc = "loop"
      /\ c.op = "PushFrames" /\ c.ok /\ evpc' = "loop"
      /\ accepted' = accepted \o [k \in 1..n |-> NewFrame(cnt + k - 1, c.layers[k])]
      /\ UNCHANGED <<nread, rpc, ioCnt, done>>
  BY DEF RunInv, TypeOK, ChannelsOK, ProcessInput, Received, Numbered, FiltersDue,
     loopStutter, inputVars, callerVars, eventVars
<1>2. c \in Command /\ GoodRead(c)
  <2>1. Head(chan) = chan[1] /\ 1 \in DOMAIN chan /\ Head(chan) \in Command
    BY <1>1
  <2> QED
    BY <2>1 DEF RunInv
<1>3. cnt \in Nat /\ accepted \in Seq(Frame) /\ c.id \in Ids
  BY <1>1, <1>2, CommandFields DEF RunInv, TypeOK, FramesOK
<1>4. PICK i \in Ids, log \in Seq(Frame) : i = c.id /\ log = accepted
  BY <1>3
<1> DEFINE b == AsBatch(c.layers)
           len == Cardinality(Own(log, i))
<1>5. /\ n \in Nat \ {0} /\ b \in Batch /\ Len(b) = n
      /\ First(b) = c.layers[1].seq - 1 /\ First(b) \in Nat /\ Whole(b)
  BY <1>1, <1>2, ReadBatch, BatchEnds
<1>6. PICK more \in Seq(Frame) :
        /\ accepted' = log \o more /\ Len(more) = n
        /\ \A k \in 1..Len(more) : more[k].src = i /\ more[k].seq = c.layers[1].seq + k - 1
  <2> DEFINE frames == [k \in 1..n |-> NewFrame(cnt + k - 1, c.layers[k])]
  <2>1. /\ frames \in Seq(Frame) /\ Len(frames) = n
        /\ \A k \in 1..Len(frames) :
             frames[k].src = c.id /\ frames[k].seq = c.layers[1].seq + k - 1
    BY <1>1, <1>2, <1>3, NumberedRead
  <2>2. accepted' = log \o frames
    BY <1>1, <1>4
  <2> HIDE DEF frames
  <2> QED
    BY <1>4, <2>1, <2>2
<1> HIDE DEF b
<1>7. /\ Passed(chan', i) = Tail(Passed(chan, i)) /\ Passed(chan, i) # <<>>
      /\ Head(Passed(chan, i)) = StoreFrames(b) /\ Passed(chan, i) \in Seq(Command)
  <2>1. Pass(c, i) = StoreFrames(b)
    BY <1>1, <1>4 DEF Pass, IsRead, b
  <2> QED
    BY <1>1, <2>1, PassedTail, PassedType DEF RunInv
<1>8. /\ Handover(Passed(chan, i), len, nread[i], TRUE)
      /\ AnsweredOnce(chan, i, Busy(i), done[i])
      /\ Due(i) => rpc[i] \in {"none", "ended"}
      /\ i > ioCnt => rpc[i] = "none" /\ ~Due(i)
      /\ nread[i] \in Nat
  BY <1>4 DEF RunInv, FlowOK, TypeOK, ReadersOK
<1>9. len \in Nat
  BY OwnFinite
<1> HIDE DEF len
<1>10. First(b) = len /\ Handover(Passed(chan', i), len + n, nread[i], TRUE)
  <2> DEFINE s == Passed(chan, i)
  <2>1. StoreFrames(b).op = "StoreFrames" /\ StoreFrames(b).frames = b
    BY DEF StoreFrames
  <2>2. Head(s).op = "StoreFrames" /\ Head(s).frames = b
    BY <1>7, <2>1
  <2> HIDE DEF s
  <2>3. First(Head(s).frames) = len /\ Handover(Tail(s), len + Len(Head(s).frames), nread[i], TRUE)
    BY <1>5, <1>7, <1>8, <1>9, <2>2, HandoverTailStore DEF s
  <2> QED
    BY <1>5, <1>7, <2>2, <2>3 DEF s
<1>11. \A k \in 1..Len(more) : more[k].src = i /\ more[k].seq = Cardinality(Own(log, i)) + k
  <2>1. TAKE k \in 1..Len(more)
  <2>2. more[k].src = i /\ more[k].seq = c.layers[1].seq + k - 1
    BY <1>6
  <2>3. k \in Nat /\ c.layers[1].seq - 1 = len
    BY <1>5, <1>6, <1>10
  <2>4. c.layers[1].seq \in Nat
    BY <1>1, <1>2, <1>5 DEF GoodRead
  <2>5. more[k].seq = len + k
    <3> DEFINE at == c.layers[1].seq
               seq == more[k].seq
    <3>1. seq = at + k - 1 /\ k \in Nat /\ at - 1 = len /\ at \in Nat
      BY <2>2, <2>3, <2>4
    <3> HIDE DEF at, seq
    <3>2. seq = len + k
      BY <1>9, <3>1
    <3> QED
      BY <3>2 DEF seq
  <2> QED
    BY <2>2, <2>5 DEF len
<1>12. \A k \in 1..Len(more) : more[k].src = i
  BY <1>11
<1>13. ReaderOrder'
  <2>1. \A k \in DOMAIN log : log[k].seq = Cardinality(Earlier(log, k, log[k].src))
    BY <1>4 DEF RunInv, ReaderOrder, Earlier
  <2>2. \A k \in DOMAIN (log \o more) :
          (log \o more)[k].seq = Cardinality(Earlier(log \o more, k, (log \o more)[k].src))
    BY <1>11, <2>1, ReaderOrderMore
  <2>3. \A k \in DOMAIN accepted' :
          accepted'[k].seq = Cardinality(Earlier(accepted', k, accepted'[k].src))
    BY <1>6, <2>2
  <2> QED
    BY <2>3 DEF ReaderOrder, Earlier
<1>14. \A p \in DOMAIN chan' : GoodRead(chan'[p])
  BY <1>1, PassedTail DEF RunInv
<1>15. ASSUME NEW j \in Ids, j # i PROVE FlowOK(j)'
  <2>1. ~IsRead(c, j) /\ ~IsAnswer(c, j)
    BY <1>1, <1>4, <1>15 DEF IsRead, IsAnswer
  <2>2. Own(accepted', j) = Own(accepted, j)
    <3>1. \A k \in 1..Len(more) : more[k].src # j
      BY <1>12, <1>15
    <3>2. Own(log \o more, j) = Own(log, j)
      BY <3>1, OwnOther
    <3> QED
      BY <1>4, <1>6, <3>2
  <2>3. Busy(j)' => Busy(j)
    BY <1>1 DEF Busy
  <2> QED
    BY <1>1, <2>1, <2>2, <2>3, FlowTailOther
<1>16. FlowOK(i)'
  <2>1. Cardinality(Own(accepted', i)) = len + n
    <3>1. DOMAIN (log \o more) = 1..Len(log) + Len(more)
      OBVIOUS
    <3>2. Own(log \o more, i) = Earlier(log \o more, Len(log) + Len(more), i)
      BY <3>1 DEF Own, Earlier
    <3>3. Len(more) \in 0..Len(more)
      BY LenProperties
    <3>4. Cardinality(Own(log \o more, i)) = Cardinality(Own(log, i)) + Len(more)
      BY <1>12, <3>2, <3>3, OwnMore
    <3> QED
      BY <1>6, <3>4 DEF len
  <2>2. Handover(Passed(chan', i), Cardinality(Own(accepted', i)), nread'[i], TRUE)
    BY <1>1, <1>10, <2>1
  <2>3. ~Busy(i)' /\ ~Busy(i) /\ done'[i] = done[i]
    BY <1>1 DEF Busy
  <2>4. AnsweredOnce(chan', i, Busy(i)', done'[i])
    BY <1>1, <1>8, <2>3, AnsweredTail
  <2>5. Due(i)' => Due(i)
    <3>1. Answers(chan', i) # {} => Answers(chan, i) # {}
      BY <1>1, AnswerTail
    <3> QED
      BY <2>3, <3>1 DEF Due
  <2> QED
    BY <1>1, <1>8, <2>2, <2>4, <2>5 DEF FlowOK
<1> QED
  BY <1>13, <1>14, <1>15, <1>16 DEF RunInv

\* What an answer taken or given leaves of i.
LEMMA AnsweredNow ==
  ASSUME NEW c, NEW i, NEW busy, NEW told \in Seq({"ok", "err"}), Answers(c, i) = {},
         Reads(c, i) = {}, busy => told = <<>>, Len(told) <= 1
  PROVE  AnsweredOnce(c, i, busy, told)
  BY DEF AnsweredOnce

\* The event loop takes an answer: that of a reader is given at once, that of a
\* writer when its output is written.
LEMMA AnswerTaken ==
  ASSUME RunInv, TypeOK', chan # <<>>, chan' = Tail(chan), NEW i \in Ids,
         IsAnswer(Head(chan), i), evpc = "loop", UNCHANGED <<accepted, nread, rpc, ioCnt>>,
         \/ Busy(i)' /\ done'[i] = done[i]
         \/ ~Busy(i)' /\ \E result \in {"ok", "err"} : done'[i] = Append(done[i], result)
  PROVE  FlowOK(i)'
<1>1. /\ chan \in Seq(Command) /\ \A p \in DOMAIN chan : GoodRead(chan[p])
      /\ Handover(Passed(chan, i), Cardinality(Own(accepted, i)), nread[i], TRUE)
      /\ AnsweredOnce(chan, i, Busy(i), done[i])
      /\ Due(i) => rpc[i] \in {"none", "ended"}
      /\ i > ioCnt => rpc[i] = "none" /\ ~Due(i)
  BY DEF RunInv, FlowOK, TypeOK, ChannelsOK
<1>2. Head(chan) \in Command /\ GoodRead(Head(chan)) /\ ~IsRead(Head(chan), i)
  <2>1. Head(chan) = chan[1] /\ 1 \in DOMAIN chan /\ Head(chan) \in Command
    BY <1>1
  <2> QED
    BY <1>1, <2>1 DEF IsRead, IsAnswer
<1>3. /\ Passed(chan', i) = Tail(Passed(chan, i)) /\ Passed(chan, i) # <<>>
      /\ Head(Passed(chan, i)).op # "StoreFrames" /\ Passed(chan, i) \in Seq(Command)
  BY <1>1, <1>2, PassedTail, PassedType, PassType
<1>4. Handover(Passed(chan', i), Cardinality(Own(accepted', i)), nread'[i], TRUE)
  BY <1>1, <1>3, HandoverTailOther
<1>5. Answers(chan', i) = {} /\ Reads(chan', i) = {} /\ done[i] = <<>> /\ 1 \in Answers(chan, i)
  <2>1. /\ Answers(Tail(chan), i) = {} /\ Reads(Tail(chan), i) = {} /\ done[i] = <<>>
    BY <1>1, AnsweredTaken
  <2>2. 1 \in Answers(chan, i)
    BY <1>1, AnswerTail
  <2> QED
    BY <2>1, <2>2
<1>6. done'[i] \in Seq({"ok", "err"}) /\ Len(done'[i]) <= 1 /\ (Busy(i)' => done'[i] = <<>>)
  <2>1. CASE Busy(i)' /\ done'[i] = done[i]
    <3>1. done'[i] = <<>> /\ Len(<<>>) = 0
      BY <1>5, <2>1
    <3> QED
      BY <3>1, EmptySeq
  <2>2. ASSUME ~Busy(i)', NEW result \in {"ok", "err"}, done'[i] = Append(done[i], result)
        PROVE  done'[i] \in Seq({"ok", "err"}) /\ Len(done'[i]) <= 1
    <3>1. done'[i] = <<result>>
      BY <1>5, <2>2
    <3> QED
      BY <3>1
  <2> QED
    BY <2>1, <2>2
<1>7. AnsweredOnce(chan', i, Busy(i)', done'[i])
  BY <1>5, <1>6, AnsweredNow
<1>8. Due(i)
  BY <1>5 DEF Due
<1> QED
  BY <1>1, <1>4, <1>7, <1>8 DEF FlowOK

\* A reader's error is taken and reported.
LEMMA ProcessInputErrorFlow ==
  ASSUME RunInv, ProcessInputError, UNCHANGED loopStutter, TypeOK'
  PROVE  RunInv'
<1> DEFINE c == Head(chan)
<1>1. /\ chan \in Seq(Command) /\ chan # <<>> /\ chan' = Tail(chan) /\ evpc = "loop"
      /\ c.op = "PushFrames" /\ ~c.ok /\ evpc' = "loop" /\ c \in Command
      /\ done' = [done EXCEPT ![c.id] = Append(@, "err")]
      /\ done \in [Ids -> Seq({"ok", "err"})]
      /\ UNCHANGED <<accepted, nread, rpc, ioCnt>>
  BY DEF RunInv, TypeOK, ChannelsOK, ControlOK, ProcessInputError, Received, FiltersDue,
     loopStutter, inputVars, callerVars, loopVars
<1>2. PICK i \in Ids : i = c.id
  BY <1>1, CommandFields
<1>3. \A j \in Ids : ~IsRead(c, j) /\ (IsAnswer(c, j) <=> j = i) /\ ~Busy(j)'
  BY <1>1, <1>2 DEF IsRead, IsAnswer, Busy
<1>4. ASSUME NEW j \in Ids, j # i PROVE FlowOK(j)'
  <2>1. done'[j] = done[j]
    BY <1>1, <1>2, <1>4
  <2> QED
    BY <1>1, <1>3, <1>4, <2>1, FlowTailOther
<1>5. FlowOK(i)'
  <2>1. done'[i] = Append(done[i], "err")
    BY <1>1, <1>2
  <2> QED
    BY <1>1, <1>3, <2>1, AnswerTaken
<1>6. ReaderOrder' /\ \A p \in DOMAIN chan' : GoodRead(chan'[p])
  BY <1>1, PassedTail DEF RunInv, ReaderOrder
<1> QED
  BY <1>4, <1>5, <1>6 DEF RunInv

\* The output of a writer is taken.
LEMMA ProcessOutputFlow ==
  ASSUME RunInv, ProcessOutput, UNCHANGED loopStutter, TypeOK'
  PROVE  RunInv'
<1> DEFINE c == Head(chan)
<1>1. /\ chan \in Seq(Command) /\ chan # <<>> /\ chan' = Tail(chan) /\ evpc = "loop"
      /\ c.op = "PushOutput" /\ evpc' = "output" /\ c \in Command /\ out'.id = c.id
      /\ UNCHANGED <<accepted, nread, rpc, ioCnt, done>>
  BY DEF RunInv, TypeOK, ChannelsOK, ProcessOutput, Received,
     loopStutter, inputVars, callerVars, loopVars, eventVars
<1>2. PICK i \in Ids : i = c.id
  BY <1>1, CommandFields
<1>3. \A j \in Ids : ~IsRead(c, j) /\ (IsAnswer(c, j) <=> j = i) /\ (Busy(j)' <=> j = i)
  BY <1>1, <1>2 DEF IsRead, IsAnswer, Busy
<1>4. ASSUME NEW j \in Ids, j # i PROVE FlowOK(j)'
  BY <1>1, <1>3, <1>4, FlowTailOther
<1>5. FlowOK(i)'
  BY <1>1, <1>3, AnswerTaken
<1>6. ReaderOrder' /\ \A p \in DOMAIN chan' : GoodRead(chan'[p])
  BY <1>1, PassedTail DEF RunInv, ReaderOrder
<1> QED
  BY <1>4, <1>5, <1>6 DEF RunInv

\* The output of a writer ends, well or not: it is told.
LEMMA FinishedFlow ==
  ASSUME RunInv, OutputWriteError \/ OutputFinish, UNCHANGED loopStutter, TypeOK'
  PROVE  RunInv'
<1>1. PICK result \in {"ok", "err"} :
        /\ evpc = "output" /\ evpc' = "loop" /\ done' = [done EXCEPT ![out.id] = Append(@, result)]
        /\ UNCHANGED <<chan, accepted, nread, rpc, ioCnt>>
  BY DEF OutputWriteError, OutputFinish, Finished, FiltersDue, loopStutter, inputVars, loopVars,
     callerVars
<1>2. PICK i \in Ids : i = out.id /\ done \in [Ids -> Seq({"ok", "err"})]
  BY <1>1 DEF RunInv, TypeOK, ControlOK
<1>3. \A j \in Ids : ~Busy(j)' /\ (Busy(j) <=> j = i)
  BY <1>1, <1>2 DEF Busy
<1>4. ASSUME NEW j \in Ids PROVE FlowOK(j)'
  <2>1. /\ Handover(Passed(chan, j), Cardinality(Own(accepted, j)), nread[j], TRUE)
        /\ AnsweredOnce(chan, j, Busy(j), done[j])
        /\ Due(j) => rpc[j] \in {"none", "ended"}
        /\ j > ioCnt => rpc[j] = "none" /\ ~Due(j)
    BY DEF RunInv, FlowOK
  <2>2. Handover(Passed(chan', j), Cardinality(Own(accepted', j)), nread'[j], TRUE)
    BY <1>1, <2>1
  <2>3. CASE j # i
    <3>1. done'[j] = done[j] /\ (Busy(j)' <=> Busy(j))
      BY <1>1, <1>2, <1>3, <2>3
    <3>2. AnsweredOnce(chan', j, Busy(j)', done'[j]) /\ (Due(j)' <=> Due(j))
      BY <1>1, <2>1, <3>1 DEF AnsweredOnce, Due
    <3> QED
      BY <1>1, <2>1, <2>2, <3>2 DEF FlowOK
  <2>4. CASE j = i
    <3>1. /\ Answers(chan', j) = {} /\ Reads(chan', j) = {} /\ done[j] = <<>>
      BY <1>1, <1>3, <2>1, <2>4 DEF AnsweredOnce
    <3>2. done'[j] = <<result>>
      BY <1>1, <1>2, <2>4, <3>1
    <3>3. done'[j] \in Seq({"ok", "err"}) /\ Len(done'[j]) <= 1
      BY <3>2
    <3>4. AnsweredOnce(chan', j, Busy(j)', done'[j])
      BY <1>3, <3>1, <3>3, AnsweredNow
    <3>5. Due(j)
      BY <1>3, <2>4 DEF Due
    <3> QED
      BY <1>1, <2>1, <2>2, <3>4, <3>5 DEF FlowOK
  <2> QED
    BY <2>3, <2>4
<1>5. ReaderOrder' /\ \A p \in DOMAIN chan' : GoodRead(chan'[p])
  BY <1>1 DEF RunInv, ReaderOrder
<1> QED
  BY <1>4, <1>5 DEF RunInv

\* The steps of FlowRest that concern no reader's thread.
LEMMA FlowStill ==
  ASSUME RunInv, TypeOK', UNCHANGED <<accepted, nread, done, rpc, ioCnt>>,
         \/ UNCHANGED chan
         \/ \E d \in Command : Inert(d) /\ chan' = Append(chan, d)
         \/ chan # <<>> /\ Inert(Head(chan)) /\ chan' = Tail(chan),
         evpc' = "output" => evpc = "output" /\ out'.id = out.id
  PROVE  RunInv'
<1>1. ioCnt \in Nat
  BY MaxIoAssumption DEF RunInv, TypeOK, ControlOK
<1>2. \A i \in Ids : Busy(i)' => Busy(i)
  BY DEF Busy
<1> QED
  BY <1>1, <1>2, FlowRest

LEMMA WorkerFlow ==
  ASSUME RunInv, NEW w \in Workers, Worker(w)
  PROVE  RunInv'
<1>1. TypeOK' /\ UNCHANGED <<accepted, nread, done, rpc, ioCnt, evpc, out>>
  BY WorkerType DEF RunInv, Worker, poolStutter, inputVars, loopVars, eventVars, callerVars,
     outputVars
<1>2. CASE WorkerRecv(w)
  BY <1>1, <1>2, FlowStill DEF WorkerRecv
<1>3. CASE WorkerDone(w)
  <2>1. wk[w].frames \in Batch
    BY <1>3 DEF RunInv, TypeOK, PoolsOK, WorkerDone, Batch
  <2>2. PushSerialFrames(wk[w].frames) \in Command /\ Inert(PushSerialFrames(wk[w].frames))
    BY <2>1, CommandForms DEF Inert, PushSerialFrames
  <2> QED
    BY <1>1, <1>3, <2>2, FlowStill DEF WorkerDone
<1> QED
  BY <1>2, <1>3 DEF Worker

LEMMA SerialFlow ==
  ASSUME RunInv, Serial
  PROVE  RunInv'
<1>1. TypeOK' /\ UNCHANGED <<accepted, nread, done, rpc, ioCnt, evpc, out>>
  BY SerialType DEF RunInv, Serial, poolStutter, inputVars, loopVars, eventVars, callerVars,
     outputVars
<1>2. CASE SerialRecv \/ SerialWait
  BY <1>1, <1>2, FlowStill DEF SerialRecv, SerialWait
<1>3. CASE SerialDrain
  <2>1. smap[snext] \in Batch
    BY <1>3 DEF RunInv, TypeOK, PoolsOK, SerialDrain
  <2>2. StoreFrames(smap[snext]) \in Command /\ Inert(StoreFrames(smap[snext]))
    BY <2>1, CommandForms DEF Inert, StoreFrames
  <2> QED
    BY <1>1, <1>3, <2>2, FlowStill DEF SerialDrain
<1> QED
  BY <1>2, <1>3 DEF Serial

\* A reader's thread goes on, ends or dies without a word: no answer of it is
\* on its way.
LEMMA ReaderMoves ==
  ASSUME RunInv, TypeOK', NEW i \in Ids, rpc[i] \in {"check", "read"},
         NEW where, rpc' = [rpc EXCEPT ![i] = where],
         UNCHANGED <<chan, accepted, nread, done, ioCnt, evpc, out>>
  PROVE  RunInv'
<1>1. ioCnt \in Nat /\ rpc \in [Ids -> {"none", "check", "read", "ended", "dead"}]
  BY MaxIoAssumption DEF RunInv, TypeOK, ControlOK, ReadersOK
<1>2. \A j \in Ids : Busy(j)' => Busy(j)
  BY DEF Busy
<1>3. ~(i > ioCnt)
  BY DEF RunInv, FlowOK
<1>4. \A j \in Ids : /\ rpc'[j] = rpc[j] \/ rpc[j] \in {"check", "read"} \/ j > ioCnt
                     /\ j > ioCnt' => rpc'[j] = rpc[j]
  BY <1>1, <1>3
<1> QED
  BY <1>1, <1>2, <1>4, FlowRest

LEMMA ReaderFlow ==
  ASSUME RunInv, NEW i \in Ids, Reader(i)
  PROVE  RunInv'
<1>1. TypeOK' /\ UNCHANGED readerStutter /\ UNCHANGED <<accepted, done, ioCnt, evpc, out>>
  BY ReaderType DEF RunInv, Reader, readerStutter, loopVars, eventVars, callerVars, outputVars
<1>2. CASE ReaderCheck(i)
  BY <1>1, <1>2, ReaderMoves DEF ReaderCheck
<1>3. CASE ReaderRead(i)
  BY <1>1, <1>3, ReaderReadFlow
<1>4. CASE ReaderFail(i)
  BY <1>1, <1>4, ReaderFailFlow
<1> QED
  BY <1>2, <1>3, <1>4 DEF Reader

LEMMA EventLoopFlow ==
  ASSUME RunInv, EventLoop, ~LoopExit
  PROVE  RunInv'
<1>0. /\ TypeOK' /\ UNCHANGED loopStutter /\ UNCHANGED <<nread, rpc, ioCnt>>
      /\ chan \in Seq(Command)
  BY EventLoopType DEF RunInv, EventLoop, loopStutter, inputVars, callerVars, TypeOK, ChannelsOK
<1>1. CASE ProcessInput
  BY <1>0, <1>1, ProcessInputFlow
<1>2. CASE ProcessInputError
  BY <1>0, <1>2, ProcessInputErrorFlow
<1>3. CASE ProcessOutput
  BY <1>0, <1>3, ProcessOutputFlow
<1>4. CASE OutputWriteError \/ OutputFinish
  BY <1>0, <1>4, FinishedFlow
<1>5. CASE ProcessSerial \/ ProcessStore \/ ProcessPushFilter \/ ProcessRemoveFilter \/ ProcessClose
  <2>1. chan # <<>> /\ Inert(Head(chan)) /\ chan' = Tail(chan)
    BY <1>5 DEF ProcessSerial, ProcessStore, ProcessPushFilter, ProcessRemoveFilter, ProcessClose,
       Received, Inert
  <2>2. UNCHANGED <<accepted, done>> /\ evpc' # "output"
    BY <1>5 DEF ProcessSerial, ProcessStore, ProcessPushFilter, ProcessRemoveFilter, ProcessClose,
       FiltersDue, loopVars, eventVars
  <2> QED
    BY <1>0, <2>1, <2>2, FlowStill
<1>6. CASE AnnounceFrames \/ UnlinkFiltered \/ AnnounceFiltered
  <2>1. UNCHANGED <<chan, accepted, done>> /\ evpc' # "output"
    BY <1>6 DEF AnnounceFrames, UnlinkFiltered, AnnounceFiltered, FiltersDue, loopVars, eventVars
  <2> QED
    BY <1>0, <2>1, FlowStill
<1>7. ASSUME NEW id \in FilterIds, ScanFilter(id) PROVE RunInv'
  <2>1. UNCHANGED <<chan, accepted, done>> /\ evpc' # "output"
    BY <1>7 DEF ScanFilter, loopVars, eventVars
  <2> QED
    BY <1>0, <2>1, FlowStill
<1>8. CASE OutputWrite
  <2>1. UNCHANGED <<chan, accepted, done, evpc>> /\ out' = [out EXCEPT !.offset = OutputEnd]
    BY <1>8 DEF OutputWrite, loopVars, eventVars
  <2>2. out'.id = out.id
    BY <2>1 DEF RunInv, TypeOK, ViewsOK
  <2> QED
    BY <1>0, <2>1, <2>2, FlowStill
<1>9. CASE DropSerial \/ JoinSerial \/ DropParallel \/ JoinParallel
  <2>1. UNCHANGED <<chan, accepted, done>> /\ evpc' # "output"
    BY <1>9 DEF DropSerial, JoinSerial, DropParallel, JoinParallel, JoinPanics, loopVars, eventVars
  <2> QED
    BY <1>0, <2>1, FlowStill
<1> QED
  BY <1>1, <1>2, <1>3, <1>4, <1>5, <1>6, <1>7, <1>8, <1>9 DEF EventLoop

LEMMA CallerFlow ==
  ASSUME RunInv, Caller
  PROVE  RunInv'
<1>1. /\ TypeOK' /\ UNCHANGED callerStutter /\ UNCHANGED <<accepted, nread, done, evpc, out>>
      /\ ioCnt \in 0..MaxIo /\ rpc \in [Ids -> {"none", "check", "read", "ended", "dead"}]
  BY CallerType DEF RunInv, Caller, callerStutter, loopVars, eventVars, outputVars, TypeOK,
     ControlOK, ReadersOK
<1>2. CASE CreateReader
  <2>1. UNCHANGED chan /\ ioCnt' = ioCnt + 1 /\ rpc' = [rpc EXCEPT ![ioCnt'] = "check"]
    BY <1>2 DEF CreateReader
  <2>2. \A i \in Ids : Busy(i)' => Busy(i)
    BY <1>1 DEF Busy
  <2>3. ioCnt \in Nat
    BY <1>1, MaxIoAssumption
  <2>4. \A i \in Ids : rpc'[i] = rpc[i] \/ i = ioCnt + 1
    BY <1>1, <2>1
  <2>5. \A i \in Ids : /\ rpc'[i] = rpc[i] \/ rpc[i] \in {"check", "read"} \/ i > ioCnt
                       /\ i > ioCnt' => rpc'[i] = rpc[i]
    BY <2>1, <2>3, <2>4
  <2>6. ioCnt' >= ioCnt
    BY <2>1, <2>3
  <2> QED
    BY <1>1, <2>1, <2>2, <2>5, <2>6, FlowRest
<1>3. CASE CreateWriter
  BY <1>1, <1>3, CreateWriterFlow
<1>4. CASE CreateFails
  <2>1. UNCHANGED <<chan, rpc>> /\ ioCnt' = ioCnt + 1
    BY <1>4 DEF CreateFails
  <2>2. \A i \in Ids : Busy(i)' => Busy(i)
    BY <1>1 DEF Busy
  <2>3. ioCnt' >= ioCnt
    BY <1>1, <2>1
  <2> QED
    BY <1>1, <2>1, <2>2, <2>3, FlowRest
<1>5. ASSUME NEW i \in Ids, CloseReader(i) PROVE RunInv'
  BY <1>1, <1>5, FlowStill DEF CloseReader
<1>6. CASE CallSetFilter
  <2>1. PICK id \in FilterIds, filter \in Filters \cup {NoFilter} :
          chan' = Append(chan, SetFilter(id, filter))
    BY <1>6 DEF CallSetFilter
  <2>2. SetFilter(id, filter) \in Command /\ Inert(SetFilter(id, filter))
    BY CommandForms DEF SetFilter, Inert
  <2> QED
    BY <1>1, <1>6, <2>1, <2>2, FlowStill DEF CallSetFilter
<1>7. CASE DropLoop
  <2>1. Close \in Command /\ Inert(Close)
    BY CommandForms DEF Close, Inert
  <2> QED
    BY <1>1, <1>7, <2>1, FlowStill DEF DropLoop
<1> QED
  BY <1>2, <1>3, <1>4, <1>5, <1>6, <1>7 DEF Caller

LEMMA DropFlow ==
  ASSUME RunInv, Drop
  PROVE  RunInv'
<1>1. /\ TypeOK' /\ UNCHANGED <<accepted, nread, done, evpc, out>>
  BY DropType DEF RunInv, Drop, callerStutter, loopVars, eventVars, outputVars
<1>2. UNCHANGED <<chan, rpc, ioCnt>>
  BY DEF Drop, JoinLoop, DropInput, JoinInput, Closed
<1> QED
  BY <1>1, <1>2, FlowStill

LEMMA PanicFlow ==
  ASSUME RunInv, Panic
  PROVE  RunInv'
<1>0. TypeOK'
  BY PanicType DEF RunInv
<1>1. ASSUME NEW w \in Workers, WorkerPanic(w), UNCHANGED <<serialVars, poolStutter>>
      PROVE  RunInv'
  BY <1>0, <1>1, FlowStill DEF WorkerPanic, poolStutter, inputVars, loopVars, eventVars, callerVars,
     outputVars
<1>2. ASSUME SerialPanic, UNCHANGED <<parallelVars, poolStutter>>
      PROVE  RunInv'
  BY <1>0, <1>2, FlowStill DEF SerialPanic, poolStutter, inputVars, loopVars, eventVars, callerVars,
     outputVars
<1>3. ASSUME NEW i \in Ids, ReaderPanic(i), UNCHANGED readerStutter
      PROVE  RunInv'
  BY <1>0, <1>3, ReaderMoves DEF ReaderPanic, readerStutter, loopVars, eventVars, callerVars,
     outputVars
<1>4. CASE PluginPanic
  BY <1>0, <1>4, FlowStill DEF PluginPanic, inputVars, loopVars, eventVars, callerVars
<1> QED
  BY <1>1, <1>2, <1>3, <1>4 DEF Panic

LEMMA NextRun ==
  ASSUME RunInv, [Next]_vars, ~LoopExit
  PROVE  RunInv'
<1>1. CASE UNCHANGED vars
  <2>1. TypeOK' /\ UNCHANGED <<chan, accepted, nread, done, rpc, ioCnt, evpc, out>>
    BY <1>1, StutterType DEF RunInv, vars, inputVars, loopVars, eventVars, callerVars, outputVars
  <2> QED
    BY <2>1, FlowStill
<1>2. CASE Next
  BY <1>1, <1>2, WorkerFlow, SerialFlow, ReaderFlow, EventLoopFlow, CallerFlow, DropFlow,
     PanicFlow
  DEF Next, Terminated
<1> QED
  BY <1>1, <1>2

\* With an answer given, everything its reader returned is in the log.
LEMMA RunTold ==
  ASSUME RunInv, NEW i \in Ids
  PROVE  Told(i)
<1>1. /\ Handover(Passed(chan, i), Cardinality(Own(accepted, i)), nread[i], TRUE)
      /\ AnsweredOnce(chan, i, Busy(i), done[i])
      /\ Due(i) => rpc[i] \in {"none", "ended"}
      /\ i > ioCnt => rpc[i] = "none" /\ ~Due(i)
  BY DEF RunInv, FlowOK
<1>2. ASSUME done[i] # <<>> PROVE nread[i] = Cardinality(Own(accepted, i))
  <2>1. Reads(chan, i) = {}
    BY <1>1, <1>2 DEF AnsweredOnce
  <2>2. Handed(Passed(chan, i)) = {}
    BY <2>1, PassedType DEF RunInv, TypeOK, ChannelsOK
  <2> QED
    BY <1>1, <2>2 DEF Handover
<1> QED
  BY <1>1, <1>2 DEF AnsweredOnce, Told, Due

\* The event loop ends.
LEMMA ExitFlow ==
  ASSUME RunInv, [Next]_vars, LoopExit
  PROVE  EndInv'
<1>1. TypeOK' /\ RunInv
  BY NextType DEF RunInv
<1>2. EventLoop /\ UNCHANGED <<accepted, nread, done, rpc, ioCnt>>
  <2>1. evpc = "joinParallel" /\ evpc' = "ended" /\ UNCHANGED <<accepted, done>>
    BY DEF LoopExit, loopVars, eventVars
  <2>2. EventLoop
    BY <2>1 DEF Next, Worker, Serial, Reader, Caller, Drop, Panic, PluginPanic, Terminated,
       poolStutter, readerStutter, callerStutter, vars
  <2> QED
    BY <2>1, <2>2 DEF EventLoop, loopStutter, inputVars, callerVars
<1>3. \A i \in Ids : Told(i)
  BY RunTold
<1> QED
  BY <1>1, <1>2, <1>3 DEF RunInv, EndInv, ReaderOrder, Told

\* After that only a reader without an answer goes on.
LEMMA NextEnd ==
  ASSUME EndInv, [Next]_vars, evpc = "ended"
  PROVE  EndInv' /\ evpc' = "ended"
<1>1. TypeOK' /\ ioCnt \in Int /\ ioCnt' \in Int
      /\ rpc \in [Ids -> {"none", "check", "read", "ended", "dead"}] /\ nread \in [Ids -> Nat]
  <2>1. TypeOK /\ TypeOK'
    BY NextType DEF EndInv
  <2> QED
    BY <2>1 DEF TypeOK, ControlOK, ReadersOK
<1>2. ~EventLoop /\ ~PluginPanic
  BY DEF EventLoop, PluginPanic, ProcessInput, ProcessInputError, ProcessSerial, ProcessStore,
     AnnounceFrames, ProcessPushFilter, UnlinkFiltered, ProcessRemoveFilter, ScanFilter,
     AnnounceFiltered, ProcessOutput, OutputWrite, OutputWriteError, OutputFinish, ProcessClose,
     DropSerial, JoinSerial, DropParallel, JoinParallel, LoopExit, Received
<1>3. UNCHANGED <<accepted, done, evpc>>
  BY <1>2 DEF Next, Worker, Serial, Reader, Caller, Drop, Panic, Terminated, poolStutter,
     readerStutter, callerStutter, vars, loopVars, eventVars
<1>4. ReaderOrder'
  BY <1>3 DEF EndInv, ReaderOrder
<1>5. ASSUME NEW i \in Ids PROVE Told(i)'
  <2>1. Told(i)
    BY DEF EndInv
  <2>2. CASE UNCHANGED <<nread, rpc>> /\ ioCnt' \in {ioCnt, ioCnt + 1}
    <3>1. i > ioCnt' => i > ioCnt
      BY <1>1, <2>2 DEF Ids
    <3> QED
      BY <1>3, <2>1, <2>2, <3>1 DEF Told
  <2>3. ASSUME NEW j \in Ids, rpc[j] \in {"check", "read"}, UNCHANGED ioCnt,
               \A k \in Ids : k # j => rpc'[k] = rpc[k] /\ nread'[k] = nread[k]
        PROVE  Told(i)'
    BY <1>3, <2>1, <2>3 DEF Told
  <2>4. CASE CreateReader /\ UNCHANGED callerStutter
    <3>1. /\ ioCnt' = ioCnt + 1 /\ rpc' = [rpc EXCEPT ![ioCnt'] = "check"] /\ UNCHANGED nread
      BY <2>4 DEF CreateReader, callerStutter
    <3>2. i # ioCnt + 1 => rpc'[i] = rpc[i]
      BY <1>1, <3>1
    <3>3. /\ i > ioCnt' => i > ioCnt /\ i # ioCnt + 1
          /\ i = ioCnt + 1 => i > ioCnt /\ ~(i > ioCnt')
      BY <1>1, <3>1 DEF Ids
    <3> QED
      BY <1>3, <2>1, <3>1, <3>2, <3>3 DEF Told
  <2>5. CASE Caller /\ ~CreateReader
    <3>1. UNCHANGED <<nread, rpc>> /\ ioCnt' \in {ioCnt, ioCnt + 1}
      BY <2>5 DEF Caller, CreateWriter, CreateFails, CloseReader, CallSetFilter, DropLoop,
         callerStutter
    <3> QED
      BY <2>2, <3>1
  <2>6. CASE Drop
    <3>1. UNCHANGED <<nread, rpc, ioCnt>>
      BY <2>6 DEF Drop, JoinLoop, DropInput, JoinInput, Closed, callerStutter
    <3> QED
      BY <2>2, <3>1
  <2>7. CASE UNCHANGED <<inputVars, callerVars>>
    BY <2>2, <2>7 DEF inputVars, callerVars
  <2>8. CASE \/ \E w \in Workers : Worker(w)
             \/ Serial \/ Terminated \/ UNCHANGED vars
             \/ Panic /\ ~\E j \in Ids : ReaderPanic(j) /\ UNCHANGED readerStutter
    BY <1>2, <2>7, <2>8 DEF Worker, Serial, Terminated, Panic, poolStutter, vars
  <2>9. CASE Caller
    <3>1. UNCHANGED callerStutter
      BY <2>9 DEF Caller
    <3>2. CASE CreateReader
      BY <2>4, <3>1, <3>2
    <3>3. CASE ~CreateReader
      BY <2>5, <2>9, <3>3
    <3> QED
      BY <3>2, <3>3
  <2>10. CASE \E j \in Ids : Reader(j)
    <3>1. PICK j \in Ids : Reader(j)
      BY <2>10
    <3>2. /\ rpc[j] \in {"check", "read"} /\ UNCHANGED ioCnt
          /\ \A k \in Ids : k # j => rpc'[k] = rpc[k] /\ nread'[k] = nread[k]
      BY <1>1, <3>1 DEF Reader, ReaderCheck, ReaderRead, ReaderFail, readerStutter, callerVars
    <3> QED
      BY <2>3, <3>2
  <2>11. CASE Panic
    <3>1. CASE \E j \in Ids : ReaderPanic(j) /\ UNCHANGED readerStutter
      <4>1. PICK j \in Ids : ReaderPanic(j) /\ UNCHANGED readerStutter
        BY <3>1
      <4>2. /\ rpc[j] \in {"check", "read"} /\ UNCHANGED ioCnt
            /\ \A k \in Ids : k # j => rpc'[k] = rpc[k] /\ nread'[k] = nread[k]
        BY <1>1, <4>1 DEF ReaderPanic, readerStutter, callerVars
      <4> QED
        BY <2>3, <4>2
    <3>2. CASE ~\E j \in Ids : ReaderPanic(j) /\ UNCHANGED readerStutter
      BY <2>8, <2>11, <3>2
    <3> QED
      BY <3>1, <3>2
  <2>12. CASE (\E w \in Workers : Worker(w)) \/ Serial \/ Terminated \/ UNCHANGED vars
    BY <2>8, <2>12
  <2>13. Next \/ UNCHANGED vars
    OBVIOUS
  <2> QED
    BY <1>2, <2>6, <2>9, <2>10, <2>11, <2>12, <2>13 DEF Next
<1> QED
  BY <1>1, <1>3, <1>4, <1>5 DEF EndInv

LEMMA NextFlow == FlowInv /\ [Next]_vars => FlowInv'
<1> SUFFICES ASSUME FlowInv, [Next]_vars PROVE FlowInv'
  OBVIOUS
<1>1. CASE evpc = "ended"
  BY <1>1, NextEnd DEF FlowInv
<1>2. CASE evpc # "ended" /\ LoopExit
  BY <1>2, ExitFlow DEF FlowInv, LoopExit
<1>3. CASE evpc # "ended" /\ ~LoopExit
  <2>1. evpc' # "ended"
    BY <1>3 DEF Next, EventLoop, Worker, Serial, Reader, Caller, Drop, Panic, PluginPanic,
       Terminated, poolStutter, readerStutter, callerStutter, vars,
       ProcessInput, ProcessInputError, ProcessSerial, ProcessStore,
       AnnounceFrames, ProcessPushFilter, UnlinkFiltered, ProcessRemoveFilter, ScanFilter,
       AnnounceFiltered, ProcessOutput, OutputWrite, OutputWriteError, OutputFinish, Finished,
       ProcessClose, DropSerial, JoinSerial, DropParallel, JoinParallel, JoinPanics, FiltersDue
  <2> QED
    BY <1>3, <2>1, NextRun DEF FlowInv
<1> QED
  BY <1>1, <1>2, <1>3

LEMMA FlowKept == Spec => []FlowInv
<1> QED
  BY InitFlow, NextFlow, PTL DEF Spec

(* The frames of one reader are numbered in the order it returned them, and *)
(* none before one that is numbered is missing: the reads of the threads    *)
(* interleave in the event loop's channel, but those of one thread do not.  *)
THEOREM ReaderOrderCorrect == Spec => []ReaderOrder
<1>1. FlowInv => ReaderOrder
  BY DEF FlowInv, RunInv, EndInv
<1> QED
  BY FlowKept, <1>1, PTL

\* Whoever has an answer has been told once, and after everything it read.
LEMMA FlowCompletes == FlowInv => CompletionLast
<1>1. FlowInv => \A i \in Ids : Told(i)
  BY RunTold DEF FlowInv, EndInv
<1> QED
  BY <1>1 DEF Told, CompletionLast, Own

(* A reader or writer is reported as done once at most, and a reader only   *)
(* when the event loop has numbered everything it returned.                 *)
THEOREM CompletionCorrect == Spec => []CompletionLast
<1> QED
  BY FlowKept, FlowCompletes, PTL

-----------------------------------------------------------------------------
(* Counting the places that hold the frame of an index.                    *)

Holds(frames, index) == \E k \in DOMAIN frames : frames[k].index = index
Has(frames, index) == IF Holds(frames, index) THEN 1 ELSE 0

\* The batches of a queue, a map or a pool of threads that hold it.
Holders(f, index) == {k \in DOMAIN f : Holds(f[k], index)}
Count(f, index) == Cardinality(Holders(f, index))

\* The batches that the commands of a channel carry.
Load(c) == IF c.op \in {"PushSerialFrames", "StoreFrames"} THEN c.frames ELSE <<>>
Carried(c) == [k \in DOMAIN c |-> Load(c[k])]
Worked(pool) == [w \in DOMAIN pool |-> pool[w].frames]

Total(index) ==
  Has(stored, index) + Count(Carried(chan), index) + Count(pq, index)
    + Count(Worked(wk), index) + Count(sq, index) + Count(smap, index)

\* The inductive strengthening of NothingLost: the six counts add up to one.
LostInv ==
  /\ OrderInv
  /\ IsFiniteSet(DOMAIN smap)
  /\ \A w \in Workers : wk[w].pc = "decode" \/ wk[w].frames = <<>>
  /\ \A index \in 0..cnt - 1 : Total(index) <= 1 /\ (Kept(index) => Total(index) = 1)

LEMMA HasType ==
  ASSUME NEW frames, NEW index
  PROVE  Has(frames, index) \in {0, 1} /\ (Has(frames, index) = 1 <=> Holds(frames, index))
  BY DEF Has

LEMMA HoldsNone == ASSUME NEW index PROVE ~Holds(<<>>, index) /\ Has(<<>>, index) = 0
<1>1. ~Holds(<<>>, index)
  BY DEF Holds
<1> QED
  BY <1>1 DEF Has

LEMMA CountType ==
  ASSUME NEW f, IsFiniteSet(DOMAIN f), NEW index
  PROVE  /\ IsFiniteSet(Holders(f, index)) /\ Count(f, index) \in Nat
         /\ Count(f, index) = 0 <=> Holders(f, index) = {}
         /\ Count(f, index) = 1 => \E k : Holders(f, index) = {k}
<1>1. IsFiniteSet(Holders(f, index))
  <2>1. Holders(f, index) \in SUBSET DOMAIN f
    BY DEF Holders
  <2> QED
    BY <2>1, FS_Subset
<1> DEFINE S == Holders(f, index)
<1> HIDE DEF S
<1>2. IsFiniteSet(S)
  BY <1>1 DEF S
<1>3. Cardinality(S) \in Nat
  BY <1>2, FS_CardinalityType
<1>4. Cardinality(S) = 0 <=> S = {}
  BY <1>2, FS_EmptySet
<1>5. Cardinality(S) = 1 => \E k : S = {k}
  BY <1>2, FS_Singleton
<1> QED
  BY <1>2, <1>3, <1>4, <1>5 DEF S, Count

LEMMA QueueFinite ==
  ASSUME NEW q, NEW n \in Nat, DOMAIN q = 1..n
  PROVE  IsFiniteSet(DOMAIN q)
  BY FS_Interval

\* Two functions that differ at one place only.
LEMMA CountDiffer ==
  ASSUME NEW f, IsFiniteSet(DOMAIN f), NEW g, IsFiniteSet(DOMAIN g), NEW place, NEW index,
         Holders(f, index) \ {place} = Holders(g, index) \ {place}
  PROVE  Count(f, index) + (IF place \in Holders(g, index) THEN 1 ELSE 0)
           = Count(g, index) + (IF place \in Holders(f, index) THEN 1 ELSE 0)
<1> DEFINE S == Holders(f, index)
           T == Holders(g, index)
<1>1. IsFiniteSet(S) /\ IsFiniteSet(T)
  BY CountType
<1>2. S \ {place} = T \ {place}
  OBVIOUS
<1> HIDE DEF S, T
<1>3. /\ Cardinality(S \ {place}) = IF place \in S THEN Cardinality(S) - 1 ELSE Cardinality(S)
      /\ Cardinality(T \ {place}) = IF place \in T THEN Cardinality(T) - 1 ELSE Cardinality(T)
  BY <1>1, FS_RemoveElement
<1>4. Cardinality(S) \in Nat /\ Cardinality(T) \in Nat
  BY <1>1, FS_CardinalityType
<1> DEFINE m == Cardinality(S \ {place})
           a == Cardinality(S)
           b == Cardinality(T)
<1>5. m = (IF place \in S THEN a - 1 ELSE a) /\ m = (IF place \in T THEN b - 1 ELSE b)
  BY <1>2, <1>3
<1> HIDE DEF m, a, b
<1>6. a + (IF place \in T THEN 1 ELSE 0) = b + (IF place \in S THEN 1 ELSE 0)
  BY <1>4, <1>5 DEF a, b
<1> QED
  BY <1>6 DEF a, b, S, T, Count

LEMMA CountSame ==
  ASSUME NEW f, NEW g, NEW index, Holders(f, index) = Holders(g, index)
  PROVE  Count(f, index) = Count(g, index)
  BY DEF Count

\* One more batch at the end of a queue.
LEMMA CountAppend ==
  ASSUME NEW q, NEW n \in Nat, DOMAIN q = 1..n, NEW r, DOMAIN r = 1..n + 1,
         NEW index, \A k \in 1..n : r[k] = q[k]
  PROVE  Count(r, index) = Count(q, index) + Has(r[n + 1], index)
<1>1. IsFiniteSet(DOMAIN q) /\ IsFiniteSet(DOMAIN r)
  BY QueueFinite
<1>2. Holders(q, index) \ {n + 1} = Holders(r, index) \ {n + 1}
  <2>1. \A k : k \in 1..n + 1 /\ k # n + 1 <=> k \in 1..n
    OBVIOUS
  <2> QED
    BY <2>1 DEF Holders
<1>3. n + 1 \notin Holders(q, index) /\ (n + 1 \in Holders(r, index) <=> Holds(r[n + 1], index))
  BY DEF Holders
<1>4. Count(q, index) + (IF n + 1 \in Holders(r, index) THEN 1 ELSE 0)
        = Count(r, index) + (IF n + 1 \in Holders(q, index) THEN 1 ELSE 0)
  BY <1>1, <1>2, CountDiffer
<1>5. Count(q, index) \in Nat /\ Count(r, index) \in Nat
  BY <1>1, CountType
<1> QED
  BY <1>3, <1>4, <1>5 DEF Has

\* The first batch of a queue is taken.
LEMMA CountTail ==
  ASSUME NEW q, NEW n \in Nat, DOMAIN q = 1..n + 1, NEW r, DOMAIN r = 1..n,
         NEW index, \A k \in 1..n : r[k] = q[k + 1]
  PROVE  Count(q, index) = Has(q[1], index) + Count(r, index) /\ Count(r, index) \in Nat
<1> DEFINE S == Holders(r, index)
           T == Holders(q, index)
           f == [k \in S |-> k + 1]
<1>1. IsFiniteSet(S) /\ IsFiniteSet(T)
  <2>1. IsFiniteSet(DOMAIN q) /\ IsFiniteSet(DOMAIN r)
    BY QueueFinite
  <2> QED
    BY <2>1, CountType
<1>2. \A k \in S : k \in 1..n /\ k + 1 \in T \ {1}
  <2>1. TAKE k \in S
  <2>2. k \in 1..n /\ Holds(q[k + 1], index)
    BY DEF Holders
  <2>3. k + 1 \in 1..n + 1 /\ k + 1 # 1
    BY <2>2
  <2> QED
    BY <2>2, <2>3 DEF Holders
<1>3. \A k \in T \ {1} : k - 1 \in S /\ k \in Nat
  <2>1. TAKE k \in T \ {1}
  <2>2. k \in 1..n + 1 /\ k # 1 /\ Holds(q[k], index)
    BY DEF Holders
  <2>3. k - 1 \in 1..n /\ (k - 1) + 1 = k
    BY <2>2
  <2>4. r[k - 1] = q[k]
    BY <2>3
  <2> QED
    BY <2>2, <2>3, <2>4 DEF Holders
<1>4. 1 \in T <=> Holds(q[1], index)
  BY DEF Holders
<1> HIDE DEF S, T
<1>5. f \in Bijection(S, T \ {1})
  <2>1. f \in [S -> T \ {1}]
    BY <1>2
  <2>2. \A a, b \in S : f[a] = f[b] => a = b
    <3>1. TAKE a, b \in S
    <3>2. a \in Nat /\ b \in Nat
      BY <1>2
    <3> QED
      BY <3>2
  <2>3. \A k \in T \ {1} : \E a \in S : f[a] = k
    <3>1. TAKE k \in T \ {1}
    <3>2. k - 1 \in S /\ f[k - 1] = k
      BY <1>3
    <3> QED
      BY <3>2
  <2> QED
    BY <2>1, <2>2, <2>3 DEF Bijection, Injection, Surjection, IsInjective
<1>6. Cardinality(T \ {1}) = Cardinality(S)
  BY <1>1, <1>5, FS_Bijection DEF ExistsBijection
<1>7. Cardinality(T \ {1}) = IF 1 \in T THEN Cardinality(T) - 1 ELSE Cardinality(T)
  BY <1>1, FS_RemoveElement
<1>8. Cardinality(T) \in Nat /\ Cardinality(S) \in Nat
  BY <1>1, FS_CardinalityType
<1>9. Cardinality(T) = (IF 1 \in T THEN 1 ELSE 0) + Cardinality(S)
  BY <1>6, <1>7, <1>8
<1> QED
  BY <1>4, <1>8, <1>9 DEF S, T, Count, Has

\* A batch is put in the place of another one, or of none.
LEMMA CountPut ==
  ASSUME NEW f, IsFiniteSet(DOMAIN f), NEW g, NEW place, NEW index,
         DOMAIN g = DOMAIN f \cup {place},
         \A k \in DOMAIN f \ {place} : g[k] = f[k],
         place \in DOMAIN f => ~Holds(f[place], index)
  PROVE  /\ IsFiniteSet(DOMAIN g)
         /\ Count(g, index) = Count(f, index) + Has(g[place], index)
<1>1. IsFiniteSet(DOMAIN g)
  BY FS_AddElement
<1>2. Holders(f, index) \ {place} = Holders(g, index) \ {place}
  BY DEF Holders
<1>3. place \notin Holders(f, index) /\ (place \in Holders(g, index) <=> Holds(g[place], index))
  BY DEF Holders
<1>4. Count(f, index) + (IF place \in Holders(g, index) THEN 1 ELSE 0)
        = Count(g, index) + (IF place \in Holders(f, index) THEN 1 ELSE 0)
  BY <1>1, <1>2, CountDiffer
<1>5. Count(f, index) \in Nat /\ Count(g, index) \in Nat
  BY <1>1, CountType
<1> QED
  BY <1>1, <1>3, <1>4, <1>5 DEF Has

\* A batch is taken out of its place.
LEMMA CountTake ==
  ASSUME NEW f, IsFiniteSet(DOMAIN f), NEW g, NEW place \in DOMAIN f, NEW index,
         DOMAIN f = DOMAIN g \cup {place},
         \A k \in DOMAIN f \ {place} : g[k] = f[k],
         place \in DOMAIN g => ~Holds(g[place], index)
  PROVE  /\ IsFiniteSet(DOMAIN g)
         /\ Count(f, index) = Count(g, index) + Has(f[place], index)
         /\ Count(g, index) \in Nat
<1>1. IsFiniteSet(DOMAIN g)
  <2>1. DOMAIN g \in SUBSET DOMAIN f
    OBVIOUS
  <2> QED
    BY <2>1, FS_Subset
<1> QED
  BY <1>1, CountPut, CountType

LEMMA QueueAppend ==
  ASSUME NEW q \in Seq(Seq(Frame)), NEW b \in Seq(Frame), NEW index
  PROVE  Count(Append(q, b), index) = Count(q, index) + Has(b, index)
<1> DEFINE r == Append(q, b)
           n == Len(q)
<1>1. /\ n \in Nat /\ DOMAIN q = 1..n /\ DOMAIN r = 1..n + 1
      /\ r[n + 1] = b /\ \A k \in 1..n : r[k] = q[k]
  OBVIOUS
<1> HIDE DEF r, n
<1>2. Count(r, index) = Count(q, index) + Has(r[n + 1], index)
  BY <1>1, CountAppend
<1> QED
  BY <1>1, <1>2 DEF r

LEMMA QueueTail ==
  ASSUME NEW q \in Seq(Seq(Frame)), q # <<>>, NEW index
  PROVE  /\ Count(q, index) = Has(Head(q), index) + Count(Tail(q), index)
         /\ Count(Tail(q), index) \in Nat
<1> DEFINE s == q
           r == Tail(q)
           n == Len(q) - 1
<1>1. /\ n \in Nat /\ DOMAIN s = 1..n + 1 /\ DOMAIN r = 1..n
      /\ s[1] = Head(q) /\ \A k \in 1..n : r[k] = s[k + 1]
  OBVIOUS
<1> HIDE DEF s, r, n
<1>2. Count(s, index) = Has(s[1], index) + Count(r, index) /\ Count(r, index) \in Nat
  BY <1>1, CountTail
<1> QED
  BY <1>1, <1>2 DEF s, r

LEMMA ChanAppend ==
  ASSUME NEW c \in Seq(Command), NEW d \in Command, NEW index
  PROVE  Count(Carried(Append(c, d)), index) = Count(Carried(c), index) + Has(Load(d), index)
<1> DEFINE e == Append(c, d)
           q == Carried(c)
           r == Carried(e)
           n == Len(c)
<1>1. /\ n \in Nat /\ DOMAIN c = 1..n /\ DOMAIN e = 1..n + 1
      /\ e[n + 1] = d /\ \A k \in 1..n : e[k] = c[k]
  OBVIOUS
<1> HIDE DEF e, n
<1>2. /\ DOMAIN q = 1..n /\ DOMAIN r = 1..n + 1
      /\ r[n + 1] = Load(d) /\ \A k \in 1..n : r[k] = q[k]
  <2>1. n + 1 \in 1..n + 1 /\ \A k \in 1..n : k \in 1..n + 1
    BY <1>1
  <2> QED
    BY <1>1, <2>1 DEF Carried
<1> HIDE DEF q, r
<1>3. Count(r, index) = Count(q, index) + Has(r[n + 1], index)
  BY <1>1, <1>2, CountAppend
<1> QED
  BY <1>2, <1>3 DEF q, r, e

LEMMA ChanTail ==
  ASSUME NEW c \in Seq(Command), c # <<>>, NEW index
  PROVE  /\ Count(Carried(c), index)
              = Has(Load(Head(c)), index) + Count(Carried(Tail(c)), index)
         /\ Count(Carried(Tail(c)), index) \in Nat
<1> DEFINE e == Tail(c)
           q == Carried(c)
           r == Carried(e)
           n == Len(c) - 1
<1>1. /\ n \in Nat /\ DOMAIN c = 1..n + 1 /\ DOMAIN e = 1..n
      /\ c[1] = Head(c) /\ \A k \in 1..n : e[k] = c[k + 1]
  OBVIOUS
<1> HIDE DEF e, n
<1>2. /\ DOMAIN q = 1..n + 1 /\ DOMAIN r = 1..n
      /\ q[1] = Load(Head(c)) /\ \A k \in 1..n : r[k] = q[k + 1]
  <2>1. 1 \in 1..n + 1 /\ \A k \in 1..n : k + 1 \in 1..n + 1
    BY <1>1
  <2> QED
    BY <1>1, <2>1 DEF Carried
<1> HIDE DEF q, r
<1>3. Count(q, index) = Has(q[1], index) + Count(r, index) /\ Count(r, index) \in Nat
  BY <1>1, <1>2, CountTail
<1> QED
  BY <1>2, <1>3 DEF q, r, e

\* The messages that stop the threads hold nothing.
LEMMA QueuePoisons ==
  ASSUME NEW q \in Seq(Seq(Frame)), NEW index
  PROVE  Count(q \o Poisons, index) = Count(q, index)
<1> DEFINE p == Poisons
<1>1. p \in Seq({Poison}) /\ Len(p) \in Nat /\ \A k \in 1..Len(p) : p[k] = Poison
  <2>1. p \in [1..Concurrency -> {Poison}]
    BY DEF Poisons, Workers
  <2>2. p \in Seq({Poison})
    BY <2>1, ConcurrencyAssumption
  <2> HIDE DEF p
  <2> QED
    BY <2>2
<1> HIDE DEF p
<1>2. p \in Seq(Seq(Frame))
  <2>1. Poison \in Seq(Frame)
    BY DEF Poison
  <2> QED
    BY <1>1, <2>1
<1> DEFINE r == q \o p
<1>3. /\ Len(r) = Len(q) + Len(p) /\ Len(q) \in Nat /\ DOMAIN r = 1..Len(r)
      /\ DOMAIN q = 1..Len(q)
      /\ \A k \in 1..Len(q) : r[k] = q[k]
      /\ \A k \in Len(q) + 1..Len(q) + Len(p) : r[k] = p[k - Len(q)]
  BY <1>1, <1>2, ConcatProperties, LenProperties
<1> HIDE DEF r
<1>4. \A k \in 1..Len(r) : k \in 1..Len(q) \/ r[k] = Poison
  <2>1. TAKE k \in 1..Len(r)
  <2>2. CASE k \notin 1..Len(q)
    <3>1. k \in Len(q) + 1..Len(q) + Len(p) /\ k - Len(q) \in 1..Len(p)
      BY <1>1, <1>3, <2>2
    <3> QED
      BY <1>1, <1>3, <3>1
  <2> QED
    BY <2>2
<1>5. \A k \in 1..Len(q) : k \in 1..Len(r)
  BY <1>1, <1>3
<1>6. Holders(r, index) = Holders(q, index)
  BY <1>3, <1>4, <1>5, HoldsNone DEF Holders, Poison
<1> QED
  BY <1>6, CountSame DEF r, p

\* Storing a batch.
LEMMA HoldsConcat ==
  ASSUME NEW s \in Seq(Frame), NEW t \in Seq(Frame), NEW index
  PROVE  Holds(s \o t, index) <=> Holds(s, index) \/ Holds(t, index)
<1> DEFINE r == s \o t
<1>1. /\ Len(r) = Len(s) + Len(t) /\ Len(s) \in Nat /\ Len(t) \in Nat
      /\ DOMAIN r = 1..Len(r) /\ DOMAIN s = 1..Len(s) /\ DOMAIN t = 1..Len(t)
      /\ \A k \in 1..Len(s) : r[k] = s[k]
      /\ \A k \in Len(s) + 1..Len(s) + Len(t) : r[k] = t[k - Len(s)]
  BY ConcatProperties, LenProperties
<1> HIDE DEF r
<1>2. ASSUME Holds(s, index) PROVE Holds(r, index)
  <2>1. PICK k \in 1..Len(s) : s[k].index = index
    BY <1>1, <1>2 DEF Holds
  <2>2. k \in DOMAIN r /\ r[k] = s[k]
    BY <1>1
  <2> QED
    BY <2>1, <2>2 DEF Holds
<1>3. ASSUME Holds(t, index) PROVE Holds(r, index)
  <2>1. PICK k \in 1..Len(t) : t[k].index = index
    BY <1>1, <1>3 DEF Holds
  <2>2. Len(s) + k \in Len(s) + 1..Len(s) + Len(t) /\ (Len(s) + k) - Len(s) = k
    BY <1>1
  <2>3. Len(s) + k \in DOMAIN r /\ r[Len(s) + k] = t[k]
    BY <1>1, <2>2
  <2> QED
    BY <2>1, <2>3 DEF Holds
<1>4. ASSUME Holds(r, index) PROVE Holds(s, index) \/ Holds(t, index)
  <2>1. PICK k \in 1..Len(r) : r[k].index = index
    BY <1>1, <1>4 DEF Holds
  <2>2. CASE k \in 1..Len(s)
    BY <1>1, <2>1, <2>2 DEF Holds
  <2>3. CASE k \notin 1..Len(s)
    <3>1. k \in Len(s) + 1..Len(s) + Len(t) /\ k - Len(s) \in 1..Len(t)
      BY <1>1, <2>3
    <3> QED
      BY <1>1, <2>1, <3>1 DEF Holds
  <2> QED
    BY <2>2, <2>3
<1> QED
  BY <1>2, <1>3, <1>4 DEF r

-----------------------------------------------------------------------------
(* LostInv is inductive.                                                   *)

LEMMA PoolFinite == IsFiniteSet(Workers)
<1>1. Concurrency \in Int
  BY ConcurrencyAssumption
<1> QED
  BY <1>1, FS_Interval DEF Workers

\* The six counts are numbers.
LEMMA Parts ==
  ASSUME TypeOK, IsFiniteSet(DOMAIN smap), NEW index
  PROVE  /\ Has(stored, index) \in {0, 1}
         /\ Count(Carried(chan), index) \in Nat
         /\ Count(pq, index) \in Nat
         /\ Count(Worked(wk), index) \in Nat
         /\ Count(sq, index) \in Nat
         /\ Count(smap, index) \in Nat
         /\ Total(index) \in Nat
<1>1. Has(stored, index) \in {0, 1}
  BY HasType
<1>2. /\ Count(Carried(chan), index) \in Nat
      /\ Count(pq, index) \in Nat
      /\ Count(sq, index) \in Nat
  <2>1. /\ DOMAIN Carried(chan) = 1..Len(chan) /\ Len(chan) \in Nat
        /\ DOMAIN pq = 1..Len(pq) /\ Len(pq) \in Nat
        /\ DOMAIN sq = 1..Len(sq) /\ Len(sq) \in Nat
    BY DEF TypeOK, ChannelsOK, Carried
  <2>2. IsFiniteSet(DOMAIN Carried(chan)) /\ IsFiniteSet(DOMAIN pq) /\ IsFiniteSet(DOMAIN sq)
    BY <2>1, QueueFinite
  <2> QED
    BY <2>2, CountType
<1>3. Count(Worked(wk), index) \in Nat
  <2>1. DOMAIN Worked(wk) = Workers
    BY DEF TypeOK, PoolsOK, Worked
  <2> QED
    BY <2>1, PoolFinite, CountType
<1>4. Count(smap, index) \in Nat
  BY CountType
<1> QED
  BY <1>1, <1>2, <1>3, <1>4 DEF Total

\* A thread of the pool changes its batch.
LEMMA WorkedChange ==
  ASSUME NEW pool, DOMAIN pool = Workers, NEW later, DOMAIN later = Workers,
         NEW w \in Workers, \A v \in Workers \ {w} : later[v] = pool[v], NEW index
  PROVE  /\ Count(Worked(later), index) + Has(pool[w].frames, index)
              = Count(Worked(pool), index) + Has(later[w].frames, index)
         /\ Count(Worked(later), index) \in Nat
<1> DEFINE f == Worked(pool)
           g == Worked(later)
<1>1. /\ DOMAIN f = Workers /\ DOMAIN g = Workers
      /\ f[w] = pool[w].frames /\ g[w] = later[w].frames
      /\ \A v \in Workers \ {w} : g[v] = f[v]
  BY DEF Worked
<1> HIDE DEF f, g
<1>2. IsFiniteSet(DOMAIN f) /\ IsFiniteSet(DOMAIN g)
  BY <1>1, PoolFinite
<1>3. Holders(f, index) \ {w} = Holders(g, index) \ {w}
  BY <1>1 DEF Holders
<1>4. /\ w \in Holders(f, index) <=> Holds(pool[w].frames, index)
      /\ w \in Holders(g, index) <=> Holds(later[w].frames, index)
  BY <1>1 DEF Holders
<1>5. Count(f, index) + (IF w \in Holders(g, index) THEN 1 ELSE 0)
        = Count(g, index) + (IF w \in Holders(f, index) THEN 1 ELSE 0)
  BY <1>2, <1>3, CountDiffer
<1>6. Count(f, index) \in Nat /\ Count(g, index) \in Nat
  BY <1>2, CountType
<1>7. Count(g, index) + Has(pool[w].frames, index) = Count(f, index) + Has(later[w].frames, index)
  BY <1>4, <1>5, <1>6 DEF Has
<1> QED
  BY <1>6, <1>7 DEF f, g

\* A set of positions has a least one.
LEMMA LeastPosition ==
  ASSUME NEW T, T \subseteq Nat, T # {}
  PROVE  \E p \in T : \A q \in T : p <= q
<1> DEFINE R == OpToRel(<, Nat)
<1>1. IsWellFoundedOn(R, Nat)
  BY NatLessThanWellFounded
<1>2. \A x, y \in Nat : y < x => <<y, x>> \in R
  BY DEF OpToRel
<1> HIDE DEF R
<1>3. PICK p \in T : \A q \in T : ~(<<q, p>> \in R)
  BY <1>1, WFMin
<1>4. ASSUME NEW q \in T PROVE p <= q
  <2>1. ~(q < p)
    BY <1>2, <1>3, Zenon
  <2> QED
    BY <2>1
<1> QED
  BY <1>4

\* A frame whose turn has come is in the store or on its way there: the batches
\* handed over leave no gap between the store and the next batch.
LEMMA HandedNow ==
  ASSUME OrderInv, spc # "dead", evpc # "ended", NEW index \in Nat, index < snext
  PROVE  Holds(stored, index) \/ \E p \in Handed(chan) : Holds(chan[p].frames, index)
<1>1. /\ Len(stored) \in Nat /\ DOMAIN stored = 1..Len(stored) /\ snext \in Nat
      /\ chan \in Seq(Command)
  BY DEF OrderInv, TypeOK, FramesOK, PoolsOK, ChannelsOK
<1>2. CASE index < Len(stored)
  <2>1. index + 1 \in DOMAIN stored /\ index + 1 - 1 = index
    BY <1>1, <1>2
  <2>2. stored[index + 1].index = index + 1 - 1
    BY <2>1 DEF OrderInv, StoredInOrder
  <2> QED
    BY <2>1, <2>2 DEF Holds
<1>3. CASE ~(index < Len(stored))
  <2> DEFINE T == {p \in Handed(chan) : Final(chan[p].frames) >= index}
  <2>1. Handover(chan, Len(stored), snext, TRUE)
    BY DEF OrderInv, SerialHandover
  <2>2. \A p \in Handed(chan) : /\ p \in Nat /\ chan[p].frames \in Batch
                               /\ First(chan[p].frames) \in Nat
                               /\ Final(chan[p].frames) \in Nat
    BY <1>1, HandedBatches
  <2>3. T # {}
    <3>1. snext # Len(stored)
      BY <1>1, <1>3
    <3>2. PICK p \in Handed(chan) : Final(chan[p].frames) + 1 = snext
      BY <2>1, <3>1 DEF Handover
    <3>3. Final(chan[p].frames) >= index
      BY <1>1, <2>2, <3>2
    <3> QED
      BY <3>3
  <2>4. PICK p \in T : \A q \in T : p <= q
    BY <2>2, <2>3, LeastPosition
  <2> DEFINE b == chan[p].frames
  <2>5. First(b) <= index
    <3>1. CASE First(b) = Len(stored)
      BY <1>1, <1>3, <3>1
    <3>2. CASE \E q \in Handed(chan) : q < p /\ Final(chan[q].frames) + 1 = First(b)
      <4>1. PICK q \in Handed(chan) : q < p /\ Final(chan[q].frames) + 1 = First(b)
        BY <3>2
      <4>2. q \notin T
        BY <2>2, <2>4, <4>1
      <4> QED
        BY <2>2, <4>1, <4>2
    <3> QED
      BY <2>1, <3>1, <3>2 DEF Handover
  <2>6. b \in Batch /\ Whole(b) /\ Consecutive(accepted, b) /\ index <= Final(b)
    BY <2>2, <2>4, HandedWhole DEF OrderInv, BatchesConsecutive, Handed
  <2> HIDE DEF b
  <2>7. Len(b) \in Nat /\ DOMAIN b = 1..Len(b) /\ First(b) \in Nat
    BY <2>6, BatchEnds DEF Batch
  <2>8. index - First(b) + 1 \in DOMAIN b /\ First(b) + (index - First(b) + 1) - 1 = index
    BY <2>5, <2>6, <2>7 DEF Whole
  <2>9. Holds(b, index)
    BY <2>6, <2>8 DEF Consecutive, Holds
  <2> QED
    BY <2>9 DEF b
<1> QED
  BY <1>2, <1>3

\* So that the map of the serial thread does not hold it.
LEMMA NotInMap ==
  ASSUME LostInv, spc # "dead", evpc # "ended", NEW index \in 0..cnt - 1, index < snext
  PROVE  Count(smap, index) = 0
<1>1. TypeOK /\ IsFiniteSet(DOMAIN smap) /\ OrderInv /\ chan \in Seq(Command) /\ Total(index) <= 1
  BY DEF LostInv, OrderInv, TypeOK, ChannelsOK
<1>2. /\ Has(stored, index) \in {0, 1} /\ Count(Carried(chan), index) \in Nat
      /\ Count(pq, index) \in Nat /\ Count(Worked(wk), index) \in Nat
      /\ Count(sq, index) \in Nat /\ Count(smap, index) \in Nat
  BY <1>1, Parts
<1>3. Has(stored, index) = 1 \/ Count(Carried(chan), index) # 0
  <2>1. CASE Holds(stored, index)
    BY <2>1, HasType
  <2>2. ASSUME NEW p \in Handed(chan), Holds(chan[p].frames, index)
        PROVE  Count(Carried(chan), index) # 0
    <3>1. p \in Holders(Carried(chan), index)
      BY <2>2 DEF Handed, Holders, Carried, Load
    <3>2. IsFiniteSet(DOMAIN Carried(chan))
      <4>1. DOMAIN Carried(chan) = 1..Len(chan) /\ Len(chan) \in Nat
        BY <1>1 DEF Carried
      <4> QED
        BY <4>1, QueueFinite
    <3> QED
      BY <3>1, <3>2, CountType
  <2> QED
    BY <1>1, <2>1, <2>2, HandedNow
<1> QED
  BY <1>1, <1>2, <1>3 DEF Total

\* The counts of a step add up to no more than before, and to less only for a
\* frame that need not be kept any longer.
LEMMA LostKept ==
  ASSUME LostInv, OrderInv', cnt' = cnt, IsFiniteSet(DOMAIN smap'),
         \A w \in Workers : wk'[w].pc = "decode" \/ wk'[w].frames = <<>>,
         panics' = 0 => panics = 0,
         evpc = "ended" => evpc' = "ended",
         spc = "ended" => spc' = "ended" /\ snext' = snext,
         \A index \in 0..cnt - 1 :
           /\ Total(index)' \in Nat
           /\ Total(index)' <= Total(index)
           /\ Kept(index)' => Total(index)' = Total(index)
  PROVE  LostInv'
<1>1. ASSUME NEW index \in 0..cnt' - 1
      PROVE  Total(index)' <= 1 /\ (Kept(index)' => Total(index)' = 1)
  <2>1. index \in 0..cnt - 1
    OBVIOUS
  <2>2. Total(index) <= 1 /\ (Kept(index) => Total(index) = 1) /\ Total(index) \in Nat
    BY <2>1, Parts DEF LostInv, OrderInv
  <2>3. /\ Total(index)' \in Nat
        /\ Total(index)' <= Total(index)
        /\ Kept(index)' => Total(index)' = Total(index)
    BY <2>1
  <2>4. Kept(index)' => Kept(index)
    BY DEF Kept
  <2> QED
    BY <2>2, <2>3, <2>4
<1> QED
  BY <1>1 DEF LostInv

\* A step that moves frames, or touches none.
LEMMA LostMoved ==
  ASSUME LostInv, OrderInv', cnt' = cnt, IsFiniteSet(DOMAIN smap'),
         \A w \in Workers : wk'[w].pc = "decode" \/ wk'[w].frames = <<>>,
         panics' = 0 => panics = 0,
         evpc = "ended" => evpc' = "ended",
         spc = "ended" => spc' = "ended" /\ snext' = snext,
         \A index \in 0..cnt - 1 : Total(index)' \in Nat /\ Total(index)' = Total(index)
  PROVE  LostInv'
<1>1. ASSUME NEW index \in 0..cnt - 1 PROVE Total(index)' <= Total(index)
  <2>1. Total(index)' \in Nat /\ Total(index)' = Total(index)
    OBVIOUS
  <2> QED
    BY <2>1
<1> QED
  BY <1>1, LostKept

\* A batch moves from the pool's channel to a thread, or from there to the
\* channel of the event loop.
LEMMA WorkerLost ==
  ASSUME LostInv, OrderInv', NEW w \in Workers, Worker(w)
  PROVE  LostInv'
<1>0. /\ TypeOK /\ IsFiniteSet(DOMAIN smap)
      /\ \A v \in Workers : wk[v].pc = "decode" \/ wk[v].frames = <<>>
      /\ chan \in Seq(Command) /\ pq \in Seq(Seq(Frame)) /\ DOMAIN wk = Workers
  BY DEF LostInv, OrderInv, TypeOK, ChannelsOK, PoolsOK
<1>1. UNCHANGED <<cnt, stored, sq, smap, panics, spc, snext, evpc>>
  BY DEF Worker, WorkerRecv, WorkerDone, serialVars, poolStutter, loopVars
<1>2. CASE WorkerRecv(w)
  <2>1. PICK new : /\ new \in {Returned, Working(Head(pq))} /\ new.frames = Head(pq)
                   /\ new.pc = "decode" \/ new.frames = <<>>
                   /\ wk' = [wk EXCEPT ![w] = new]
    <3>1. Returned.frames = <<>> /\ Working(Head(pq)).frames = Head(pq)
          /\ Working(Head(pq)).pc = "decode"
      BY DEF Returned, Working
    <3> QED
      BY <1>2, <3>1 DEF WorkerRecv, Poison
  <2>2. pq # <<>> /\ pq' = Tail(pq) /\ UNCHANGED chan /\ wk[w].frames = <<>>
    BY <1>0, <1>2 DEF WorkerRecv
  <2>3. /\ \A v \in Workers : wk'[v].pc = "decode" \/ wk'[v].frames = <<>>
        /\ DOMAIN wk' = Workers /\ wk'[w] = new
        /\ \A v \in Workers \ {w} : wk'[v] = wk[v]
    BY <1>0, <2>1
  <2>4. ASSUME NEW index \in 0..cnt - 1
        PROVE  Total(index)' \in Nat /\ Total(index)' = Total(index)
    <3>1. /\ Count(pq, index) = Has(Head(pq), index) + Count(pq', index)
          /\ Count(pq', index) \in Nat
      BY <1>0, <2>2, QueueTail
    <3>2. /\ Count(Worked(wk'), index) + Has(wk[w].frames, index)
               = Count(Worked(wk), index) + Has(wk'[w].frames, index)
          /\ Count(Worked(wk'), index) \in Nat
      BY <1>0, <2>3, WorkedChange
    <3>3. Has(wk[w].frames, index) = 0 /\ wk'[w].frames = Head(pq)
      BY <2>1, <2>2, <2>3, HoldsNone
    <3>4. Total(index) \in Nat /\ Has(Head(pq), index) \in {0, 1}
      BY <1>0, Parts, HasType
    <3>5. /\ Has(stored, index) \in {0, 1} /\ Count(Carried(chan), index) \in Nat
          /\ Count(pq, index) \in Nat /\ Count(Worked(wk), index) \in Nat
          /\ Count(sq, index) \in Nat /\ Count(smap, index) \in Nat
      BY <1>0, Parts
    <3>6. Count(pq', index) + Count(Worked(wk'), index)
            = Count(pq, index) + Count(Worked(wk), index)
      BY <3>1, <3>2, <3>3, <3>4, <3>5
    <3>7. Total(index)' = Has(stored, index) + Count(Carried(chan), index) + Count(pq', index)
                            + Count(Worked(wk'), index) + Count(sq, index) + Count(smap, index)
      BY <1>1, <2>2 DEF Total
    <3> QED
      BY <3>1, <3>2, <3>4, <3>5, <3>6, <3>7 DEF Total
  <2> QED
    BY <1>0, <1>1, <2>3, <2>4, LostMoved
<1>3. CASE WorkerDone(w)
  <2> DEFINE d == PushSerialFrames(wk[w].frames)
  <2>1. /\ d \in Command /\ Load(d) = wk[w].frames
        /\ chan' = Append(chan, d) /\ UNCHANGED pq
        /\ wk' = [wk EXCEPT ![w] = Waiting] /\ Waiting.frames = <<>>
    <3>1. wk[w].frames \in Batch
      BY <1>0, <1>3 DEF TypeOK, PoolsOK, WorkerDone, Batch
    <3> QED
      BY <1>3, <3>1, CommandForms DEF WorkerDone, Waiting, Load, PushSerialFrames
  <2> HIDE DEF d
  <2>2. /\ \A v \in Workers : wk'[v].pc = "decode" \/ wk'[v].frames = <<>>
        /\ DOMAIN wk' = Workers /\ wk'[w] = Waiting
        /\ \A v \in Workers \ {w} : wk'[v] = wk[v]
    BY <1>0, <2>1
  <2>3. ASSUME NEW index \in 0..cnt - 1
        PROVE  Total(index)' \in Nat /\ Total(index)' = Total(index)
    <3>1. Count(Carried(chan'), index) = Count(Carried(chan), index) + Has(Load(d), index)
      BY <1>0, <2>1, ChanAppend
    <3>2. /\ Count(Worked(wk'), index) + Has(wk[w].frames, index)
               = Count(Worked(wk), index) + Has(wk'[w].frames, index)
          /\ Count(Worked(wk'), index) \in Nat
      BY <1>0, <2>2, WorkedChange
    <3>3. Has(wk'[w].frames, index) = 0
      BY <2>1, <2>2, HoldsNone
    <3>4. Has(Load(d), index) \in {0, 1}
      BY HasType
    <3>5. /\ Has(stored, index) \in {0, 1} /\ Count(Carried(chan), index) \in Nat
          /\ Count(pq, index) \in Nat /\ Count(Worked(wk), index) \in Nat
          /\ Count(sq, index) \in Nat /\ Count(smap, index) \in Nat
      BY <1>0, Parts
    <3>6. Count(Carried(chan'), index) + Count(Worked(wk'), index)
            = Count(Carried(chan), index) + Count(Worked(wk), index)
      BY <2>1, <3>1, <3>2, <3>3, <3>4, <3>5
    <3>7. Total(index)' = Has(stored, index) + Count(Carried(chan'), index) + Count(pq, index)
                            + Count(Worked(wk'), index) + Count(sq, index) + Count(smap, index)
      BY <1>1, <2>1 DEF Total
    <3>8. Total(index)' = Total(index)
      BY <3>1, <3>2, <3>4, <3>5, <3>6, <3>7 DEF Total
    <3>9. Total(index) \in Nat
      BY <3>5 DEF Total
    <3> QED
      BY <3>8, <3>9
  <2> QED
    BY <1>0, <1>1, <2>2, <2>3, LostMoved
<1> QED
  BY <1>2, <1>3 DEF Worker

\* A frame that was numbered is below the count; so is what is stored.
LEMMA HeldBelow ==
  ASSUME OrderInv, NEW index, cnt <= index, index \in Nat
  PROVE  /\ ~Holds(stored, index)
         /\ Holders(Carried(chan), index) = {} /\ Holders(pq, index) = {}
         /\ Holders(Worked(wk), index) = {} /\ Holders(sq, index) = {}
         /\ Holders(smap, index) = {}
<1>1. cnt = Len(accepted) /\ cnt \in Nat
  BY DEF OrderInv, TypeOK, FramesOK, BatchesConsecutive
<1>2. ASSUME NEW b, Consecutive(accepted, b) PROVE ~Holds(b, index)
  BY <1>1, <1>2 DEF Consecutive, Holds
<1>3. ~Holds(stored, index)
  <2>1. \A k \in DOMAIN stored : stored[k].index = k - 1 /\ k \in Nat /\ k <= Len(stored)
    BY DEF OrderInv, TypeOK, FramesOK, StoredInOrder
  <2>2. Len(stored) \in Nat /\ Len(stored) <= cnt
    BY <1>1 DEF OrderInv, TypeOK, FramesOK, StoredInOrder
  <2> QED
    BY <1>1, <2>1, <2>2 DEF Holds
<1>4. Holders(Carried(chan), index) = {}
  <2>1. \A k \in DOMAIN chan : ~Holds(Load(chan[k]), index)
    BY <1>2, HoldsNone DEF OrderInv, BatchesConsecutive, Load
  <2> QED
    BY <2>1 DEF Carried, Holders
<1>5. Holders(Worked(wk), index) = {}
  <2>1. DOMAIN wk = Workers
    BY DEF OrderInv, TypeOK, PoolsOK
  <2> QED
    BY <1>2, <2>1 DEF OrderInv, BatchesConsecutive, Worked, Holders
<1>6. Holders(pq, index) = {} /\ Holders(sq, index) = {} /\ Holders(smap, index) = {}
  BY <1>2 DEF OrderInv, BatchesConsecutive, Holders
<1> QED
  BY <1>3, <1>4, <1>5, <1>6

\* A batch the serial thread receives is not in its map yet: its first frame
\* would be in two places.
LEMMA NewInMap ==
  ASSUME LostInv, sq # <<>>, Head(sq) # Poison
  PROVE  First(Head(sq)) \notin DOMAIN smap
<1> DEFINE b == Head(sq)
           i == First(b)
<1>1. /\ TypeOK /\ IsFiniteSet(DOMAIN smap) /\ sq \in Seq(Seq(Frame)) /\ 1 \in DOMAIN sq
      /\ sq[1] = b /\ b \in Batch
  BY DEF LostInv, OrderInv, TypeOK, ChannelsOK, Batch, Poison
<1>2. Consecutive(accepted, b) /\ cnt = Len(accepted) /\ cnt \in Nat
  BY <1>1 DEF LostInv, OrderInv, BatchesConsecutive, TypeOK, FramesOK
<1>3. 1 \in DOMAIN b /\ i \in Nat /\ b[1].index = i
  <2>1. Len(b) \in Nat \ {0} /\ b \in Seq(Frame) /\ First(b) \in Nat
    BY <1>1, BatchEnds DEF Batch
  <2> HIDE DEF b
  <2> QED
    BY <2>1 DEF First
<1>4. i \in 0..cnt - 1
  <2>1. b[1].index < Len(accepted)
    BY <1>2, <1>3 DEF Consecutive
  <2> QED
    BY <1>2, <1>3, <2>1
<1>5. Total(i) <= 1
  BY <1>4 DEF LostInv
<1>6. Holders(sq, i) # {}
  <2>1. Holds(b, i)
    BY <1>3 DEF Holds
  <2>2. 1 \in Holders(sq, i)
    BY <1>1, <2>1 DEF Holders
  <2> QED
    BY <2>2
<1> HIDE DEF b, i
<1>7. ASSUME i \in DOMAIN smap PROVE FALSE
  <2>1. smap[i] \in Batch /\ First(smap[i]) = i
    BY <1>1, <1>7 DEF TypeOK, PoolsOK, LostInv, OrderInv, BatchesConsecutive
  <2>2. Holds(smap[i], i)
    <3>1. 1 \in DOMAIN smap[i]
      <4>1. Len(smap[i]) \in Nat \ {0} /\ smap[i] \in Seq(Frame)
        BY <2>1, BatchEnds DEF Batch
      <4> QED
        BY <4>1
    <3> QED
      BY <2>1, <3>1 DEF Holds, First
  <2>3. Holders(smap, i) # {}
    BY <1>7, <2>2 DEF Holders
  <2>4. IsFiniteSet(DOMAIN sq)
    <3>1. DOMAIN sq = 1..Len(sq) /\ Len(sq) \in Nat
      BY <1>1
    <3> QED
      BY <3>1, QueueFinite
  <2>5. Count(sq, i) # 0 /\ Count(smap, i) # 0
    BY <1>1, <1>6, <2>3, <2>4, CountType
  <2>6. /\ Has(stored, i) \in {0, 1} /\ Count(Carried(chan), i) \in Nat
        /\ Count(pq, i) \in Nat /\ Count(Worked(wk), i) \in Nat
        /\ Count(sq, i) \in Nat /\ Count(smap, i) \in Nat
    BY <1>1, Parts
  <2>7. Count(sq, i) >= 1 /\ Count(smap, i) >= 1
    BY <2>5, <2>6
  <2> QED
    BY <1>5, <2>6, <2>7 DEF Total
<1> QED
  BY <1>7 DEF i, b

\* A batch goes into the map, or is taken out of it.
LEMMA InsertCount ==
  ASSUME NEW map, IsFiniteSet(DOMAIN map), NEW key, key \notin DOMAIN map, NEW b, NEW index
  PROVE  /\ IsFiniteSet(DOMAIN MapInsert(map, key, b))
         /\ Count(MapInsert(map, key, b), index) = Count(map, index) + Has(b, index)
<1> DEFINE g == MapInsert(map, key, b)
<1>1. /\ DOMAIN g = DOMAIN map \cup {key} /\ g[key] = b
      /\ \A k \in DOMAIN map \ {key} : g[k] = map[k]
  BY DEF MapInsert
<1> HIDE DEF g
<1>2. /\ IsFiniteSet(DOMAIN g)
      /\ Count(g, index) = Count(map, index) + Has(g[key], index)
  BY <1>1, CountPut
<1> QED
  BY <1>1, <1>2 DEF g

LEMMA RemoveCount ==
  ASSUME NEW map, IsFiniteSet(DOMAIN map), NEW key \in DOMAIN map, NEW index
  PROVE  /\ IsFiniteSet(DOMAIN MapRemove(map, key))
         /\ Count(map, index) = Count(MapRemove(map, key), index) + Has(map[key], index)
         /\ Count(MapRemove(map, key), index) \in Nat
<1> DEFINE g == MapRemove(map, key)
<1>1. /\ DOMAIN map = DOMAIN g \cup {key} /\ key \notin DOMAIN g
      /\ \A k \in DOMAIN map \ {key} : g[k] = map[k]
  BY DEF MapRemove
<1> HIDE DEF g
<1> QED
  BY <1>1, CountTake DEF g

\* A batch moves into the serial thread's map, and from there to the channel of
\* the event loop.
LEMMA SerialLost ==
  ASSUME LostInv, OrderInv', Serial
  PROVE  LostInv'
<1>0. /\ TypeOK /\ IsFiniteSet(DOMAIN smap)
      /\ \A v \in Workers : wk[v].pc = "decode" \/ wk[v].frames = <<>>
      /\ chan \in Seq(Command) /\ sq \in Seq(Seq(Frame))
  BY DEF LostInv, OrderInv, TypeOK, ChannelsOK, PoolsOK
<1>1. UNCHANGED <<cnt, stored, pq, wk, panics, evpc>> /\ spc \notin {"ended", "dead"}
  BY DEF Serial, SerialRecv, SerialDrain, SerialWait, parallelVars, poolStutter, loopVars
<1>2. CASE SerialRecv
  <2> DEFINE b == Head(sq)
  <2>1. sq # <<>> /\ sq' = Tail(sq) /\ UNCHANGED chan
    BY <1>2 DEF SerialRecv
  <2> HIDE DEF b
  <2>2. ASSUME NEW index \in 0..cnt - 1
        PROVE  /\ Count(smap', index) \in Nat
               /\ Count(smap', index) <= Count(smap, index) + Has(b, index)
               /\ Kept(index)' => Count(smap', index) = Count(smap, index) + Has(b, index)
    <3>0. Has(b, index) \in {0, 1} /\ Count(smap, index) \in Nat
      BY <1>0, HasType, CountType
    <3>1. CASE b = Poison
      <4>1. smap' = <<>> /\ spc' = "ended" /\ snext' = snext
        BY <1>2, <3>1 DEF SerialRecv, b
      <4>2. Has(b, index) = 0
        BY <3>1, HoldsNone DEF Poison
      <4>3. Count(smap', index) = 0
        <5>1. Holders(smap', index) = {}
          BY <4>1 DEF Holders
        <5> QED
          BY <5>1, FS_EmptySet DEF Count
      <4>4. Kept(index)' => Count(smap, index) = 0
        BY <1>1, <4>1, NotInMap DEF Kept
      <4> QED
        BY <3>0, <4>2, <4>3, <4>4
    <3>2. CASE b # Poison
      <4>1. smap' = MapInsert(smap, First(b), b)
        BY <1>2, <3>2 DEF SerialRecv, b
      <4>2. First(b) \notin DOMAIN smap
        BY <2>1, <3>2, NewInMap DEF b
      <4>3. Count(MapInsert(smap, First(b), b), index) = Count(smap, index) + Has(b, index)
        BY <1>0, <4>2, InsertCount
      <4> QED
        BY <3>0, <4>1, <4>3
    <3> QED
      BY <3>1, <3>2
  <2>3. ASSUME NEW index \in 0..cnt - 1
        PROVE  /\ Total(index)' \in Nat /\ Total(index)' <= Total(index)
               /\ Kept(index)' => Total(index)' = Total(index)
    <3>1. Count(sq, index) = Has(b, index) + Count(sq', index) /\ Count(sq', index) \in Nat
      BY <1>0, <2>1, QueueTail DEF b
    <3>2. /\ Count(smap', index) \in Nat
          /\ Count(smap', index) <= Count(smap, index) + Has(b, index)
          /\ Kept(index)' => Count(smap', index) = Count(smap, index) + Has(b, index)
      BY <2>2
    <3>4. Has(b, index) \in {0, 1}
      BY HasType
    <3>5. /\ Has(stored, index) \in {0, 1} /\ Count(Carried(chan), index) \in Nat
          /\ Count(pq, index) \in Nat /\ Count(Worked(wk), index) \in Nat
          /\ Count(sq, index) \in Nat /\ Count(smap, index) \in Nat
      BY <1>0, Parts
    <3>6. /\ Count(sq', index) + Count(smap', index) <= Count(sq, index) + Count(smap, index)
          /\ Kept(index)' =>
               Count(sq', index) + Count(smap', index) = Count(sq, index) + Count(smap, index)
      BY <3>1, <3>2, <3>4, <3>5
    <3>7. Total(index)' = Has(stored, index) + Count(Carried(chan), index) + Count(pq, index)
                            + Count(Worked(wk), index) + Count(sq', index) + Count(smap', index)
      BY <1>1, <2>1 DEF Total
    <3> QED
      BY <3>1, <3>2, <3>5, <3>6, <3>7 DEF Total
  <2>4. IsFiniteSet(DOMAIN smap')
    <3>1. CASE b = Poison
      <4>1. DOMAIN smap' = {}
        BY <1>2, <3>1 DEF SerialRecv, b
      <4> QED
        BY <4>1, FS_EmptySet
    <3>2. CASE b # Poison
      <4>1. smap' = MapInsert(smap, First(b), b)
        BY <1>2, <3>2 DEF SerialRecv, b
      <4>2. First(b) \notin DOMAIN smap
        BY <2>1, <3>2, NewInMap DEF b
      <4> QED
        BY <1>0, <4>1, <4>2, InsertCount
    <3> QED
      BY <3>1, <3>2
  <2> QED
    BY <1>0, <1>1, <2>3, <2>4, Parts, LostKept
<1>3. CASE SerialDrain
  <2> DEFINE b == smap[snext]
             d == StoreFrames(b)
  <2>1. /\ snext \in DOMAIN smap /\ d \in Command /\ Load(d) = b
        /\ chan' = Append(chan, d) /\ UNCHANGED sq /\ smap' = MapRemove(smap, snext)
    <3>1. snext \in DOMAIN smap /\ b \in Batch
      BY <1>0, <1>3 DEF TypeOK, PoolsOK, SerialDrain
    <3> QED
      BY <1>3, <3>1, CommandForms DEF SerialDrain, Load, StoreFrames
  <2> HIDE DEF d, b
  <2>2. ASSUME NEW index
        PROVE  /\ IsFiniteSet(DOMAIN smap')
               /\ Count(smap, index) = Count(smap', index) + Has(b, index)
               /\ Count(smap', index) \in Nat
    BY <1>0, <2>1, RemoveCount DEF b
  <2>3. ASSUME NEW index \in 0..cnt - 1
        PROVE  Total(index)' \in Nat /\ Total(index)' = Total(index)
    <3>1. Count(Carried(chan'), index) = Count(Carried(chan), index) + Has(b, index)
      BY <1>0, <2>1, ChanAppend
    <3>2. /\ Count(smap, index) = Count(smap', index) + Has(b, index)
          /\ Count(smap', index) \in Nat
      BY <2>2
    <3>4. Has(b, index) \in {0, 1}
      BY HasType
    <3>5. /\ Has(stored, index) \in {0, 1} /\ Count(Carried(chan), index) \in Nat
          /\ Count(pq, index) \in Nat /\ Count(Worked(wk), index) \in Nat
          /\ Count(sq, index) \in Nat /\ Count(smap, index) \in Nat
      BY <1>0, Parts
    <3>6. Count(Carried(chan'), index) + Count(smap', index)
            = Count(Carried(chan), index) + Count(smap, index)
      BY <3>1, <3>2, <3>4, <3>5
    <3>7. Total(index)' = Has(stored, index) + Count(Carried(chan'), index) + Count(pq, index)
                            + Count(Worked(wk), index) + Count(sq, index) + Count(smap', index)
      BY <1>1, <2>1 DEF Total
    <3> QED
      BY <3>1, <3>2, <3>4, <3>5, <3>6, <3>7 DEF Total
  <2>4. IsFiniteSet(DOMAIN smap')
    BY <2>2
  <2> QED
    BY <1>0, <1>1, <2>3, <2>4, LostMoved
<1>4. CASE SerialWait
  <2>1. UNCHANGED <<chan, sq, smap>>
    BY <1>4 DEF SerialWait
  <2>2. ASSUME NEW index \in 0..cnt - 1
        PROVE  Total(index)' \in Nat /\ Total(index)' = Total(index)
    BY <1>0, <1>1, <2>1, Parts DEF Total
  <2> QED
    BY <1>0, <1>1, <2>1, <2>2, LostMoved
<1> QED
  BY <1>2, <1>3, <1>4 DEF Serial

\* Numbering: the new frames are in the batch that goes to the pool, and nowhere
\* else.
LEMMA ProcessInputLost ==
  ASSUME LostInv, OrderInv', ProcessInput, UNCHANGED loopStutter
  PROVE  LostInv'
<1> DEFINE layers == Head(chan).layers
           frames == [k \in 1..Len(layers) |-> NewFrame(cnt + k - 1, layers[k])]
<1>0. /\ TypeOK /\ OrderInv /\ IsFiniteSet(DOMAIN smap)
      /\ chan \in Seq(Command) /\ chan # <<>> /\ Head(chan).op = "PushFrames"
      /\ chan' = Tail(chan) /\ Load(Head(chan)) = <<>> /\ layers \in Seq(Layer)
      /\ pq \in Seq(Seq(Frame))
  BY Taken, CommandFields DEF ProcessInput, LostInv, OrderInv, TypeOK, ChannelsOK, Received, Load
<1>1. cnt = Len(accepted) /\ accepted \in Seq(Frame) /\ cnt \in Nat
  BY <1>0 DEF OrderInv, TypeOK, FramesOK, BatchesConsecutive
<1>2. /\ frames \in Seq(Frame) /\ Len(frames) = Len(layers)
      /\ \A k \in 1..Len(frames) : frames[k].index = cnt + k - 1
  <2>1. /\ frames \in Seq(Frame) /\ Len(frames) = Len(layers)
        /\ \A k \in 1..Len(frames) : frames[k].index = Len(accepted) + k - 1
        /\ Consecutive(accepted \o frames, frames)
    BY <1>0, <1>1, ConsecutiveNumbered
  <2> QED
    BY <1>1, <2>1
<1>3. /\ cnt' = cnt + Len(layers) /\ pq' = Append(pq, frames)
      /\ UNCHANGED <<stored, wk, sq, smap, panics, spc, snext>> /\ evpc # "ended"
  BY DEF ProcessInput, Numbered, Received, loopStutter
<1> HIDE DEF frames
<1>4. Len(frames) \in Nat /\ DOMAIN frames = 1..Len(frames)
  BY <1>2
<1>5. ASSUME NEW index
      PROVE  /\ Total(index)' = Total(index) + Has(frames, index)
             /\ Total(index) \in Nat
  <2>1. Count(pq', index) = Count(pq, index) + Has(frames, index)
    BY <1>0, <1>2, <1>3, QueueAppend
  <2>2. Count(Carried(chan), index) = Count(Carried(chan'), index)
    <3>1. /\ Count(Carried(chan), index)
               = Has(Load(Head(chan)), index) + Count(Carried(chan'), index)
          /\ Count(Carried(chan'), index) \in Nat
      BY <1>0, ChanTail
    <3> QED
      BY <1>0, <3>1, HoldsNone
  <2>3. Has(frames, index) \in {0, 1}
    BY HasType
  <2>4. /\ Has(stored, index) \in {0, 1} /\ Count(Carried(chan), index) \in Nat
        /\ Count(pq, index) \in Nat /\ Count(Worked(wk), index) \in Nat
        /\ Count(sq, index) \in Nat /\ Count(smap, index) \in Nat
    BY <1>0, Parts
  <2>5. Total(index)' = Has(stored, index) + Count(Carried(chan), index) + Count(pq', index)
                          + Count(Worked(wk), index) + Count(sq, index) + Count(smap, index)
    BY <1>3, <2>2 DEF Total
  <2> QED
    BY <2>1, <2>3, <2>4, <2>5 DEF Total
<1>6. ASSUME NEW index \in 0..cnt' - 1
      PROVE  Total(index)' <= 1 /\ (Kept(index)' => Total(index)' = 1)
  <2>1. Total(index)' = Total(index) + Has(frames, index) /\ Total(index) \in Nat
    BY <1>5
  <2>2. CASE index < cnt
    <3>1. Has(frames, index) = 0
      <4>1. \A k \in 1..Len(frames) : frames[k].index # index
        <5>1. TAKE k \in 1..Len(frames)
        <5>2. frames[k].index = cnt + k - 1 /\ k >= 1 /\ k \in Nat
          BY <1>2, <1>4
        <5> QED
          BY <1>1, <2>2, <5>2
      <4> QED
        BY <1>4, <4>1 DEF Has, Holds
    <3>2. index \in 0..cnt - 1
      BY <1>1, <2>2
    <3>3. Total(index) <= 1 /\ (Kept(index) => Total(index) = 1)
      BY <3>2 DEF LostInv
    <3>4. Kept(index)' => Kept(index)
      BY <1>3 DEF Kept
    <3> QED
      BY <2>1, <3>1, <3>3, <3>4
  <2>3. CASE cnt <= index
    <3>1. Has(frames, index) = 1
      <4>1. index - cnt + 1 \in 1..Len(frames) /\ cnt + (index - cnt + 1) - 1 = index
        BY <1>1, <1>2, <1>3, <1>4, <2>3
      <4>2. frames[index - cnt + 1].index = index
        BY <1>2, <4>1
      <4> QED
        BY <1>4, <4>1, <4>2 DEF Has, Holds
    <3>2. Total(index) = 0
      <4>1. index \in Nat
        BY <1>1, <1>2, <1>3, <1>4
      <4>2. /\ ~Holds(stored, index)
            /\ Holders(Carried(chan), index) = {} /\ Holders(pq, index) = {}
            /\ Holders(Worked(wk), index) = {} /\ Holders(sq, index) = {}
            /\ Holders(smap, index) = {}
        BY <1>0, <2>3, <4>1, HeldBelow
      <4>3. /\ Has(stored, index) = 0 /\ Count(Carried(chan), index) = 0
            /\ Count(pq, index) = 0 /\ Count(Worked(wk), index) = 0
            /\ Count(sq, index) = 0 /\ Count(smap, index) = 0
        BY <4>2, FS_EmptySet DEF Has, Count
      <4> QED
        BY <4>3 DEF Total
    <3> QED
      BY <2>1, <3>1, <3>2
  <2>4. index < cnt \/ cnt <= index
    BY <1>1, <1>2, <1>3, <1>4
  <2> QED
    BY <2>2, <2>3, <2>4
<1> QED
  BY <1>3, <1>6 DEF LostInv

\* A batch goes to the serial thread.
LEMMA ProcessSerialLost ==
  ASSUME LostInv, OrderInv', ProcessSerial, UNCHANGED loopStutter
  PROVE  LostInv'
<1> DEFINE b == Load(Head(chan))
<1>0. /\ TypeOK /\ IsFiniteSet(DOMAIN smap)
      /\ chan \in Seq(Command) /\ chan # <<>> /\ chan' = Tail(chan)
      /\ sq \in Seq(Seq(Frame)) /\ sq' = Append(sq, b) /\ b \in Seq(Frame)
      /\ UNCHANGED <<cnt, stored, pq, wk, smap, panics, spc, snext>> /\ evpc # "ended"
      /\ \A v \in Workers : wk[v].pc = "decode" \/ wk[v].frames = <<>>
  <2>1. /\ TypeOK /\ chan \in Seq(Command) /\ chan # <<>> /\ chan' = Tail(chan)
        /\ Head(chan).op = "PushSerialFrames" /\ Head(chan) \in Command
    BY Taken DEF ProcessSerial, Received, LostInv, OrderInv, TypeOK, ChannelsOK
  <2>2. Head(chan).frames \in Batch /\ b = Head(chan).frames
    BY <2>1, CommandFields DEF Load
  <2> QED
    BY <2>1, <2>2 DEF ProcessSerial, Received, LostInv, TypeOK, ChannelsOK, loopVars, loopStutter,
       Batch
<1> HIDE DEF b
<1>1. ASSUME NEW index \in 0..cnt - 1
      PROVE  Total(index)' \in Nat /\ Total(index)' = Total(index)
  <2>1. /\ Count(Carried(chan), index) = Has(b, index) + Count(Carried(chan'), index)
        /\ Count(Carried(chan'), index) \in Nat
    BY <1>0, ChanTail DEF b
  <2>2. Count(sq', index) = Count(sq, index) + Has(b, index)
    BY <1>0, QueueAppend
  <2>3. Has(b, index) \in {0, 1}
    BY HasType
  <2>4. /\ Has(stored, index) \in {0, 1} /\ Count(Carried(chan), index) \in Nat
        /\ Count(pq, index) \in Nat /\ Count(Worked(wk), index) \in Nat
        /\ Count(sq, index) \in Nat /\ Count(smap, index) \in Nat
    BY <1>0, Parts
  <2>5. /\ Count(Carried(chan'), index) + Count(sq', index)
             = Count(Carried(chan), index) + Count(sq, index)
        /\ Count(sq', index) \in Nat
    BY <2>1, <2>2, <2>3, <2>4
  <2>6. Total(index)' = Has(stored, index) + Count(Carried(chan'), index) + Count(pq, index)
                          + Count(Worked(wk), index) + Count(sq', index) + Count(smap, index)
    BY <1>0 DEF Total
  <2> QED
    BY <2>1, <2>4, <2>5, <2>6 DEF Total
<1> QED
  BY <1>0, <1>1, LostMoved

\* A batch goes into the store, which does not hold it yet.
LEMMA ProcessStoreLost ==
  ASSUME LostInv, OrderInv', ProcessStore, UNCHANGED loopStutter
  PROVE  LostInv'
<1> DEFINE b == Load(Head(chan))
<1>0. /\ TypeOK /\ IsFiniteSet(DOMAIN smap)
      /\ chan \in Seq(Command) /\ chan # <<>> /\ chan' = Tail(chan)
      /\ stored \in Seq(Frame) /\ stored' = stored \o b /\ b \in Seq(Frame)
      /\ UNCHANGED <<cnt, pq, wk, sq, smap, panics, spc, snext>> /\ evpc # "ended"
      /\ \A v \in Workers : wk[v].pc = "decode" \/ wk[v].frames = <<>>
  <2>1. /\ TypeOK /\ chan \in Seq(Command) /\ chan # <<>> /\ chan' = Tail(chan)
        /\ Head(chan).op = "StoreFrames" /\ Head(chan) \in Command
    BY Taken DEF ProcessStore, Received, LostInv, OrderInv, TypeOK, ChannelsOK
  <2>2. Head(chan).frames \in Batch /\ b = Head(chan).frames
    BY <2>1, CommandFields DEF Load
  <2> QED
    BY <2>1, <2>2 DEF ProcessStore, Received, LostInv, TypeOK, FramesOK, queues, loopStutter, Batch
<1> HIDE DEF b
<1>1. ASSUME NEW index \in 0..cnt - 1
      PROVE  Total(index)' \in Nat /\ Total(index)' = Total(index)
  <2>1. /\ Count(Carried(chan), index) = Has(b, index) + Count(Carried(chan'), index)
        /\ Count(Carried(chan'), index) \in Nat
    BY <1>0, ChanTail DEF b
  <2>2. /\ Has(b, index) \in {0, 1} /\ (Has(b, index) = 1 <=> Holds(b, index))
        /\ Has(stored, index) \in {0, 1} /\ (Has(stored, index) = 1 <=> Holds(stored, index))
        /\ Has(stored', index) \in {0, 1} /\ (Has(stored', index) = 1 <=> Holds(stored', index))
    BY HasType
  <2>3. Holds(stored', index) <=> Holds(stored, index) \/ Holds(b, index)
    BY <1>0, HoldsConcat
  <2>4. /\ Count(Carried(chan), index) \in Nat
        /\ Count(pq, index) \in Nat /\ Count(Worked(wk), index) \in Nat
        /\ Count(sq, index) \in Nat /\ Count(smap, index) \in Nat
    BY <1>0, Parts
  <2>5. ~(Has(stored, index) = 1 /\ Has(b, index) = 1)
    <3>1. Total(index) <= 1
      BY DEF LostInv
    <3> QED
      BY <2>1, <2>2, <2>4, <3>1 DEF Total
  <2>6. Has(stored', index) + Count(Carried(chan'), index)
          = Has(stored, index) + Count(Carried(chan), index)
    BY <2>1, <2>2, <2>3, <2>4, <2>5
  <2>7. Total(index)' = Has(stored', index) + Count(Carried(chan'), index) + Count(pq, index)
                          + Count(Worked(wk), index) + Count(sq, index) + Count(smap, index)
    BY <1>0 DEF Total
  <2> QED
    BY <2>1, <2>2, <2>4, <2>6, <2>7 DEF Total
<1> QED
  BY <1>0, <1>1, LostMoved

\* The other steps: a command without frames comes or goes, or the channel goes
\* with the event loop, and the queues of the pools get nothing but the messages
\* that stop the threads.
LEMMA LostRest ==
  ASSUME LostInv, OrderInv', UNCHANGED <<cnt, stored, wk, smap, spc, snext>>,
         panics' = 0 => panics = 0,
         evpc = "ended" => evpc' = "ended",
         \/ UNCHANGED chan
         \/ evpc' = "ended" /\ chan' = <<>>
         \/ \E d \in Command : Load(d) = <<>> /\ chan' = Append(chan, d)
         \/ chan # <<>> /\ Load(Head(chan)) = <<>> /\ chan' = Tail(chan),
         pq' = pq \/ pq' = pq \o Poisons,
         sq' = sq \/ sq' = Append(sq, Poison)
  PROVE  LostInv'
<1>0. /\ TypeOK /\ IsFiniteSet(DOMAIN smap)
      /\ chan \in Seq(Command) /\ pq \in Seq(Seq(Frame)) /\ sq \in Seq(Seq(Frame))
      /\ \A v \in Workers : wk[v].pc = "decode" \/ wk[v].frames = <<>>
  BY DEF LostInv, OrderInv, TypeOK, ChannelsOK
<1>1. ASSUME NEW index \in 0..cnt - 1
      PROVE  /\ Total(index)' \in Nat /\ Total(index)' <= Total(index)
             /\ Kept(index)' => Total(index)' = Total(index)
  <2>0. /\ Has(stored, index) \in {0, 1} /\ Count(Carried(chan), index) \in Nat
        /\ Count(pq, index) \in Nat /\ Count(Worked(wk), index) \in Nat
        /\ Count(sq, index) \in Nat /\ Count(smap, index) \in Nat
        /\ Total(index) \in Nat
    BY <1>0, Parts
  <2>1. /\ Count(Carried(chan'), index) \in Nat
        /\ Count(Carried(chan'), index) <= Count(Carried(chan), index)
        /\ evpc' # "ended" => Count(Carried(chan'), index) = Count(Carried(chan), index)
    <3>1. ASSUME NEW d \in Command, Load(d) = <<>>, chan' = Append(chan, d)
          PROVE  Count(Carried(chan'), index) = Count(Carried(chan), index)
      <4>1. Count(Carried(chan'), index) = Count(Carried(chan), index) + Has(Load(d), index)
        BY <1>0, <3>1, ChanAppend
      <4> QED
        BY <2>0, <3>1, <4>1, HoldsNone
    <3>2. CASE chan # <<>> /\ Load(Head(chan)) = <<>> /\ chan' = Tail(chan)
      <4>1. /\ Count(Carried(chan), index)
                 = Has(Load(Head(chan)), index) + Count(Carried(chan'), index)
            /\ Count(Carried(chan'), index) \in Nat
        BY <1>0, <3>2, ChanTail
      <4> QED
        BY <3>2, <4>1, HoldsNone
    <3>3. CASE evpc' = "ended" /\ chan' = <<>>
      <4>1. Holders(Carried(chan'), index) = {}
        BY <3>3 DEF Holders, Carried
      <4>2. Count(Carried(chan'), index) = 0
        BY <4>1, FS_EmptySet DEF Count
      <4> QED
        BY <2>0, <3>3, <4>2
    <3> QED
      BY <2>0, <3>1, <3>2, <3>3
  <2>2. Count(pq', index) = Count(pq, index)
    BY <1>0, QueuePoisons
  <2>3. Count(sq', index) = Count(sq, index)
    <3>1. CASE sq' = Append(sq, Poison)
      <4>1. Poison \in Seq(Frame) /\ Has(Poison, index) = 0
        BY HoldsNone DEF Poison
      <4>2. Count(sq', index) = Count(sq, index) + Has(Poison, index)
        BY <1>0, <3>1, <4>1, QueueAppend
      <4> QED
        BY <2>0, <4>1, <4>2
    <3> QED
      BY <3>1
  <2>4. Total(index)' = Has(stored, index) + Count(Carried(chan'), index) + Count(pq', index)
                          + Count(Worked(wk), index) + Count(sq', index) + Count(smap, index)
    BY DEF Total
  <2>5. Kept(index)' => evpc' # "ended"
    BY DEF Kept
  <2>6. /\ Count(Carried(chan'), index) \in Nat
        /\ Count(Carried(chan'), index) <= Count(Carried(chan), index)
    BY <2>1
  <2> DEFINE rest == Has(stored, index) + Count(pq, index) + Count(Worked(wk), index)
                       + Count(sq, index) + Count(smap, index)
  <2>7. Total(index)' \in Nat /\ Total(index)' <= Total(index)
    <3>1. rest \in Nat
      BY <2>0
    <3>2. Total(index) = rest + Count(Carried(chan), index)
      BY <2>0 DEF Total
    <3>3. Total(index)' = rest + Count(Carried(chan'), index)
      BY <2>0, <2>2, <2>3, <2>4, <2>6
    <3> HIDE DEF rest
    <3> QED
      BY <2>0, <2>6, <3>1, <3>2, <3>3
  <2>8. CASE Count(Carried(chan'), index) = Count(Carried(chan), index)
    <3>1. Total(index)' = Total(index)
      BY <2>0, <2>2, <2>3, <2>4, <2>8 DEF Total
    <3> QED
      BY <2>7, <3>1
  <2>9. CASE evpc' = "ended"
    BY <2>5, <2>7, <2>9
  <2> QED
    BY <2>1, <2>8, <2>9
<1> QED
  BY <1>0, <1>1, Parts, LostKept

LEMMA InitLost == Init => LostInv
<1> SUFFICES ASSUME Init PROVE LostInv
  OBVIOUS
<1>1. cnt = 0 /\ smap = <<>>
  BY DEF Init, SerialInit
<1>2. IsFiniteSet(DOMAIN smap)
  <2>1. DOMAIN smap = {}
    BY <1>1
  <2> QED
    BY <2>1, FS_EmptySet
<1>3. \A w \in Workers : wk[w].frames = <<>>
  BY DEF Init, ParallelInit, Waiting
<1>4. 0..cnt - 1 = {}
  BY <1>1
<1> QED
  BY <1>2, <1>3, <1>4, InitOrder DEF LostInv

LEMMA EventLoopLost ==
  ASSUME LostInv, OrderInv', EventLoop
  PROVE  LostInv'
<1>0. /\ UNCHANGED loopStutter /\ UNCHANGED <<panics, wk, smap, spc, snext>>
      /\ chan \in Seq(Command)
  BY DEF EventLoop, loopStutter, LostInv, OrderInv, TypeOK, ChannelsOK
<1>1. CASE ProcessInput
  BY <1>0, <1>1, ProcessInputLost
<1>2. CASE ProcessSerial
  BY <1>0, <1>2, ProcessSerialLost
<1>3. CASE ProcessStore
  BY <1>0, <1>3, ProcessStoreLost
<1>4. CASE ProcessInputError \/ ProcessPushFilter \/ ProcessRemoveFilter \/ ProcessOutput
             \/ ProcessClose
  <2>1. chan # <<>> /\ Load(Head(chan)) = <<>> /\ chan' = Tail(chan)
    BY <1>4 DEF ProcessInputError, ProcessPushFilter, ProcessRemoveFilter, ProcessOutput,
       ProcessClose, Received, Load
  <2>2. UNCHANGED <<cnt, stored, pq, sq>>
    BY <1>4 DEF ProcessInputError, ProcessPushFilter, ProcessRemoveFilter, ProcessOutput,
       ProcessClose, queues, loopVars
  <2>3. evpc # "ended"
    BY <1>4 DEF ProcessInputError, ProcessPushFilter, ProcessRemoveFilter, ProcessOutput,
       ProcessClose, Received
  <2> QED
    BY <1>0, <2>1, <2>2, <2>3, LostRest
<1>5. ASSUME evpc # "ended", UNCHANGED <<chan, pq, sq, cnt, stored>>
      PROVE  LostInv'
  BY <1>0, <1>5, LostRest
<1>6. CASE \/ AnnounceFrames \/ UnlinkFiltered \/ AnnounceFiltered
           \/ OutputWrite \/ OutputWriteError \/ OutputFinish
  BY <1>5, <1>6 DEF AnnounceFrames, UnlinkFiltered, AnnounceFiltered, OutputWrite,
     OutputWriteError, OutputFinish, Finished, queues, loopVars
<1>7. CASE JoinSerial \/ JoinParallel
  BY <1>5, <1>7 DEF JoinSerial, JoinParallel, queues, loopVars
<1>8. ASSUME NEW id \in FilterIds, ScanFilter(id)
      PROVE  LostInv'
  BY <1>5, <1>8 DEF ScanFilter, queues, loopVars
<1>9. CASE DropSerial
  BY <1>0, <1>9, LostRest DEF DropSerial, loopVars
<1>10. CASE DropParallel
  BY <1>0, <1>10, LostRest DEF DropParallel, loopVars
<1>11. CASE LoopExit
  BY <1>0, <1>11, LostRest DEF LoopExit, queues, loopVars
<1> QED
  BY <1>1, <1>2, <1>3, <1>4, <1>6, <1>7, <1>8, <1>9, <1>10, <1>11 DEF EventLoop

\* What the session and the readers send carries no frames.
LEMMA CallerLost ==
  ASSUME LostInv, OrderInv', Caller
  PROVE  LostInv'
<1>0. /\ UNCHANGED <<cnt, stored, pq, wk, sq, smap, panics, spc, snext, evpc>>
      /\ TypeOK /\ \A w \in Workers : wk[w].pc = "decode" \/ wk[w].frames = <<>>
  BY DEF Caller, callerStutter, parallelVars, serialVars, loopVars, LostInv, OrderInv
<1>1. CASE CreateReader \/ CreateFails \/ \E i \in Ids : CloseReader(i)
  BY <1>0, <1>1, LostRest DEF CreateReader, CreateFails, CloseReader
<1>2. CASE CreateWriter
  <2>1. PICK filter \in Filters \cup {NoFilter} :
          chan' = Append(chan, PushOutput(ioCnt', filter))
    BY <1>2 DEF CreateWriter
  <2>2. ioCnt' \in Ids
    BY <1>0, <1>2, MaxIoAssumption DEF CreateWriter, TypeOK, ControlOK, Ids
  <2>3. PushOutput(ioCnt', filter) \in Command /\ Load(PushOutput(ioCnt', filter)) = <<>>
    BY <2>2, CommandForms DEF PushOutput, Load
  <2> QED
    BY <1>0, <2>1, <2>3, LostRest
<1>3. CASE CallSetFilter
  <2>1. PICK id \in FilterIds, filter \in Filters \cup {NoFilter} :
          chan' = Append(chan, SetFilter(id, filter))
    BY <1>3 DEF CallSetFilter
  <2>2. SetFilter(id, filter) \in Command /\ Load(SetFilter(id, filter)) = <<>>
    BY CommandForms DEF SetFilter, Load
  <2> QED
    BY <1>0, <2>1, <2>2, LostRest
<1>4. CASE DropLoop
  <2>1. Close \in Command /\ Load(Close) = <<>>
    BY CommandForms DEF Close, Load
  <2> QED
    BY <1>0, <1>4, <2>1, LostRest DEF DropLoop
<1> QED
  BY <1>1, <1>2, <1>3, <1>4 DEF Caller

LEMMA ReaderLost ==
  ASSUME LostInv, OrderInv', NEW i \in Ids, Reader(i)
  PROVE  LostInv'
<1>0. UNCHANGED <<cnt, stored, pq, wk, sq, smap, panics, spc, snext, evpc>> /\ TypeOK
  BY DEF Reader, ReaderCheck, ReaderRead, ReaderFail, readerStutter, parallelVars, serialVars,
     loopVars, LostInv, OrderInv
<1>1. CASE ReaderCheck(i)
  BY <1>0, <1>1, LostRest DEF ReaderCheck
<1>2. CASE ReaderRead(i)
  <2>1. PICK n \in 0..MaxBatch :
          chan' = IF n = 0
                  THEN chan
                  ELSE Append(chan, PushFrames(i,
                         [k \in 1..n |-> [src |-> i, seq |-> nread[i] + k]]))
    BY <1>2 DEF ReaderRead
  <2>2. n \in Nat /\ nread[i] \in Nat
    BY <1>0, ReadAssumption DEF TypeOK, ReadersOK
  <2>3. [k \in 1..n |-> [src |-> i, seq |-> nread[i] + k]] \in Seq(Layer)
    BY <2>2, ReadLayers
  <2> DEFINE d == PushFrames(i, [k \in 1..n |-> [src |-> i, seq |-> nread[i] + k]])
  <2>4. d \in Command /\ Load(d) = <<>>
    BY <2>3, CommandForms DEF PushFrames, Load
  <2> HIDE DEF d
  <2> QED
    BY <1>0, <2>1, <2>4, LostRest DEF d
<1>3. CASE ReaderFail(i)
  <2>1. PushError(i) \in Command /\ Load(PushError(i)) = <<>>
    BY CommandForms DEF PushError, Load
  <2> QED
    BY <1>0, <1>3, <2>1, LostRest DEF ReaderFail
<1> QED
  BY <1>1, <1>2, <1>3 DEF Reader

LEMMA DropLost ==
  ASSUME LostInv, OrderInv', Drop
  PROVE  LostInv'
<1>1. UNCHANGED <<chan, cnt, stored, pq, wk, sq, smap, panics, spc, snext, evpc>>
  BY DEF Drop, JoinLoop, DropInput, JoinInput, Closed, callerStutter, parallelVars, serialVars,
     loopVars
<1> QED
  BY <1>1, LostRest

\* A panic loses the batch of its thread, and the whole map of the serial one.
LEMMA PanicLost ==
  ASSUME LostInv, OrderInv', Panic
  PROVE  LostInv'
<1>0. /\ TypeOK /\ IsFiniteSet(DOMAIN smap) /\ panics \in Nat /\ DOMAIN wk = Workers
      /\ \A v \in Workers : wk[v].pc = "decode" \/ wk[v].frames = <<>>
  BY DEF LostInv, OrderInv, TypeOK, PoolsOK, ControlOK
<1>1. ASSUME NEW w \in Workers, WorkerPanic(w), UNCHANGED <<serialVars, poolStutter>>
      PROVE  LostInv'
  <2>1. /\ UNCHANGED <<chan, pq, cnt, stored, sq, smap, spc, snext, evpc>> /\ panics' # 0
        /\ wk' = [wk EXCEPT ![w] = Panicked] /\ Panicked.frames = <<>>
    BY <1>0, <1>1 DEF WorkerPanic, Panicked, serialVars, poolStutter, loopVars
  <2>2. /\ DOMAIN wk' = Workers /\ wk'[w] = Panicked
        /\ \A v \in Workers \ {w} : wk'[v] = wk[v]
        /\ \A v \in Workers : wk'[v].pc = "decode" \/ wk'[v].frames = <<>>
    BY <1>0, <2>1
  <2>3. ASSUME NEW index \in 0..cnt - 1
        PROVE  Total(index)' \in Nat /\ Total(index)' <= Total(index)
    <3>1. /\ Count(Worked(wk'), index) + Has(wk[w].frames, index)
               = Count(Worked(wk), index) + Has(wk'[w].frames, index)
          /\ Count(Worked(wk'), index) \in Nat
      BY <1>0, <2>2, WorkedChange
    <3>2. Has(wk'[w].frames, index) = 0 /\ Has(wk[w].frames, index) \in {0, 1}
      BY <2>1, <2>2, HoldsNone, HasType
    <3>3. /\ Has(stored, index) \in {0, 1} /\ Count(Carried(chan), index) \in Nat
          /\ Count(pq, index) \in Nat /\ Count(Worked(wk), index) \in Nat
          /\ Count(sq, index) \in Nat /\ Count(smap, index) \in Nat
      BY <1>0, Parts
    <3>4. Total(index)' = Has(stored, index) + Count(Carried(chan), index) + Count(pq, index)
                            + Count(Worked(wk'), index) + Count(sq, index) + Count(smap, index)
      BY <2>1 DEF Total
    <3> QED
      BY <3>1, <3>2, <3>3, <3>4 DEF Total
  <2> QED
    BY <1>0, <2>1, <2>2, <2>3, LostKept DEF Kept
<1>2. ASSUME SerialPanic, UNCHANGED <<parallelVars, poolStutter>>
      PROVE  LostInv'
  <2>1. /\ UNCHANGED <<chan, pq, wk, sq, cnt, stored, evpc>>
        /\ smap' = <<>> /\ panics' # 0 /\ spc # "ended"
    BY <1>0, <1>2 DEF SerialPanic, parallelVars, poolStutter, loopVars
  <2>2. DOMAIN smap' = {}
    BY <2>1
  <2>3. ASSUME NEW index \in 0..cnt - 1
        PROVE  Total(index)' \in Nat /\ Total(index)' <= Total(index)
    <3>1. Count(smap', index) = 0
      <4>1. Holders(smap', index) = {}
        BY <2>2 DEF Holders
      <4> QED
        BY <4>1, FS_EmptySet DEF Count
    <3>2. /\ Has(stored, index) \in {0, 1} /\ Count(Carried(chan), index) \in Nat
          /\ Count(pq, index) \in Nat /\ Count(Worked(wk), index) \in Nat
          /\ Count(sq, index) \in Nat /\ Count(smap, index) \in Nat
      BY <1>0, Parts
    <3>3. Total(index)' = Has(stored, index) + Count(Carried(chan), index) + Count(pq, index)
                            + Count(Worked(wk), index) + Count(sq, index) + Count(smap', index)
      BY <2>1 DEF Total
    <3> QED
      BY <3>1, <3>2, <3>3 DEF Total
  <2>4. IsFiniteSet(DOMAIN smap')
    BY <2>2, FS_EmptySet
  <2> QED
    BY <1>0, <2>1, <2>3, <2>4, LostKept DEF Kept
<1>3. ASSUME NEW i \in Ids, ReaderPanic(i), UNCHANGED readerStutter
      PROVE  LostInv'
  <2>1. UNCHANGED <<chan, cnt, stored, pq, wk, sq, smap, spc, snext, evpc>> /\ panics' # 0
    BY <1>0, <1>3 DEF ReaderPanic, readerStutter, parallelVars, serialVars, loopVars
  <2> QED
    BY <2>1, LostRest
<1>4. CASE PluginPanic
  <2>1. UNCHANGED <<chan, cnt, stored, pq, wk, sq, smap, spc, snext>>
    BY <1>4 DEF PluginPanic, parallelVars, serialVars, loopVars
  <2>2. panics' # 0
    BY <1>0, <1>4 DEF PluginPanic
  <2>3. evpc # "ended"
    BY <1>4 DEF PluginPanic
  <2> QED
    BY <2>1, <2>2, <2>3, LostRest
<1> QED
  BY <1>1, <1>2, <1>3, <1>4 DEF Panic

LEMMA NextLost == LostInv /\ [Next]_vars => LostInv'
<1> SUFFICES ASSUME LostInv, [Next]_vars PROVE LostInv'
  OBVIOUS
<1>0. OrderInv'
  BY NextOrder DEF LostInv
<1>1. CASE UNCHANGED vars
  <2>1. UNCHANGED <<chan, cnt, stored, pq, wk, sq, smap, panics, spc, snext, evpc>>
    BY <1>1 DEF vars, parallelVars, serialVars, loopVars
  <2> QED
    BY <1>0, <2>1, LostRest
<1>2. CASE Next
  BY <1>0, <1>1, <1>2, WorkerLost, SerialLost, ReaderLost, EventLoopLost, CallerLost, DropLost,
     PanicLost
  DEF Next, Terminated
<1> QED
  BY <1>1, <1>2

LEMMA LostKeeps == Spec => []LostInv
<1> QED
  BY InitLost, NextLost, PTL DEF Spec

-----------------------------------------------------------------------------
(* NothingLost counts the places as one set.                               *)

\* One of the places that hold the frame of an index.
IsPlace(x, index) ==
  \/ x = <<"stored", 0, stored>> /\ Holds(stored, index)
  \/ \E k \in Holders(Carried(chan), index) : x = <<"chan", k, chan[k].frames>>
  \/ \E k \in Holders(pq, index) : x = <<"pq", k, pq[k]>>
  \/ \E w \in Holders(Worked(wk), index) : x = <<"wk", w, wk[w].frames>>
  \/ \E k \in Holders(sq, index) : x = <<"sq", k, sq[k]>>
  \/ \E k \in Holders(smap, index) : x = <<"smap", k, smap[k]>>

LEMMA HoldingPlaces ==
  ASSUME TypeOK, NEW index, NEW x
  PROVE  x \in Holding(Containers, index) <=> IsPlace(x, index)
<1>0. DOMAIN wk = Workers
  BY DEF TypeOK, PoolsOK
<1>1. \A k : k \in Holders(Carried(chan), index)
               <=> /\ k \in DOMAIN chan
                   /\ chan[k].op \in {"PushSerialFrames", "StoreFrames"}
                   /\ Holds(chan[k].frames, index)
  BY HoldsNone DEF Holders, Carried, Load
<1>2. \A w : w \in Holders(Worked(wk), index) <=> w \in Workers /\ Holds(wk[w].frames, index)
  BY <1>0 DEF Holders, Worked
<1>3. x \in Holding(Containers, index) <=> x \in Containers /\ Holds(x[3], index)
  BY DEF Holding, Holds
<1>4. ASSUME x \in Containers, Holds(x[3], index) PROVE IsPlace(x, index)
  <2>1. CASE x = <<"stored", 0, stored>>
    BY <1>4, <2>1 DEF IsPlace
  <2>2. ASSUME NEW k \in DOMAIN chan, chan[k].op \in {"PushSerialFrames", "StoreFrames"},
               x = <<"chan", k, chan[k].frames>>
        PROVE  IsPlace(x, index)
    BY <1>1, <1>4, <2>2 DEF IsPlace
  <2>3. ASSUME NEW k \in DOMAIN pq, x = <<"pq", k, pq[k]>> PROVE IsPlace(x, index)
    BY <1>4, <2>3 DEF IsPlace, Holders
  <2>4. ASSUME NEW w \in Workers, x = <<"wk", w, wk[w].frames>> PROVE IsPlace(x, index)
    BY <1>2, <1>4, <2>4 DEF IsPlace
  <2>5. ASSUME NEW k \in DOMAIN sq, x = <<"sq", k, sq[k]>> PROVE IsPlace(x, index)
    BY <1>4, <2>5 DEF IsPlace, Holders
  <2>6. ASSUME NEW k \in DOMAIN smap, x = <<"smap", k, smap[k]>> PROVE IsPlace(x, index)
    BY <1>4, <2>6 DEF IsPlace, Holders
  <2> QED
    BY <1>4, <2>1, <2>2, <2>3, <2>4, <2>5, <2>6 DEF Containers
<1>5. ASSUME IsPlace(x, index) PROVE x \in Containers /\ Holds(x[3], index)
  <2>1. CASE x = <<"stored", 0, stored>> /\ Holds(stored, index)
    BY <2>1 DEF Containers
  <2>2. ASSUME NEW k \in Holders(Carried(chan), index), x = <<"chan", k, chan[k].frames>>
        PROVE  x \in Containers /\ Holds(x[3], index)
    BY <1>1, <2>2 DEF Containers
  <2>3. ASSUME NEW k \in Holders(pq, index), x = <<"pq", k, pq[k]>>
        PROVE  x \in Containers /\ Holds(x[3], index)
    BY <2>3 DEF Containers, Holders
  <2>4. ASSUME NEW w \in Holders(Worked(wk), index), x = <<"wk", w, wk[w].frames>>
        PROVE  x \in Containers /\ Holds(x[3], index)
    BY <1>2, <2>4 DEF Containers
  <2>5. ASSUME NEW k \in Holders(sq, index), x = <<"sq", k, sq[k]>>
        PROVE  x \in Containers /\ Holds(x[3], index)
    BY <2>5 DEF Containers, Holders
  <2>6. ASSUME NEW k \in Holders(smap, index), x = <<"smap", k, smap[k]>>
        PROVE  x \in Containers /\ Holds(x[3], index)
    BY <2>6 DEF Containers, Holders
  <2> QED
    BY <1>5, <2>1, <2>2, <2>3, <2>4, <2>5, <2>6 DEF IsPlace
<1> QED
  BY <1>3, <1>4, <1>5

\* The count of the places is the sum, as long as it is not more than one.
LEMMA PlacesCounted ==
  ASSUME TypeOK, IsFiniteSet(DOMAIN smap), NEW index, Total(index) <= 1
  PROVE  Cardinality(Holding(Containers, index)) = Total(index)
<1> DEFINE S == Holding(Containers, index)
<1>1. /\ Has(stored, index) \in {0, 1} /\ Count(Carried(chan), index) \in Nat
      /\ Count(pq, index) \in Nat /\ Count(Worked(wk), index) \in Nat
      /\ Count(sq, index) \in Nat /\ Count(smap, index) \in Nat
  BY Parts
<1>2. /\ IsFiniteSet(DOMAIN Carried(chan)) /\ IsFiniteSet(DOMAIN pq)
      /\ IsFiniteSet(DOMAIN Worked(wk)) /\ IsFiniteSet(DOMAIN sq)
  <2>1. /\ DOMAIN Carried(chan) = 1..Len(chan) /\ Len(chan) \in Nat
        /\ DOMAIN pq = 1..Len(pq) /\ Len(pq) \in Nat
        /\ DOMAIN sq = 1..Len(sq) /\ Len(sq) \in Nat
        /\ DOMAIN Worked(wk) = Workers
    BY DEF TypeOK, ChannelsOK, PoolsOK, Carried, Worked
  <2> QED
    BY <2>1, QueueFinite, PoolFinite
<1>3. /\ Has(stored, index) = 0 => ~Holds(stored, index)
      /\ Has(stored, index) = 1 => Holds(stored, index)
  BY DEF Has
<1>4. /\ Count(Carried(chan), index) = 0 => Holders(Carried(chan), index) = {}
      /\ Count(pq, index) = 0 => Holders(pq, index) = {}
      /\ Count(Worked(wk), index) = 0 => Holders(Worked(wk), index) = {}
      /\ Count(sq, index) = 0 => Holders(sq, index) = {}
      /\ Count(smap, index) = 0 => Holders(smap, index) = {}
  BY <1>2, CountType
<1>5. /\ Count(Carried(chan), index) = 1 => \E k : Holders(Carried(chan), index) = {k}
      /\ Count(pq, index) = 1 => \E k : Holders(pq, index) = {k}
      /\ Count(Worked(wk), index) = 1 => \E k : Holders(Worked(wk), index) = {k}
      /\ Count(sq, index) = 1 => \E k : Holders(sq, index) = {k}
      /\ Count(smap, index) = 1 => \E k : Holders(smap, index) = {k}
  BY <1>2, CountType
<1>6. \A x : x \in S <=> IsPlace(x, index)
  BY HoldingPlaces
<1> HIDE DEF S
<1>7. ASSUME S = {} PROVE Cardinality(S) = 0
  BY <1>7, FS_EmptySet
<1> DEFINE a == Has(stored, index)
           b == Count(Carried(chan), index)
           c == Count(pq, index)
           d == Count(Worked(wk), index)
           e == Count(sq, index)
           f == Count(smap, index)
<1>8. /\ a \in Nat /\ b \in Nat /\ c \in Nat /\ d \in Nat /\ e \in Nat /\ f \in Nat
      /\ Total(index) = a + b + c + d + e + f /\ a + b + c + d + e + f <= 1
  BY <1>1 DEF Total
<1> HIDE DEF a, b, c, d, e, f
<1>9. CASE a + b + c + d + e + f = 0
  <2>1. a = 0 /\ b = 0 /\ c = 0 /\ d = 0 /\ e = 0 /\ f = 0
    BY <1>8, <1>9
  <2>2. \A x : ~IsPlace(x, index)
    BY <2>1, <1>3, <1>4 DEF IsPlace, a, b, c, d, e, f
  <2> QED
    BY <1>6, <1>7, <1>8, <1>9, <2>2 DEF S
<1>10. CASE a + b + c + d + e + f = 1
  <2>1. CASE a = 1
    <3>1. b = 0 /\ c = 0 /\ d = 0 /\ e = 0 /\ f = 0
      BY <1>8, <1>10, <2>1
    <3>2. \A y : IsPlace(y, index) <=> y = <<"stored", 0, stored>>
      BY <2>1, <3>1, <1>3, <1>4 DEF IsPlace, a, b, c, d, e, f
    <3>4. S = {<<"stored", 0, stored>>}
      BY <1>6, <3>2
    <3>5. Cardinality(S) = 1
      BY <3>4, FS_Singleton
    <3> QED
      BY <1>8, <1>10, <3>5 DEF S
  <2>2. CASE b = 1
    <3>1. a = 0 /\ c = 0 /\ d = 0 /\ e = 0 /\ f = 0
      BY <1>8, <1>10, <2>2
    <3>2. PICK k : Holders(Carried(chan), index) = {k}
      BY <2>2, <1>5 DEF b
    <3>3. \A y : IsPlace(y, index) <=> y = <<"chan", k, chan[k].frames>>
      BY <3>1, <3>2, <1>3, <1>4 DEF IsPlace, a, c, d, e, f
    <3>4. S = {<<"chan", k, chan[k].frames>>}
      BY <1>6, <3>3
    <3>5. Cardinality(S) = 1
      BY <3>4, FS_Singleton
    <3> QED
      BY <1>8, <1>10, <3>5 DEF S
  <2>3. CASE c = 1
    <3>1. a = 0 /\ b = 0 /\ d = 0 /\ e = 0 /\ f = 0
      BY <1>8, <1>10, <2>3
    <3>2. PICK k : Holders(pq, index) = {k}
      BY <2>3, <1>5 DEF c
    <3>3. \A y : IsPlace(y, index) <=> y = <<"pq", k, pq[k]>>
      BY <3>1, <3>2, <1>3, <1>4 DEF IsPlace, a, b, d, e, f
    <3>4. S = {<<"pq", k, pq[k]>>}
      BY <1>6, <3>3
    <3>5. Cardinality(S) = 1
      BY <3>4, FS_Singleton
    <3> QED
      BY <1>8, <1>10, <3>5 DEF S
  <2>4. CASE d = 1
    <3>1. a = 0 /\ b = 0 /\ c = 0 /\ e = 0 /\ f = 0
      BY <1>8, <1>10, <2>4
    <3>2. PICK w : Holders(Worked(wk), index) = {w}
      BY <2>4, <1>5 DEF d
    <3>3. \A y : IsPlace(y, index) <=> y = <<"wk", w, wk[w].frames>>
      BY <3>1, <3>2, <1>3, <1>4 DEF IsPlace, a, b, c, e, f
    <3>4. S = {<<"wk", w, wk[w].frames>>}
      BY <1>6, <3>3
    <3>5. Cardinality(S) = 1
      BY <3>4, FS_Singleton
    <3> QED
      BY <1>8, <1>10, <3>5 DEF S
  <2>5. CASE e = 1
    <3>1. a = 0 /\ b = 0 /\ c = 0 /\ d = 0 /\ f = 0
      BY <1>8, <1>10, <2>5
    <3>2. PICK k : Holders(sq, index) = {k}
      BY <2>5, <1>5 DEF e
    <3>3. \A y : IsPlace(y, index) <=> y = <<"sq", k, sq[k]>>
      BY <3>1, <3>2, <1>3, <1>4 DEF IsPlace, a, b, c, d, f
    <3>4. S = {<<"sq", k, sq[k]>>}
      BY <1>6, <3>3
    <3>5. Cardinality(S) = 1
      BY <3>4, FS_Singleton
    <3> QED
      BY <1>8, <1>10, <3>5 DEF S
  <2>6. CASE f = 1
    <3>1. a = 0 /\ b = 0 /\ c = 0 /\ d = 0 /\ e = 0
      BY <1>8, <1>10, <2>6
    <3>2. PICK k : Holders(smap, index) = {k}
      BY <2>6, <1>5 DEF f
    <3>3. \A y : IsPlace(y, index) <=> y = <<"smap", k, smap[k]>>
      BY <3>1, <3>2, <1>3, <1>4 DEF IsPlace, a, b, c, d, e
    <3>4. S = {<<"smap", k, smap[k]>>}
      BY <1>6, <3>3
    <3>5. Cardinality(S) = 1
      BY <3>4, FS_Singleton
    <3> QED
      BY <1>8, <1>10, <3>5 DEF S
  <2> QED
    BY <1>8, <1>10, <2>1, <2>2, <2>3, <2>4, <2>5, <2>6
<1> QED
  BY <1>8, <1>9, <1>10

(* A numbered frame is never in two places, and it is in one as long as it   *)
(* must be kept: no channel, thread or map of the pipeline drops it.  Only   *)
(* a panic does, the end of the serial thread, whose map goes with what has  *)
(* not had its turn, and the end of the event loop, whose channel goes with  *)
(* what has not been stored.                                                 *)
THEOREM NothingIsLost == Spec => []NothingLost
<1>1. LostInv => NothingLost
  <2> SUFFICES ASSUME LostInv, NEW index \in 0..cnt - 1
               PROVE  /\ Cardinality(Holding(Containers, index)) <= 1
                      /\ Kept(index) => Cardinality(Holding(Containers, index)) = 1
    BY DEF NothingLost
  <2>1. Total(index) <= 1 /\ (Kept(index) => Total(index) = 1)
    BY DEF LostInv
  <2>2. Cardinality(Holding(Containers, index)) = Total(index)
    BY <2>1, PlacesCounted DEF LostInv, OrderInv
  <2> QED
    BY <2>1, <2>2
<1> QED
  BY LostKeeps, <1>1, PTL
=============================================================================
