-------------------------- MODULE NodeSessionProofs --------------------------
(* For every set of filters, whatever they pass, and for any number of frames *)
(* and calls: no wake-up of the queue is lost, and when all is quiet the      *)
(* status in JavaScript is that of the store.                                 *)
EXTENDS NodeSession, FiniteSetTheorems, TLAPS

(* What is under way to JavaScript, from the newest: the event to be raised,  *)
(* the queue, the event the listener has.                                     *)

\* The last event of a type in s says n; there is none.
Tells(s, type, n) ==
    \E i \in 1..Len(s) :
        /\ s[i].type = type /\ s[i].length = n
        /\ \A j \in 1..Len(s) : i < j => s[j].type # type
Silent(s, type) == \A i \in 1..Len(s) : s[i].type # type

\* The newest event of a type says n, or none is under way and n is shown.
Known(r, q, c, type, n, shown) ==
    \/ Tells(r, type, n)
    \/ /\ Silent(r, type)
       /\ \/ Tells(q, type, n)
          \/ /\ Silent(q, type)
             /\ Tells(c, type, n) \/ (Silent(c, type) /\ shown = <<n>>)

FramesKnown == Known(raise, queue, current, "frames", stored, <<status.frames>>)

\* While a new filter's first event is raised, found is still its predecessor's.
FoundNow == IF offset = 0 THEN 0 ELSE found
FilterKnown ==
    filter # None =>
        \/ \E i \in 1..Len(commands) : commands[i] = None
        \/ Known(raise, queue, current, "filtered_frames", FoundNow, status.filter)

Shape == Len(current) <= 1 /\ (offset = 0 /\ raise = <<>> => found = 0)

StatusInv == TypeOK /\ Shape /\ FramesKnown /\ FilterKnown

---------------------------------------------------------------------------
(* Sequences of events *)

\* Adding an event makes it the last of its type, and none of the others.
LEMMA AppendTells ==
    ASSUME NEW s \in Seq(Event), NEW e \in Event
    PROVE  Tells(Append(s, e), e.type, e.length)
<1>1. Len(s) \in Nat /\ Len(Append(s, e)) = Len(s) + 1 /\ Append(s, e)[Len(s) + 1] = e
    OBVIOUS
<1> QED BY <1>1 DEF Tells

LEMMA AppendOther ==
    ASSUME NEW s \in Seq(Event), NEW e \in Event, NEW type, NEW n, e.type # type
    PROVE  /\ Tells(s, type, n) => Tells(Append(s, e), type, n)
           /\ Silent(s, type) => Silent(Append(s, e), type)
<1>1. /\ Len(s) \in Nat /\ Len(Append(s, e)) = Len(s) + 1
      /\ Append(s, e)[Len(s) + 1] = e
      /\ \A i \in 1..Len(s) : Append(s, e)[i] = s[i]
    OBVIOUS
<1>2. \A i \in 1..(Len(s) + 1) : i \in 1..Len(s) \/ i = Len(s) + 1
    BY <1>1
<1>3. ASSUME Tells(s, type, n) PROVE Tells(Append(s, e), type, n)
    <2>1. PICK i \in 1..Len(s) :
            /\ s[i].type = type /\ s[i].length = n
            /\ \A j \in 1..Len(s) : i < j => s[j].type # type
        BY <1>3 DEF Tells
    <2>2. i \in 1..Len(Append(s, e)) /\ Append(s, e)[i] = s[i]
        BY <1>1
    <2>3. \A j \in 1..Len(Append(s, e)) : i < j => Append(s, e)[j].type # type
        BY <1>1, <1>2, <2>1
    <2> QED BY <2>1, <2>2, <2>3 DEF Tells
<1>4. ASSUME Silent(s, type) PROVE Silent(Append(s, e), type)
    BY <1>1, <1>2, <1>4 DEF Silent
<1> QED BY <1>3, <1>4

\* A sequence of at most one event.
LEMMA OnlyEvent ==
    ASSUME NEW s \in Seq(Event), Len(s) <= 1, s # <<>>
    PROVE  s[1] \in Event /\ s = <<s[1]>>
<1>1. Len(s) = 1
    <2>1. PICK n \in Nat : n = Len(s)
        OBVIOUS
    <2>2. n <= 1
        BY <2>1
    <2>3. n # 0
        BY <2>1
    <2> QED BY <2>1, <2>2, <2>3
<1>2. s[1] \in Event
    BY <1>1
<1>3. s = [i \in 1..1 |-> s[i]]
    BY <1>1
<1> QED BY <1>1, <1>2, <1>3

\* One event says what it says; no event says nothing.
LEMMA OneTells ==
    ASSUME NEW e \in Event, NEW type, NEW n
    PROVE  /\ Tells(<<e>>, type, n) <=> (e.type = type /\ e.length = n)
           /\ Silent(<<e>>, type) <=> e.type # type
           /\ ~Tells(<<>>, type, n) /\ Silent(<<>>, type)
<1>1. Len(<<e>>) = 1 /\ <<e>>[1] = e /\ 1..1 = {1} /\ Len(<<>>) = 0 /\ 1..0 = {}
    OBVIOUS
<1> QED BY <1>1 DEF Tells, Silent

\* Taking the first event away leaves what the others say.
LEMMA TailTells ==
    ASSUME NEW s \in Seq(Event), s # <<>>, NEW type, NEW n
    PROVE  /\ Silent(s, type) => Head(s).type # type /\ Silent(Tail(s), type)
           /\ Tells(s, type, n) =>
                \/ Tells(Tail(s), type, n)
                \/ Silent(Tail(s), type) /\ Head(s).type = type /\ Head(s).length = n
<1>1. /\ Len(s) \in Nat /\ Len(s) >= 1 /\ Head(s) = s[1]
      /\ Len(Tail(s)) = Len(s) - 1 /\ Len(Tail(s)) \in Nat
      /\ \A i \in 1..Len(Tail(s)) : Tail(s)[i] = s[i + 1] /\ i + 1 \in 1..Len(s)
    OBVIOUS
<1>2. ASSUME Silent(s, type) PROVE Head(s).type # type /\ Silent(Tail(s), type)
    BY <1>1, <1>2 DEF Silent
<1>3. ASSUME Tells(s, type, n)
      PROVE  \/ Tells(Tail(s), type, n)
             \/ Silent(Tail(s), type) /\ Head(s).type = type /\ Head(s).length = n
    <2>1. PICK i \in 1..Len(s) :
            /\ s[i].type = type /\ s[i].length = n
            /\ \A j \in 1..Len(s) : i < j => s[j].type # type
        BY <1>3 DEF Tells
    <2>2. CASE i = 1
        BY <1>1, <2>1, <2>2 DEF Silent
    <2>3. CASE i # 1
        <3>1. i - 1 \in 1..Len(Tail(s)) /\ Tail(s)[i - 1] = s[i]
            BY <1>1, <2>3
        <3>2. \A j \in 1..Len(Tail(s)) : i - 1 < j => Tail(s)[j].type # type
            BY <1>1, <2>1, <2>3
        <3> QED BY <2>1, <3>1, <3>2 DEF Tells
    <2> QED BY <2>2, <2>3
<1> QED BY <1>2, <1>3

---------------------------------------------------------------------------
(* Types *)

LEMMA InitType == Init => TypeOK
<1> SUFFICES ASSUME Init PROVE TypeOK
    OBVIOUS
<1>1. \A S : <<>> \in Seq(S)
    OBVIOUS
<1>2. QueueType
    BY <1>1 DEF Init, QueueInit, QueueType
<1>3. stored \in 0..MaxFrames /\ offset \in 0..stored /\ found \in Nat /\ calls \in 0..MaxCalls
    BY SessionAssumption DEF Init
<1>4. Len(raise) <= 1
    BY DEF Init
<1>5. status \in [frames : Nat, filter : Seq(Nat)]
    BY <1>1 DEF Init
<1> QED BY <1>1, <1>2, <1>3, <1>4, <1>5 DEF Init, TypeOK

\* Frames that pass are frames of the block.
LEMMA PassedIsNat ==
    ASSUME NEW a \in Int, NEW b \in Int, NEW S, S \subseteq a..b
    PROVE  Cardinality(S) \in Nat
<1>1. IsFiniteSet(a..b)
    BY FS_Interval
<1>2. IsFiniteSet(S)
    BY <1>1, FS_Subset
<1> QED BY <1>2, FS_CardinalityType

LEMMA EventsTyped ==
    /\ \A n \in Nat : FramesEvent(n) \in Event /\ FilteredEvent(n) \in Event
    /\ ErrorEvent \in Event
    BY DEF Event, FramesEvent, FilteredEvent, ErrorEvent

\* The operations of the queue keep its type.
LEMMA PushBackType ==
    ASSUME QueueType, NEW t \in Threads, NEW e \in Event, PushBack(t, e)
    PROVE  QueueType'
    BY DEF QueueType, PushBack

LEMMA QueueStepType ==
    ASSUME QueueType, Wake \/ PopFront \/ DrainDone \/ (\E t \in Threads : Send(t))
    PROVE  QueueType'
<1>1. CASE Wake
    BY <1>1 DEF QueueType, Wake
<1>2. CASE PopFront
    <2>1. Head(queue) \in Event /\ Tail(queue) \in Seq(Event)
        BY <1>2 DEF QueueType, PopFront
    <2>2. <<Head(queue)>> \in Seq(Event) /\ <<Head(queue)>> # <<>>
        BY <2>1
    <2> QED BY <1>2, <2>1, <2>2 DEF QueueType, PopFront
<1>3. CASE DrainDone
    BY <1>3 DEF QueueType, DrainDone
<1>4. CASE \E t \in Threads : Send(t)
    BY <1>4 DEF QueueType, Send
<1> QED BY <1>1, <1>2, <1>3, <1>4

LEMMA ReturnType == ASSUME QueueType, Return PROVE QueueType'
<1>1. <<>> \in Seq(Event)
    OBVIOUS
<1> QED BY <1>1 DEF QueueType, Return

LEMMA LoopType == ASSUME TypeOK, LoopNext PROVE TypeOK'
<1> USE DEF TypeOK
<1>1. stored \in Nat /\ offset \in Nat /\ found \in Nat /\ MaxFrames \in Nat
    BY SessionAssumption
<1>2. CASE StoreFrames
    <2>1. PICK n \in 1..(MaxFrames - stored) :
            stored' = stored + n /\ raise' = <<FramesEvent(stored + n)>>
        BY <1>2 DEF StoreFrames
    <2>2. stored' \in 0..MaxFrames /\ offset \in 0..stored'
        BY <1>1, <2>1
    <2>3. raise' \in Seq(Event) /\ Len(raise') <= 1
        <3>1. FramesEvent(stored + n) \in Event
            BY <1>1, EventsTyped
        <3> QED BY <2>1, <3>1
    <2> QED BY <1>2, <2>2, <2>3 DEF StoreFrames, queueVars, scriptVars, QueueType
<1>3. CASE PushFilter
    <2>1. Head(commands) \in Filters \union {None}
          /\ Tail(commands) \in Seq(Filters \union {None})
        BY <1>3 DEF PushFilter
    <2>2. raise' \in Seq(Event) /\ Len(raise') <= 1 /\ found' \in Nat
        <3>1. FilteredEvent(0) \in Event
            BY EventsTyped
        <3>2. <<FilteredEvent(0)>> \in Seq(Event) /\ Len(<<FilteredEvent(0)>>) = 1
            BY <3>1
        <3>3. \/ found' = 0 /\ raise' = raise
              \/ found' = found /\ raise' = <<FilteredEvent(0)>>
            BY <1>3, Zenon DEF PushFilter
        <3>4. raise \in Seq(Event) /\ Len(raise) <= 1
            OBVIOUS
        <3>5. CASE found' = 0 /\ raise' = raise
            BY <3>4, <3>5
        <3>6. CASE found' = found /\ raise' = <<FilteredEvent(0)>>
            <4>1. raise' \in Seq(Event) /\ Len(raise') = 1
                BY <3>2, <3>6
            <4> QED BY <1>1, <3>6, <4>1
        <3> QED BY <3>3, <3>5, <3>6
    <2>3. offset' = 0 /\ offset' \in 0..stored
        BY <1>1, <1>3 DEF PushFilter
    <2> QED BY <1>3, <2>1, <2>2, <2>3 DEF PushFilter, queueVars, QueueType
<1>4. CASE RaiseEvent
    <2>1. raise[1] \in Event
        BY <1>4 DEF RaiseEvent
    <2>2. QueueType'
        BY <1>4, <2>1, PushBackType DEF RaiseEvent, Threads
    <2>3. found' \in Nat /\ raise' = <<>>
        BY <1>4 DEF RaiseEvent
    <2> QED BY <1>4, <2>2, <2>3 DEF RaiseEvent, scriptVars
<1>5. CASE ProcessFilter
    <2>1. PICK end \in (offset + 1)..stored :
            LET passed == Cardinality({i \in (offset + 1)..end : Matches(filter, i)})
            IN  /\ offset' = end /\ found' = found + passed
                /\ raise' = IF passed = 0 THEN <<>> ELSE <<FilteredEvent(found + passed)>>
        BY <1>5 DEF ProcessFilter
    <2> DEFINE passed == Cardinality({i \in (offset + 1)..end : Matches(filter, i)})
    <2>2. passed \in Nat
        <3>1. offset + 1 \in Int /\ end \in Int
            BY <1>1, <2>1
        <3>2. {i \in (offset + 1)..end : Matches(filter, i)} \subseteq (offset + 1)..end
            OBVIOUS
        <3> QED BY <3>1, <3>2, PassedIsNat
    <2> HIDE DEF passed
    <2>3. /\ offset' = end /\ found' = found + passed
          /\ raise' = IF passed = 0 THEN <<>> ELSE <<FilteredEvent(found + passed)>>
        BY <2>1 DEF passed
    <2>4. offset' \in 0..stored /\ found' \in Nat
        BY <1>1, <2>1, <2>2, <2>3
    <2>5. raise' \in Seq(Event) /\ Len(raise') <= 1
        <3>1. FilteredEvent(found + passed) \in Event
            BY <1>1, <2>2, EventsTyped
        <3> QED BY <2>3, <3>1
    <2> QED BY <1>5, <2>4, <2>5 DEF ProcessFilter, queueVars, scriptVars, QueueType
<1> QED BY <1>2, <1>3, <1>4, <1>5 DEF LoopNext

LEMMA ScriptType == ASSUME TypeOK, SetFilter \/ CreateFails \/ HandleEvent PROVE TypeOK'
<1> USE DEF TypeOK
<1>1. calls \in Nat /\ MaxCalls \in Nat
    BY SessionAssumption
<1>2. CASE SetFilter
    <2>1. calls' \in 0..MaxCalls
        BY <1>1, <1>2 DEF SetFilter
    <2>2. commands' \in Seq(Filters \union {None})
          /\ status' \in [frames : Nat, filter : Seq(Nat)]
        <3>1. PICK f \in Filters \union {None, Bad} :
                /\ commands' = Append(commands, IF f = Bad THEN None ELSE f)
                /\ status' = IF f = None THEN [status EXCEPT !.filter = <<>>] ELSE status
            BY <1>2 DEF SetFilter
        <3>2. (IF f = Bad THEN None ELSE f) \in Filters \union {None}
            OBVIOUS
        <3>3. commands' \in Seq(Filters \union {None})
            BY <3>1, <3>2
        <3>4. <<>> \in Seq(Nat)
            OBVIOUS
        <3> QED BY <3>1, <3>3, <3>4
    <2> QED BY <1>2, <2>1, <2>2 DEF SetFilter, queueVars, storeVars, QueueType
<1>3. CASE CreateFails
    <2>1. QueueType'
        BY <1>3, PushBackType, EventsTyped DEF CreateFails, Threads
    <2>2. calls' \in 0..MaxCalls
        BY <1>1, <1>3 DEF CreateFails
    <2> QED BY <1>3, <2>1, <2>2 DEF CreateFails, storeVars
<1>4. CASE HandleEvent
    <2>1. current[1] \in Event
        BY <1>4 DEF HandleEvent, Return, QueueType
    <2>2. status' \in [frames : Nat, filter : Seq(Nat)]
        <3>1. current[1].length \in Nat
            BY <2>1 DEF Event
        <3>2. <<current[1].length>> \in Seq(Nat)
            BY <3>1
        <3>3. status' = Updated(current[1])
            BY <1>4 DEF HandleEvent
        <3>4. CASE current[1].type = "frames"
            BY <3>1, <3>3, <3>4 DEF Updated
        <3>5. CASE current[1].type = "filtered_frames"
            BY <3>2, <3>3, <3>5 DEF Updated
        <3>6. CASE current[1].type = "error"
            BY <3>3, <3>6 DEF Updated
        <3>7. current[1].type \in {"frames", "filtered_frames", "error"}
            BY <2>1 DEF Event
        <3> QED BY <3>4, <3>5, <3>6, <3>7
    <2>3. QueueType'
        BY <1>4, ReturnType DEF HandleEvent
    <2> QED BY <1>4, <2>2, <2>3 DEF HandleEvent, storeVars
<1> QED BY <1>2, <1>3, <1>4

LEMMA NextType == TypeOK /\ [Next]_vars => TypeOK'
<1> SUFFICES ASSUME TypeOK, [Next]_vars PROVE TypeOK'
    OBVIOUS
<1>1. CASE LoopNext
    BY <1>1, LoopType
<1>2. CASE SetFilter \/ CreateFails \/ HandleEvent
    BY <1>2, ScriptType
<1>3. CASE QueueStep
    BY <1>3, QueueStepType DEF QueueStep, TypeOK, storeVars, scriptVars
<1>4. CASE UNCHANGED vars
    BY <1>4 DEF vars, queueVars, storeVars, scriptVars, TypeOK, QueueType
<1> QED BY <1>1, <1>2, <1>3, <1>4 DEF Next

\* Every variable of the session has its type for ever, and a filter that does
\* not compile never reaches the store (session.rs set_filter).
THEOREM TypeCorrect == Spec => []TypeOK
<1> QED BY InitType, NextType, PTL DEF Spec

---------------------------------------------------------------------------
(* Wake-ups *)

LEMMA NextWakes == TypeOK /\ NoLostWakeup /\ [Next]_vars => NoLostWakeup'
<1> SUFFICES ASSUME TypeOK, NoLostWakeup, [Next]_vars PROVE NoLostWakeup'
    OBVIOUS
<1> USE DEF NoLostWakeup
<1>1. ASSUME NEW t \in Threads, NEW e, PushBack(t, e) PROVE NoLostWakeup'
    BY <1>1 DEF PushBack, TypeOK, QueueType
<1>2. CASE UNCHANGED queueVars
    BY <1>2 DEF queueVars
<1>3. CASE LoopNext
    BY <1>1, <1>2, <1>3 DEF LoopNext, StoreFrames, PushFilter, RaiseEvent, ProcessFilter,
                            Threads
<1>4. CASE SetFilter \/ CreateFails
    BY <1>1, <1>2, <1>4 DEF SetFilter, CreateFails, Threads
<1>5. CASE HandleEvent
    BY <1>5 DEF HandleEvent, Return
<1>6. CASE QueueStep
    BY <1>6 DEF QueueStep, Wake, PopFront, DrainDone, Send
<1>7. CASE UNCHANGED vars
    BY <1>2, <1>7 DEF vars
<1> QED BY <1>3, <1>4, <1>5, <1>6, <1>7 DEF Next

\* An event in the queue of SessionCallback always has somebody who will take
\* it out: on_event pushes before it wakes libuv, and the callback goes on until
\* the queue is empty.
THEOREM WakeupsCorrect == Spec => []NoLostWakeup
<1>1. Init => NoLostWakeup
    BY DEF Init, QueueInit, NoLostWakeup
<1> QED BY <1>1, InitType, NextType, NextWakes, PTL DEF Spec

---------------------------------------------------------------------------
(* The status *)

\* What is known of a type stays known while an event goes its way: it is made,
\* put into the queue, taken out of it and handled.
LEMMA KnownNew ==
    ASSUME NEW q, NEW c, NEW e \in Event, NEW type, NEW n, NEW shown
    PROVE  /\ e.type = type => Known(<<e>>, q, c, type, e.length, shown)
           /\ e.type # type /\ Known(<<>>, q, c, type, n, shown) =>
                Known(<<e>>, q, c, type, n, shown)
    BY OneTells DEF Known

LEMMA KnownPush ==
    ASSUME NEW r, NEW q \in Seq(Event), NEW c, NEW e \in Event, NEW type, NEW n,
           NEW shown, e.type # type, Known(r, q, c, type, n, shown)
    PROVE  Known(r, Append(q, e), c, type, n, shown)
    BY AppendOther DEF Known

LEMMA KnownRaise ==
    ASSUME NEW q \in Seq(Event), NEW c, NEW e \in Event, NEW type, NEW n, NEW shown,
           Known(<<e>>, q, c, type, n, shown)
    PROVE  Known(<<>>, Append(q, e), c, type, n, shown)
<1>1. CASE e.type = type
    BY <1>1, OneTells, AppendTells DEF Known
<1>2. CASE e.type # type
    BY <1>2, OneTells, AppendOther DEF Known
<1> QED BY <1>1, <1>2

LEMMA KnownPop ==
    ASSUME NEW r, NEW q \in Seq(Event), q # <<>>, NEW type, NEW n, NEW shown,
           Known(r, q, <<>>, type, n, shown)
    PROVE  Known(r, Tail(q), <<Head(q)>>, type, n, shown)
<1>1. Head(q) \in Event
    OBVIOUS
<1> QED BY <1>1, OneTells, TailTells DEF Known

LEMMA KnownReturn ==
    ASSUME NEW r, NEW q, NEW e \in Event, NEW type, NEW n, NEW shown, NEW next,
           Known(r, q, <<e>>, type, n, shown),
           IF e.type = type THEN next = <<e.length>> ELSE next = shown
    PROVE  Known(r, q, <<>>, type, n, next)
    BY OneTells DEF Known

LEMMA InitStatus == Init => Shape /\ FramesKnown /\ FilterKnown
<1> SUFFICES ASSUME Init PROVE Shape /\ FramesKnown /\ FilterKnown
    OBVIOUS
<1>1. \A type : Silent(<<>>, type)
    BY DEF Silent
<1> QED BY <1>1 DEF Init, QueueInit, Shape, FramesKnown, FilterKnown, Known

LEMMA KindsApart ==
    /\ \A n \in Nat : /\ FramesEvent(n).type = "frames" /\ FramesEvent(n).length = n
                      /\ FilteredEvent(n).type = "filtered_frames"
                      /\ FilteredEvent(n).length = n
    /\ ErrorEvent.type = "error"
    BY DEF FramesEvent, FilteredEvent, ErrorEvent

LEMMA StoreFramesStatus ==
    ASSUME StatusInv, StoreFrames
    PROVE  Shape' /\ FramesKnown' /\ FilterKnown'
<1>1. PICK n \in 1..(MaxFrames - stored) :
        stored' = stored + n /\ raise' = <<FramesEvent(stored + n)>>
    BY DEF StoreFrames
<1>2. stored' \in Nat /\ stored + n \in Nat
    BY <1>1, SessionAssumption DEF StatusInv, TypeOK
<1> DEFINE e == FramesEvent(stored + n)
<1>3. e \in Event /\ e.type = "frames" /\ e.length = stored' /\ raise' = <<e>>
    BY <1>1, <1>2, EventsTyped, KindsApart
<1> HIDE DEF e
<1>4. UNCHANGED <<queue, current, filter, offset, found, status, commands>> /\ raise = <<>>
    BY DEF StoreFrames, queueVars, scriptVars
<1>5. Shape'
    BY <1>3, <1>4 DEF StatusInv, Shape
<1>6. FramesKnown'
    BY <1>3, <1>4, KnownNew DEF FramesKnown
<1>7. FilterKnown'
    BY <1>3, <1>4, KnownNew DEF StatusInv, FilterKnown, FoundNow
<1> QED BY <1>5, <1>6, <1>7

LEMMA PushFilterStatus ==
    ASSUME StatusInv, PushFilter
    PROVE  Shape' /\ FramesKnown' /\ FilterKnown'
<1>1. UNCHANGED <<queue, current, stored, status>> /\ raise = <<>> /\ offset' = 0
    BY DEF PushFilter, queueVars
<1>2. CASE filter' = None
    <2>1. found' = 0 /\ raise' = raise
        BY <1>2, Zenon DEF PushFilter
    <2> QED BY <1>1, <1>2, <2>1 DEF StatusInv, Shape, FramesKnown, FilterKnown
<1>3. CASE filter' # None
    <2> DEFINE e == FilteredEvent(0)
    <2>1. raise' = <<e>>
        BY <1>3, Zenon DEF PushFilter
    <2>2. e \in Event /\ e.type = "filtered_frames" /\ e.length = 0
        BY EventsTyped, KindsApart
    <2> HIDE DEF e
    <2>3. Shape'
        BY <1>1, <2>1 DEF StatusInv, Shape
    <2>4. FramesKnown'
        BY <1>1, <2>1, <2>2, KnownNew DEF StatusInv, FramesKnown
    <2>5. Known(raise', queue', current', "filtered_frames", 0, status'.filter)
        BY <2>1, <2>2, KnownNew
    <2>6. FilterKnown'
        BY <1>1, <2>5 DEF FilterKnown, FoundNow
    <2> QED BY <2>3, <2>4, <2>6
<1> QED BY <1>2, <1>3

LEMMA RaiseEventStatus ==
    ASSUME StatusInv, RaiseEvent
    PROVE  Shape' /\ FramesKnown' /\ FilterKnown'
<1> DEFINE e == raise[1]
<1>1. e \in Event /\ raise = <<e>>
    BY OnlyEvent DEF RaiseEvent, StatusInv, TypeOK
<1>2. queue' = Append(queue, e) /\ raise' = <<>> /\ queue \in Seq(Event)
    BY DEF RaiseEvent, PushBack, StatusInv, TypeOK, QueueType
<1>3. /\ UNCHANGED <<current, stored, filter, offset, status, commands>>
      /\ found' = IF offset = 0 THEN 0 ELSE found
    BY DEF RaiseEvent, PushBack, scriptVars
<1> HIDE DEF e
<1>4. FoundNow' = FoundNow
    BY <1>3 DEF FoundNow
<1>5. Shape'
    BY <1>3 DEF StatusInv, Shape
<1>6. FramesKnown'
    BY <1>1, <1>2, <1>3, KnownRaise DEF StatusInv, FramesKnown
<1>7. FilterKnown'
    BY <1>1, <1>2, <1>3, <1>4, KnownRaise DEF StatusInv, FilterKnown
<1> QED BY <1>5, <1>6, <1>7

LEMMA ProcessFilterStatus ==
    ASSUME StatusInv, ProcessFilter
    PROVE  Shape' /\ FramesKnown' /\ FilterKnown'
<1>1. stored \in Nat /\ offset \in Nat /\ found \in Nat
    BY SessionAssumption DEF StatusInv, TypeOK
<1>2. PICK end \in (offset + 1)..stored :
        LET passed == Cardinality({i \in (offset + 1)..end : Matches(filter, i)})
        IN  /\ offset' = end /\ found' = found + passed
            /\ raise' = IF passed = 0 THEN <<>> ELSE <<FilteredEvent(found + passed)>>
    BY DEF ProcessFilter
<1> DEFINE passed == Cardinality({i \in (offset + 1)..end : Matches(filter, i)})
<1>3. passed \in Nat
    <2>1. offset + 1 \in Int /\ end \in Int
        BY <1>1, <1>2
    <2>2. {i \in (offset + 1)..end : Matches(filter, i)} \subseteq (offset + 1)..end
        OBVIOUS
    <2> QED BY <2>1, <2>2, PassedIsNat
<1> HIDE DEF passed
<1>4. /\ offset' = end /\ found' = found + passed
      /\ raise' = IF passed = 0 THEN <<>> ELSE <<FilteredEvent(found + passed)>>
    BY <1>2 DEF passed
<1>5. UNCHANGED <<queue, current, stored, filter, status, commands>> /\ raise = <<>>
    BY DEF ProcessFilter, queueVars, scriptVars
<1>6. offset' # 0 /\ FoundNow' = found' /\ FoundNow = found
    BY <1>1, <1>2, <1>4, <1>5 DEF FoundNow, StatusInv, Shape
<1>7. Shape'
    BY <1>5, <1>6 DEF StatusInv, Shape
<1>8. CASE passed = 0
    <2>1. raise' = raise /\ FoundNow' = FoundNow
        BY <1>1, <1>4, <1>5, <1>6, <1>8
    <2> QED BY <1>5, <1>7, <2>1 DEF StatusInv, FramesKnown, FilterKnown
<1>9. CASE passed # 0
    <2> DEFINE e == FilteredEvent(found + passed)
    <2>1. raise' = <<e>>
        BY <1>4, <1>9
    <2>2. found + passed \in Nat
        BY <1>1, <1>3
    <2>3. e \in Event /\ e.type = "filtered_frames" /\ e.length = FoundNow'
        BY <1>4, <1>6, <2>2, EventsTyped, KindsApart
    <2> HIDE DEF e
    <2>4. FramesKnown'
        BY <1>5, <2>1, <2>3, KnownNew DEF StatusInv, FramesKnown
    <2>5. Known(raise', queue', current', "filtered_frames", FoundNow', status'.filter)
        BY <2>1, <2>3, KnownNew
    <2>6. FilterKnown'
        BY <2>5 DEF FilterKnown
    <2> QED BY <1>7, <2>4, <2>6
<1> QED BY <1>8, <1>9

LEMMA SetFilterStatus ==
    ASSUME StatusInv, SetFilter
    PROVE  Shape' /\ FramesKnown' /\ FilterKnown'
<1>1. UNCHANGED <<queue, current, raise, stored, filter, offset, found>>
    BY DEF SetFilter, queueVars, storeVars
<1>2. PICK f \in Filters \union {None, Bad} :
        /\ commands' = Append(commands, IF f = Bad THEN None ELSE f)
        /\ status' = IF f = None THEN [status EXCEPT !.filter = <<>>] ELSE status
    BY DEF SetFilter
<1>3. commands \in Seq(Filters \union {None}) /\ (IF f = Bad THEN None ELSE f) \in Filters \union {None}
    BY DEF StatusInv, TypeOK
<1>4. /\ commands' \in Seq(Filters \union {None}) /\ Len(commands) \in Nat
      /\ Len(commands') = Len(commands) + 1
      /\ commands'[Len(commands) + 1] = IF f = Bad THEN None ELSE f
      /\ \A i \in 1..Len(commands) : commands'[i] = commands[i]
    BY <1>2, <1>3
<1>5. status'.frames = status.frames /\ (f # None => status' = status)
    BY <1>2 DEF StatusInv, TypeOK
<1>6. Shape' /\ FramesKnown'
    BY <1>1, <1>5 DEF StatusInv, Shape, FramesKnown
<1>7. (\E i \in 1..Len(commands) : commands[i] = None)
        => \E i \in 1..Len(commands') : commands'[i] = None
    BY <1>4
<1>8. CASE f = None
    <2>1. \E i \in 1..Len(commands') : commands'[i] = None
        BY <1>4, <1>8
    <2> QED BY <1>6, <2>1 DEF FilterKnown
<1>9. CASE f # None
    BY <1>1, <1>5, <1>6, <1>7, <1>9 DEF StatusInv, FilterKnown, FoundNow
<1> QED BY <1>8, <1>9

LEMMA CreateFailsStatus ==
    ASSUME StatusInv, CreateFails
    PROVE  Shape' /\ FramesKnown' /\ FilterKnown'
<1>1. queue' = Append(queue, ErrorEvent) /\ queue \in Seq(Event)
    BY DEF CreateFails, PushBack, StatusInv, TypeOK, QueueType
<1>2. UNCHANGED <<current, raise, stored, filter, offset, found, commands, status>>
    BY DEF CreateFails, PushBack, storeVars
<1>3. ErrorEvent \in Event /\ ErrorEvent.type = "error"
    BY EventsTyped, KindsApart
<1>4. FramesKnown'
    BY <1>1, <1>2, <1>3, KnownPush DEF StatusInv, FramesKnown
<1>5. FilterKnown'
    BY <1>1, <1>2, <1>3, KnownPush DEF StatusInv, FilterKnown, FoundNow
<1>6. Shape'
    BY <1>2 DEF StatusInv, Shape
<1> QED BY <1>4, <1>5, <1>6

LEMMA HandleEventStatus ==
    ASSUME StatusInv, HandleEvent
    PROVE  Shape' /\ FramesKnown' /\ FilterKnown'
<1> DEFINE e == current[1]
<1>1. e \in Event /\ current = <<e>> /\ current' = <<>>
    BY OnlyEvent DEF HandleEvent, Return, StatusInv, Shape, TypeOK, QueueType
<1>2. UNCHANGED <<queue, raise, stored, filter, offset, found, commands>>
    BY DEF HandleEvent, Return, storeVars
<1>3. status' = Updated(e) /\ status \in [frames : Nat, filter : Seq(Nat)]
    BY DEF HandleEvent, StatusInv, TypeOK
<1> HIDE DEF e
<1>4. /\ <<status'.frames>> = IF e.type = "frames" THEN <<e.length>> ELSE <<status.frames>>
      /\ status'.filter = IF e.type = "filtered_frames" THEN <<e.length>> ELSE status.filter
    BY <1>3 DEF Updated
<1>5. FramesKnown'
    BY <1>1, <1>2, <1>4, KnownReturn DEF StatusInv, FramesKnown
<1>6. FilterKnown'
    BY <1>1, <1>2, <1>4, KnownReturn DEF StatusInv, FilterKnown, FoundNow
<1>7. Shape'
    BY <1>1, <1>2 DEF StatusInv, Shape
<1> QED BY <1>5, <1>6, <1>7

LEMMA QueueStepStatus ==
    ASSUME StatusInv, QueueStep
    PROVE  Shape' /\ FramesKnown' /\ FilterKnown'
<1>1. UNCHANGED <<raise, stored, filter, offset, found, commands, status>>
    BY DEF QueueStep, storeVars, scriptVars
<1>2. CASE PopFront
    <2>1. queue \in Seq(Event) /\ queue # <<>> /\ current = <<>>
        BY <1>2 DEF PopFront, StatusInv, TypeOK, QueueType
    <2>2. queue' = Tail(queue) /\ current' = <<Head(queue)>>
        BY <1>2 DEF PopFront
    <2>3. FramesKnown'
        BY <1>1, <2>1, <2>2, KnownPop DEF StatusInv, FramesKnown
    <2>4. FilterKnown'
        BY <1>1, <2>1, <2>2, KnownPop DEF StatusInv, FilterKnown, FoundNow
    <2>5. Shape'
        BY <1>1, <2>2 DEF StatusInv, Shape
    <2> QED BY <2>3, <2>4, <2>5
<1>3. CASE Wake \/ DrainDone \/ \E t \in Threads : Send(t)
    <2>1. UNCHANGED <<queue, current>>
        BY <1>3 DEF Wake, DrainDone, Send
    <2> QED BY <1>1, <2>1 DEF StatusInv, Shape, FramesKnown, FilterKnown, FoundNow
<1> QED BY <1>2, <1>3 DEF QueueStep

LEMMA NextStatus == StatusInv /\ [Next]_vars => StatusInv'
<1> SUFFICES ASSUME StatusInv, [Next]_vars PROVE Shape' /\ FramesKnown' /\ FilterKnown'
    BY NextType DEF StatusInv
<1>1. CASE LoopNext
    BY <1>1, StoreFramesStatus, PushFilterStatus, RaiseEventStatus, ProcessFilterStatus
       DEF LoopNext
<1>2. CASE SetFilter \/ CreateFails \/ HandleEvent
    BY <1>2, SetFilterStatus, CreateFailsStatus, HandleEventStatus
<1>3. CASE QueueStep
    BY <1>3, QueueStepStatus
<1>4. CASE UNCHANGED vars
    BY <1>4 DEF vars, queueVars, storeVars, scriptVars, StatusInv, Shape, FramesKnown,
                FilterKnown, FoundNow
<1> QED BY <1>1, <1>2, <1>3, <1>4 DEF Next

LEMMA QuietSettles == ASSUME StatusInv PROVE StatusSettles
<1> SUFFICES ASSUME Quiet
             PROVE  status.frames = stored /\ (filter # None => status.filter = <<found>>)
    BY DEF StatusSettles
<1>1. raise = <<>> /\ queue = <<>> /\ commands = <<>> /\ current = <<>>
    BY DEF Quiet, StatusInv, TypeOK, QueueType
<1>2. \A type, n : ~Tells(<<>>, type, n)
    BY DEF Tells
<1>3. <<status.frames>> = <<stored>>
    BY <1>1, <1>2 DEF StatusInv, FramesKnown, Known
<1>4. filter # None => status.filter = <<FoundNow>>
    BY <1>1, <1>2 DEF StatusInv, FilterKnown, Known
<1>5. FoundNow = found
    BY <1>1 DEF StatusInv, Shape, FoundNow
<1> QED BY <1>3, <1>4, <1>5

\* Once nothing is under way, the status of session.js is that of the store,
\* however the calls of setFilter, the loop and the queue were interleaved: the
\* newest event of each kind is the last to be handled.
THEOREM StatusCorrect == Spec => []StatusSettles
<1>1. Init => StatusInv
    BY InitType, InitStatus DEF StatusInv
<1> QED BY <1>1, NextStatus, QuietSettles, PTL DEF Spec
=============================================================================
