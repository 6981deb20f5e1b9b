--------------------------- MODULE DispatcherProofs ----------------------------
(* One frame's way through any decoders: none of them misses a layer.         *)
EXTENDS Dispatcher, SequenceTheorems, TLAPS

DispatchSpec == (\E root : InitWith(root)) /\ [][Next]_vars

---------------------------------------------------------------------------
(* Sequences of whatever elements they have.                                  *)

Elems(s) == {s[i] : i \in DOMAIN s}
IsSeq(s) == s \in Seq(Elems(s))

\* The length and the domain of a sequence.
LEMMA LenOfSeq ==
    ASSUME NEW s, IsSeq(s)
    PROVE  Len(s) \in Nat /\ DOMAIN s = 1..Len(s)
    BY LenProperties DEF IsSeq

\* A sequence over some set is one over its elements.
LEMMA SeqIsSeq ==
    ASSUME NEW S, NEW s \in Seq(S)
    PROVE  IsSeq(s)
<1>1. Len(s) \in Nat /\ DOMAIN s = 1..Len(s) /\ \A i \in 1..Len(s) : s[i] \in Elems(s)
    BY LenProperties DEF Elems
<1>2. s = [i \in 1..Len(s) |-> s[i]]
    BY <1>1, LenProperties
<1>3. [i \in 1..Len(s) |-> s[i]] \in Seq(Elems(s))
    BY <1>1, IsASeq
<1> QED BY <1>2, <1>3 DEF IsSeq

\* What is appended to a sequence leaves what it has where it was.
LEMMA ConcatSeqs ==
    ASSUME NEW s, NEW t, IsSeq(s), IsSeq(t)
    PROVE  /\ IsSeq(s \o t) /\ Len(s \o t) = Len(s) + Len(t)
           /\ \A i \in 1..Len(s) : (s \o t)[i] = s[i]
<1> DEFINE S == Elems(s) \union Elems(t)
<1>1. s \in Seq(S) /\ t \in Seq(S)
    <2>1. Elems(s) \subseteq S /\ Elems(t) \subseteq S
        OBVIOUS
    <2>2. s \in Seq(Elems(s)) /\ t \in Seq(Elems(t))
        BY DEF IsSeq
    <2> HIDE DEF S
    <2> QED BY <2>1, <2>2, SeqMonotonic
<1> HIDE DEF S
<1>2. /\ s \o t \in Seq(S) /\ Len(s \o t) = Len(s) + Len(t)
      /\ \A i \in 1..Len(s) : (s \o t)[i] = s[i]
    BY <1>1, ConcatProperties, LenProperties
<1> QED BY <1>2, SeqIsSeq

LEMMA AppendSeq ==
    ASSUME NEW s, NEW e, IsSeq(s)
    PROVE  /\ IsSeq(Append(s, e)) /\ Len(Append(s, e)) = Len(s) + 1
           /\ \A i \in 1..Len(s) : Append(s, e)[i] = s[i]
<1> DEFINE S == Elems(s) \union {e}
<1>1. s \in Seq(S) /\ e \in S
    <2>1. Elems(s) \subseteq S
        OBVIOUS
    <2>2. s \in Seq(Elems(s))
        BY DEF IsSeq
    <2> HIDE DEF S
    <2>3. s \in Seq(S)
        BY <2>1, <2>2, SeqMonotonic
    <2> QED BY <2>3 DEF S
<1> HIDE DEF S
<1>2. /\ Append(s, e) \in Seq(S) /\ Len(Append(s, e)) = Len(s) + 1
      /\ \A i \in 1..Len(s) : Append(s, e)[i] = s[i]
    BY <1>1, AppendProperties, LenProperties
<1> QED BY <1>2, SeqIsSeq

\* One element replaced.
LEMMA ReplaceSeq ==
    ASSUME NEW s, IsSeq(s), NEW at \in 1..Len(s), NEW e
    PROVE  LET t == [s EXCEPT ![at] = e]
           IN  /\ IsSeq(t) /\ Len(t) = Len(s) /\ t[at] = e
               /\ \A i \in 1..Len(s) : i # at => t[i] = s[i]
<1> DEFINE t == [s EXCEPT ![at] = e]
           S == Elems(s) \union {e}
<1>1. Len(s) \in Nat /\ DOMAIN s = 1..Len(s) /\ s = [i \in 1..Len(s) |-> s[i]]
    BY LenOfSeq, LenProperties DEF IsSeq
<1>2. t = [i \in 1..Len(s) |-> IF i = at THEN e ELSE s[i]]
    BY <1>1
<1>3. \A i \in 1..Len(s) : (IF i = at THEN e ELSE s[i]) \in S
    BY <1>1 DEF Elems
<1> HIDE DEF t, S
<1>4. t \in Seq(S) /\ Len(t) = Len(s)
    <2>1. t \in [1..Len(s) -> S]
        BY <1>2, <1>3
    <2>2. t \in Seq(S)
        BY <1>1, <2>1, SeqDef
    <2>3. DOMAIN t = 1..Len(s) /\ DOMAIN t = 1..Len(t) /\ Len(t) \in Nat
        BY <2>1, <2>2, LenProperties
    <2> QED BY <1>1, <2>2, <2>3
<1>5. IsSeq(t)
    BY <1>4, SeqIsSeq
<1> QED BY <1>2, <1>4, <1>5 DEF t

---------------------------------------------------------------------------
(* A frame.                                                                   *)

\* The decoder skips this layer.
Skips(r, i) == Decode(Decoders[r], layers, layers[i]).status = "skip"

\* What decoders answer: a status and a sequence of layers; one that skips leaves
\* the layer alone.
Answers ==
    AtLayer => \A r \in Runners :
        LET result == Decode(Decoders[r], layers, layers[index + 1])
        IN  /\ result.status \in {"done", "skip", "error"}
            /\ IsSeq(result.children)
            /\ result.status = "skip" => result.parent = layers[index + 1]

\* A decoder that skips a layer skips it still when only others change.
SkipsStay ==
    \A r \in Runners, i \in 1..Len(layers) :
        Skips(r, i) /\ layers'[i] = layers[i] => Skips(r, i)'

\* A layer that the serial pass leaves alone.
Passed(i) == phase = "serial" /\ i \in 1..Len(indices) /\ indices[i] > 0

\* The decoder has nothing to do with the layers behind the loop, nor, if it was
\* asked in a round in which nobody was done, with the one the loop is at.
NothingLeft(r) ==
    /\ \A i \in 1..index : Passed(i) \/ Skips(r, i)
    /\ AtLayer /\ ~executed /\ r < runner => Skips(r, index + 1)

Waiting(r) == r \notin used /\ ExecType(Decoders[r]) = phase

\* Where the loops are.
FrameOK ==
    /\ IsSeq(layers) /\ index \in Nat /\ index <= Len(layers) /\ used \subseteq Runners
    /\ runner \in Nat \ {0} /\ executed \in BOOLEAN /\ phase \in {"parallel", "serial", "done"}

\* The inductive strengthening of AllOffered.
DispatchInv ==
    /\ FrameOK /\ IsSeq(indices)
    /\ phase = "parallel" => Len(indices) = index
    /\ runner = 1 \/ (AtLayer /\ ~HasChildren)
    /\ \A r \in Runners : Waiting(r) => NothingLeft(r)

LEMMA DispatchInitInv == (\E root : InitWith(root)) => DispatchInv
<1>1. ASSUME NEW root, InitWith(root) PROVE DispatchInv
    <2>1. <<root>> \in Seq({root}) /\ <<>> \in Seq({root}) /\ Len(<<root>>) = 1 /\ Len(<<>>) = 0
        OBVIOUS
    <2>2. IsSeq(layers) /\ IsSeq(indices)
        BY <1>1, <2>1, SeqIsSeq DEF InitWith
    <2>3. \A r \in Runners : NothingLeft(r)
        <3>1. TAKE r \in Runners
        <3>2. r \in Nat
            BY DecodersAssumption DEF Runners
        <3> QED BY <1>1, <3>2, DecodersAssumption DEF InitWith, NothingLeft, Runners
    <2>4. layers = <<root>> /\ indices = <<>> /\ index = 0 /\ used = {} /\ runner = 1
        BY <1>1 DEF InitWith
    <2>5. Len(layers) = 1 /\ executed = FALSE /\ phase = "parallel"
        BY <1>1, <2>1, <2>4 DEF InitWith
    <2>6. FrameOK
        <3>1. index \in Nat /\ index <= Len(layers) /\ runner \in Nat \ {0}
            BY <2>4, <2>5
        <3>2. used \subseteq Runners /\ executed \in BOOLEAN
            BY <2>4, <2>5
        <3> QED BY <2>2, <2>5, <3>1, <3>2 DEF FrameOK
    <2> QED BY <2>1, <2>2, <2>3, <2>4, <2>5, <2>6 DEF DispatchInv
<1> QED BY <1>1

\* Runners are numbers from 1.
LEMMA RunnersAre == Len(Decoders) \in Nat /\ Runners = 1..Len(Decoders)
    BY DecodersAssumption DEF Runners

\* What the call of a step answers.
Result ==
    LET parent == layers[index + 1]
    IN  IF runner \in used
        THEN [status |-> "used", parent |-> parent, children |-> <<>>]
        ELSE IF ExecType(Decoders[runner]) # phase
        THEN [status |-> "done", parent |-> parent, children |-> <<>>]
        ELSE Decode(Decoders[runner], layers, parent)
IsDone == Result.status \in {"done", "error"}

LEMMA ExecuteIs ==
    ASSUME Execute
    PROVE  /\ AtLayer /\ ~HasChildren /\ runner \in Runners /\ runner' = runner + 1
           /\ used' = (IF IsDone THEN used \union {runner} ELSE used)
           /\ executed' = (executed \/ IsDone)
           /\ layers' = [layers EXCEPT ![index + 1] = Result.parent] \o Result.children
           /\ UNCHANGED <<indices, phase, index>>
    BY DEF Execute, Result, IsDone

\* A call that is not of a decoder done leaves the layer alone.
LEMMA CallAnswers ==
    ASSUME Answers, AtLayer, runner \in Runners
    PROVE  /\ IsSeq(Result.children)
           /\ ~IsDone => Result.parent = layers[index + 1]
           /\ runner \in used => ~IsDone
           /\ runner \notin used /\ ExecType(Decoders[runner]) = phase =>
                  Result = Decode(Decoders[runner], layers, layers[index + 1])
           /\ runner \notin used /\ ExecType(Decoders[runner]) = phase /\ ~IsDone =>
                  Skips(runner, index + 1)
           /\ ~(runner \notin used /\ ExecType(Decoders[runner]) = phase) => Result.children = <<>>
<1>1. IsSeq(<<>>)
    <2>1. <<>> \in Seq({})
        OBVIOUS
    <2> QED BY <2>1, SeqIsSeq
<1>2. CASE runner \in used
    BY <1>1, <1>2 DEF Result, IsDone
<1>3. CASE runner \notin used /\ ExecType(Decoders[runner]) # phase
    BY <1>1, <1>3 DEF Result, IsDone
<1>4. CASE runner \notin used /\ ExecType(Decoders[runner]) = phase
    <2>1. Result = Decode(Decoders[runner], layers, layers[index + 1])
        BY <1>4 DEF Result
    <2>2. /\ Result.status \in {"done", "skip", "error"} /\ IsSeq(Result.children)
          /\ Result.status = "skip" => Result.parent = layers[index + 1]
        BY <2>1 DEF Answers
    <2>3. Result.status = "skip" => Skips(runner, index + 1)
        BY <2>1 DEF Skips
    <2> QED BY <1>4, <2>1, <2>2, <2>3 DEF IsDone
<1> QED BY <1>2, <1>3, <1>4

\* It changes the layer the loop is at, and adds layers at the end.
LEMMA CallLayers ==
    ASSUME FrameOK, Answers, Execute
    PROVE  /\ index + 1 \in 1..Len(layers) /\ Len(layers) \in Nat
           /\ IsSeq(layers') /\ Len(layers) <= Len(layers') /\ Len(layers') \in Nat
           /\ \A i \in 1..Len(layers) : i # index + 1 => layers'[i] = layers[i]
           /\ ~IsDone => layers'[index + 1] = layers[index + 1]
           /\ Result.children = <<>> => Len(layers') = Len(layers)
<1> DEFINE changed == [layers EXCEPT ![index + 1] = Result.parent]
           more == Result.children
<1>1. /\ IsSeq(layers) /\ Len(layers) \in Nat /\ index + 1 \in 1..Len(layers)
    <2>1. Len(layers) \in Nat
        BY LenOfSeq DEF FrameOK
    <2> QED BY <2>1, ExecuteIs DEF FrameOK, AtLayer
<1>2. /\ IsSeq(changed) /\ Len(changed) = Len(layers) /\ changed[index + 1] = Result.parent
      /\ \A i \in 1..Len(layers) : i # index + 1 => changed[i] = layers[i]
    BY <1>1, ReplaceSeq
<1>3. layers' = changed \o more /\ IsSeq(more)
    BY ExecuteIs, CallAnswers
<1>4. more = <<>> => Len(more) = 0
    OBVIOUS
<1>5. ~IsDone => Result.parent = layers[index + 1]
    BY ExecuteIs, CallAnswers
<1> HIDE DEF changed, more
<1>6. /\ IsSeq(changed \o more) /\ Len(changed \o more) = Len(changed) + Len(more)
      /\ \A i \in 1..Len(changed) : (changed \o more)[i] = changed[i]
    BY <1>2, <1>3, ConcatSeqs
<1>7. /\ IsSeq(layers') /\ Len(layers') = Len(layers) + Len(more) /\ Len(more) \in Nat
      /\ \A i \in 1..Len(layers) : layers'[i] = changed[i]
    BY <1>2, <1>3, <1>6, LenOfSeq
<1> QED BY <1>1, <1>2, <1>4, <1>5, <1>7 DEF more

\* The loops keep to the layers.
LEMMA OtherFrameKept ==
    ASSUME FrameOK, PassOver \/ NextLayer \/ NextRound \/ NextPass
    PROVE  FrameOK'
<1>1. Len(layers) \in Nat
    BY LenOfSeq DEF FrameOK
<1>2. CASE PassOver
    BY <1>1, <1>2 DEF PassOver, FrameOK, AtLayer
<1>3. CASE NextLayer
    <2>1. /\ index < Len(layers) /\ index' = index + 1 /\ runner' = 1
          /\ UNCHANGED <<layers, phase, used, executed>>
        BY <1>3 DEF NextLayer, AtLayer
    <2>2. index' \in Nat /\ index' <= Len(layers) /\ runner' \in Nat \ {0}
        BY <1>1, <2>1 DEF FrameOK
    <2> QED BY <2>1, <2>2 DEF FrameOK
<1>4. CASE NextRound
    <2>1. runner' = 1 /\ executed' = FALSE /\ UNCHANGED <<layers, phase, index, used>>
        BY <1>4 DEF NextRound
    <2>2. runner' \in Nat \ {0}
        BY <2>1
    <2>3. executed' \in BOOLEAN
        BY <2>1
    <2> QED BY <2>1, <2>2, <2>3 DEF FrameOK
<1>5. CASE NextPass
    <2>1. /\ phase # "done" /\ phase' = (IF phase = "parallel" THEN "serial" ELSE "done")
          /\ index' = 0 /\ used' = {} /\ UNCHANGED <<layers, runner, executed>>
        BY <1>5 DEF NextPass
    <2>2. /\ phase' \in {"parallel", "serial", "done"} /\ used' \subseteq Runners
          /\ index' \in Nat /\ index' <= Len(layers')
        BY <1>1, <2>1
    <2> QED BY <2>1, <2>2 DEF FrameOK
<1> QED BY <1>2, <1>3, <1>4, <1>5

LEMMA FrameKept ==
    ASSUME FrameOK, Answers, [Next]_vars
    PROVE  FrameOK'
<1>1. CASE UNCHANGED vars
    BY <1>1 DEF vars, FrameOK
<1>2. CASE PassOver \/ NextLayer \/ NextRound \/ NextPass
    BY <1>2, OtherFrameKept
<1>3. CASE Execute
    BY <1>3, ExecuteIs, CallLayers DEF FrameOK, Runners
<1>4. CASE Finished
    BY <1>1, <1>4 DEF Finished
<1> QED BY <1>1, <1>2, <1>3, <1>4 DEF Next

\* A step that leaves the layers and the counts alone leaves what was skipped.
LEMMA StillLeft ==
    ASSUME DispatchInv, UNCHANGED <<layers, indices, phase>>
    PROVE  \A r, i : (Passed(i) => Passed(i)') /\ (Skips(r, i) => Skips(r, i)')
    BY DEF Passed, Skips

LEMMA PassOverInv ==
    ASSUME DispatchInv, PassOver
    PROVE  DispatchInv'
<1>1. /\ AtLayer /\ HasChildren /\ index' = index + 1 /\ index < Len(layers)
      /\ UNCHANGED <<layers, indices, phase, runner, used, executed>>
    BY DEF PassOver, AtLayer
<1>2. runner = 1 /\ phase = "serial" /\ index + 1 \in 1..Len(indices) /\ indices[index + 1] > 0
    <2>1. Len(indices) \in Nat
        BY LenOfSeq DEF DispatchInv, FrameOK
    <2> QED BY <1>1, <2>1 DEF DispatchInv, FrameOK, HasChildren, AtLayer
<1>3. ASSUME NEW r \in Runners, Waiting(r)' PROVE NothingLeft(r)'
    <2>1. NothingLeft(r)
        BY <1>1, <1>3 DEF DispatchInv, FrameOK, Waiting
    <2>2. Passed(index)'
        BY <1>1, <1>2 DEF Passed
    <2>3. ASSUME NEW i \in 1..index' PROVE Passed(i)' \/ Skips(r, i)'
        <3>1. i = index' \/ i \in 1..index
            BY <1>1 DEF DispatchInv, FrameOK
        <3> QED BY <1>1, <2>1, <2>2, <3>1, StillLeft DEF NothingLeft
    <2>4. ~(r < runner')
        BY <1>1, <1>2, RunnersAre
    <2> QED BY <2>3, <2>4 DEF NothingLeft
<1>4. index' \in Nat /\ index' <= Len(layers')
    <2>1. Len(layers) \in Nat
        BY LenOfSeq DEF DispatchInv, FrameOK
    <2> QED BY <1>1, <2>1 DEF DispatchInv, FrameOK
<1> QED BY <1>1, <1>2, <1>3, <1>4 DEF DispatchInv, FrameOK

LEMMA NextRoundInv ==
    ASSUME DispatchInv, NextRound
    PROVE  DispatchInv'
<1>1. /\ runner' = 1 /\ UNCHANGED <<layers, indices, phase, index, used>>
    BY DEF NextRound
<1>2. ASSUME NEW r \in Runners, Waiting(r)' PROVE NothingLeft(r)'
    <2>1. NothingLeft(r)
        BY <1>1, <1>2 DEF DispatchInv, FrameOK, Waiting
    <2>2. ~(r < runner')
        BY <1>1, RunnersAre
    <2> QED BY <1>1, <2>1, <2>2, StillLeft DEF NothingLeft
<1>3. FrameOK'
    BY OtherFrameKept DEF DispatchInv
<1> QED BY <1>1, <1>2, <1>3 DEF DispatchInv

\* The loop is behind a layer once a whole round has skipped it.
LEMMA NextLayerInv ==
    ASSUME DispatchInv, NextLayer
    PROVE  DispatchInv'
<1>1. /\ AtLayer /\ index' = index + 1 /\ index < Len(layers) /\ runner' = 1
      /\ runner \notin Runners /\ ~executed /\ index \in Nat /\ runner \in Nat \ {0}
      /\ indices' = Append(indices, children % CountLimit) /\ IsSeq(indices)
      /\ UNCHANGED <<layers, phase, used, executed>>
    BY DEF NextLayer, AtLayer, DispatchInv, FrameOK
<1>2. /\ IsSeq(indices') /\ Len(indices') = Len(indices) + 1 /\ Len(indices) \in Nat
      /\ \A i \in 1..Len(indices) : indices'[i] = indices[i]
    <2> DEFINE count == children % CountLimit
    <2>1. indices' = Append(indices, count)
        BY <1>1
    <2> HIDE DEF count
    <2> QED BY <1>1, <2>1, AppendSeq, LenOfSeq
<1>3. ASSUME NEW r \in Runners, Waiting(r)' PROVE NothingLeft(r)'
    <2>1. NothingLeft(r)
        BY <1>1, <1>3 DEF DispatchInv, FrameOK, Waiting
    <2>2. r < runner /\ ~(r < runner')
        BY <1>1, RunnersAre
    <2>3. \A i : (Passed(i) => Passed(i)') /\ (Skips(r, i) => Skips(r, i)')
        BY <1>1, <1>2 DEF Passed, Skips
    <2>4. Skips(r, index + 1)
        BY <1>1, <2>1, <2>2 DEF NothingLeft
    <2>5. ASSUME NEW i \in 1..index' PROVE Passed(i)' \/ Skips(r, i)'
        <3>1. i = index + 1 \/ i \in 1..index
            BY <1>1
        <3> QED BY <2>1, <2>3, <2>4, <3>1 DEF NothingLeft
    <2> QED BY <2>2, <2>5 DEF NothingLeft
<1>4. index' \in Nat /\ index' <= Len(layers')
    <2>1. Len(layers) \in Nat
        BY LenOfSeq DEF DispatchInv, FrameOK
    <2> QED BY <1>1, <2>1
<1>5. phase' = "parallel" => Len(indices') = index'
    BY <1>1, <1>2 DEF DispatchInv, FrameOK
<1> QED BY <1>1, <1>2, <1>3, <1>4, <1>5 DEF DispatchInv, FrameOK

\* The next pass has runners of its own.
LEMMA NextPassInv ==
    ASSUME DispatchInv, NextPass
    PROVE  DispatchInv'
<1>1. /\ index >= Len(layers) /\ index' = 0 /\ phase' \in {"serial", "done"}
      /\ UNCHANGED <<layers, indices, runner>> /\ Len(layers) \in Nat /\ index \in Nat
    BY LenOfSeq DEF NextPass, DispatchInv, FrameOK
<1>2. runner = 1
    BY <1>1 DEF DispatchInv, FrameOK, AtLayer
<1>3. ASSUME NEW r \in Runners PROVE NothingLeft(r)'
    <2>1. 1..index' = {} /\ ~(r < runner')
        BY <1>1, <1>2, RunnersAre
    <2> QED BY <2>1 DEF NothingLeft
<1>4. FrameOK'
    BY OtherFrameKept DEF DispatchInv
<1> QED BY <1>1, <1>2, <1>3, <1>4 DEF DispatchInv

LEMMA ExecuteInv ==
    ASSUME DispatchInv, Answers, SkipsStay, Execute
    PROVE  DispatchInv'
<1>1. /\ AtLayer /\ ~HasChildren /\ runner \in Runners /\ runner' = runner + 1
      /\ used' = (IF IsDone THEN used \union {runner} ELSE used)
      /\ executed' = (executed \/ IsDone) /\ UNCHANGED <<indices, phase, index>>
    BY ExecuteIs
<1>2. FrameOK /\ index \in Nat /\ runner \in Nat \ {0}
    BY DEF DispatchInv, FrameOK
<1>3. /\ index + 1 \in 1..Len(layers) /\ Len(layers) \in Nat
      /\ Len(layers) <= Len(layers') /\ Len(layers') \in Nat
      /\ \A i \in 1..Len(layers) : i # index + 1 => layers'[i] = layers[i]
      /\ ~IsDone => layers'[index + 1] = layers[index + 1]
    BY <1>2, CallLayers
<1>4. runner \notin used /\ ExecType(Decoders[runner]) = phase /\ ~IsDone =>
          Skips(runner, index + 1)
    BY <1>1, CallAnswers
<1>5. FrameOK'
    BY <1>2, FrameKept DEF Next
<1>6. ASSUME NEW r \in Runners, Waiting(r)' PROVE NothingLeft(r)'
    <2>1. Waiting(r) /\ NothingLeft(r)
        BY <1>1, <1>6 DEF DispatchInv, Waiting
    <2>2. ASSUME NEW i \in 1..Len(layers), Skips(r, i), layers'[i] = layers[i] PROVE Skips(r, i)'
        BY <2>2 DEF SkipsStay
    <2>3. ASSUME NEW i \in 1..index' PROVE Passed(i)' \/ Skips(r, i)'
        <3>1. i \in 1..index /\ i \in 1..Len(layers) /\ i # index + 1
            BY <1>1, <1>2, <1>3
        <3>2. Passed(i) => Passed(i)'
            BY <1>1 DEF Passed
        <3> QED BY <1>3, <2>1, <2>2, <3>1, <3>2 DEF NothingLeft
    <2>4. ASSUME ~executed', r < runner' PROVE Skips(r, index + 1)'
        <3>1. ~executed /\ ~IsDone
            BY <1>1, <2>4
        <3>2. Skips(r, index + 1)
            <4>1. CASE r < runner
                BY <1>1, <2>1, <3>1, <4>1 DEF NothingLeft
            <4>2. CASE r = runner
                BY <1>4, <2>1, <3>1, <4>2 DEF Waiting
            <4>3. r < runner \/ r = runner
                BY <1>1, <1>2, <2>4, RunnersAre
            <4> QED BY <4>1, <4>2, <4>3
        <3>3. Skips(r, index + 1) /\ layers'[index + 1] = layers[index + 1] =>
                  Decode(Decoders[r], layers', layers'[index + 1]).status = "skip"
            BY <1>3 DEF SkipsStay, Skips
        <3> QED BY <1>1, <1>3, <3>1, <3>2, <3>3 DEF Skips
    <2> QED BY <2>3, <2>4 DEF NothingLeft
<1>7. AtLayer' /\ ~HasChildren'
    BY <1>1, <1>2, <1>3 DEF AtLayer, HasChildren
<1> QED BY <1>1, <1>5, <1>6, <1>7 DEF DispatchInv

LEMMA DispatchInductive ==
    DispatchSpec /\ []Answers /\ [][SkipsStay]_vars => []DispatchInv
<1>1. ASSUME DispatchInv, Answers, [Next]_vars, [SkipsStay]_vars PROVE DispatchInv'
    <2>1. CASE UNCHANGED vars
        BY <1>1, <2>1 DEF vars, DispatchInv, FrameOK, AtLayer, HasChildren, NothingLeft, Waiting, Passed,
                          Skips
    <2>2. CASE Next /\ SkipsStay
        <3>1. CASE PassOver \/ NextRound \/ NextLayer \/ NextPass
            BY <1>1, <3>1, PassOverInv, NextRoundInv, NextLayerInv, NextPassInv
        <3>2. CASE Execute
            BY <1>1, <2>2, <3>2, ExecuteInv
        <3>3. CASE Finished
            BY <2>1, <3>3 DEF Finished
        <3> QED BY <2>2, <3>1, <3>2, <3>3 DEF Next
    <2> QED BY <1>1, <2>1, <2>2
<1> QED BY <1>1, DispatchInitInv, PTL DEF DispatchSpec

\* No decoder misses a layer it would take: when a pass ends, every decoder of
\* its type that is not used up skips every layer the pass went to, with all
\* that other decoders added; for any decoders, in any order, that leave alone
\* what they skip, and go on skipping a layer while only others change.
THEOREM AllOfferedCorrect ==
    DispatchSpec /\ []Answers /\ [][SkipsStay]_vars => []AllOffered
<1>1. DispatchInv => AllOffered
    <2>1. SUFFICES ASSUME DispatchInv, index >= Len(layers), NEW r \in Runners \ used,
                          NEW i \in 1..Len(layers), ExecType(Decoders[r]) = phase,
                          phase = "serial" => indices[i] = 0
                   PROVE  Skips(r, i)
        BY DEF AllOffered, Skips
    <2>2. NothingLeft(r)
        BY <2>1 DEF DispatchInv, Waiting
    <2>3. i \in 1..index
        BY <2>1, LenOfSeq DEF DispatchInv, FrameOK
    <2>4. ~Passed(i)
        BY <2>1 DEF Passed
    <2> QED BY <2>2, <2>3, <2>4 DEF NothingLeft
<1> QED BY <1>1, DispatchInductive, PTL

---------------------------------------------------------------------------
(* Why decoding ends.                                                         *)

\* A decoder that skips adds no layers.
SkipsAddNothing ==
    AtLayer => \A r \in Runners :
        LET result == Decode(Decoders[r], layers, layers[index + 1])
        IN  result.status = "skip" => result.children = <<>>

\* The parts of a measure, the most significant first: the pass, the decoders
\* that are not used up, the layers before the loop, whether there will be
\* another round, and the decoders left in this one.
NextPhase == \/ phase = "parallel" /\ phase' = "serial"
             \/ phase = "serial" /\ phase' = "done"
MoreUsed == used \subseteq used' /\ used # used' /\ used' \subseteq Runners
FewerLayers == Len(layers') = Len(layers) /\ index < index' /\ index' <= Len(layers')
LastRound == executed /\ ~executed'
FewerRunners == runner < runner' /\ runner' <= Len(Decoders) + 1

\* Every step makes the measure smaller.
Progress ==
    \/ NextPhase
    \/ phase' = phase /\ \/ MoreUsed
                         \/ used' = used /\ \/ FewerLayers
                                            \/ /\ UNCHANGED index /\ Len(layers') = Len(layers)
                                               /\ \/ LastRound
                                                  \/ executed' = executed /\ FewerRunners

LEMMA ExecuteProgress ==
    ASSUME FrameOK, Answers, SkipsAddNothing, Execute
    PROVE  Progress
<1>1. /\ AtLayer /\ runner \in Runners /\ runner' = runner + 1
      /\ used' = (IF IsDone THEN used \union {runner} ELSE used)
      /\ executed' = (executed \/ IsDone) /\ UNCHANGED <<phase, index>>
    BY ExecuteIs
<1>2. CASE IsDone
    BY <1>1, <1>2, CallAnswers DEF Progress, MoreUsed, FrameOK
<1>3. CASE ~IsDone
    <2>1. Result.children = <<>>
        <3>1. CASE runner \notin used /\ ExecType(Decoders[runner]) = phase
            BY <1>1, <1>3, <3>1, CallAnswers DEF SkipsAddNothing, Skips
        <3>2. CASE ~(runner \notin used /\ ExecType(Decoders[runner]) = phase)
            BY <1>1, <3>2, CallAnswers
        <3> QED BY <3>1, <3>2
    <2>2. Len(layers') = Len(layers)
        BY <2>1, CallLayers
    <2>3. FewerRunners
        BY <1>1, RunnersAre DEF FewerRunners
    <2>4. used' = used /\ executed' = executed
        BY <1>1, <1>3 DEF FrameOK
    <2> QED BY <1>1, <2>2, <2>3, <2>4 DEF Progress
<1> QED BY <1>2, <1>3

\* Decoding cannot go on for ever: however decoders wait for one another, fail, or
\* add layers they would decode themselves, every step makes a measure smaller
\* whose parts are all finite; for any decoders that add nothing to what
\* they skip.
THEOREM DecodeProgresses ==
    DispatchSpec /\ []Answers /\ []SkipsAddNothing => [][Progress]_vars
<1>1. ASSUME FrameOK, Answers, SkipsAddNothing, [Next]_vars PROVE [Progress]_vars
    <2>1. Len(layers) \in Nat /\ index \in Nat
        BY <1>1, LenOfSeq DEF FrameOK
    <2>2. CASE UNCHANGED vars
        BY <1>1, <2>2 DEF vars
    <2>3. CASE PassOver \/ NextLayer
        <3>1. /\ AtLayer /\ index' = index + 1 /\ UNCHANGED <<layers, phase, used>>
            BY <2>3 DEF PassOver, NextLayer
        <3>2. FewerLayers
            BY <2>1, <3>1 DEF FewerLayers, AtLayer
        <3> QED BY <1>1, <3>1, <3>2 DEF Progress
    <2>4. CASE NextRound
        <3>1. executed /\ executed' = FALSE /\ UNCHANGED <<layers, phase, used, index>>
            BY <2>4 DEF NextRound
        <3> QED BY <1>1, <3>1 DEF Progress, LastRound
    <2>5. CASE NextPass
        <3>1. phase # "done" /\ phase' = (IF phase = "parallel" THEN "serial" ELSE "done")
              /\ used' = {}
            BY <2>5 DEF NextPass
        <3>2. NextPhase
            BY <1>1, <3>1 DEF NextPhase, FrameOK
        <3> QED BY <3>2 DEF Progress
    <2>6. CASE Execute
        BY <1>1, <2>6, ExecuteProgress
    <2>7. CASE Finished
        BY <2>2, <2>7 DEF Finished
    <2> QED BY <1>1, <2>2, <2>3, <2>4, <2>5, <2>6, <2>7 DEF Next
<1>2. DispatchSpec /\ []Answers => []FrameOK
    <2>1. (\E root : InitWith(root)) => FrameOK
        BY DispatchInitInv DEF DispatchInv
    <2> QED BY <2>1, FrameKept, PTL DEF DispatchSpec
<1> QED BY <1>1, <1>2, PTL DEF DispatchSpec
=============================================================================
