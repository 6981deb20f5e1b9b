------------------------------ MODULE Dispatcher ------------------------------
(* decoder/dispatcher.rs: how one frame goes through the decoders, first in a *)
(* worker of the parallel pool, then in the serial thread.  One step is one   *)
(* call of a decoder on a layer.  A frame belongs to one thread at a time, so *)
(* nothing interleaves with the loops; which decoder accepts which layer is   *)
(* given by Decode.                                                           *)
EXTENDS Integers, Sequences

CONSTANTS
    Decoders,         \* the profile's decoders, in the order they were loaded
    ExecType(_),      \* "parallel" or "serial", from a decoder's metadata
    Decode(_, _, _),  \* worker.decode(decoder, layers, parent): a record of
                      \* status ("done", "skip" or "error"), parent, children
    CountLimit        \* a number of children is kept modulo this (u8: 256)

ASSUME DecodersAssumption ==
    Len(Decoders) \in Nat /\ DOMAIN Decoders = 1..Len(Decoders)

VARIABLES
    layers,    \* Frame::layers: the root, then every child in order of creation
    indices,   \* Frame::tree_indices
    phase,     \* the pool that has the frame: "parallel", "serial", or "done"
    index,     \* the layer the loop is at, from 0
    runner,    \* the decoder the inner loop is at
    used,      \* the decoders whose OnceRunner is used up in this pass
    executed,  \* whether a runner was done in this round
    children,  \* how many layers the layer at index has been given
    parents,   \* history: the parent of each layer but the first
    decoded    \* history: how many layers the first pass left

vars == <<layers, indices, phase, index, runner, used, executed, children,
          parents, decoded>>

Runners == DOMAIN Decoders

InitWith(root) ==
    /\ layers = <<root>>
    /\ indices = <<>>
    /\ phase = "parallel"
    /\ index = 0
    /\ runner = 1
    /\ used = {}
    /\ executed = FALSE
    /\ children = 0
    /\ parents = <<>>
    /\ decoded = 0

AtLayer == phase # "done" /\ index < Len(layers)

\* A pass leaves alone the layers an earlier one has given children.
HasChildren == index < Len(indices) /\ indices[index + 1] > 0

\* The whole call on a layer that is left alone.
PassOver ==
    /\ AtLayer
    /\ HasChildren
    /\ index' = index + 1
    /\ UNCHANGED <<layers, indices, phase, runner, used, executed, children,
                   parents, decoded>>

\* Mutant of Execute: a runner without a worker is never used up.
ExecuteIdle ==
    /\ AtLayer
    /\ ~HasChildren
    /\ runner \in Runners
    /\ runner' = runner + 1
    /\ LET parent == layers[index + 1]
           idle == ExecType(Decoders[runner]) # phase
           result == IF runner \in used
                     THEN [status |-> "used", parent |-> parent, children |-> <<>>]
                     ELSE IF idle
                     THEN [status |-> "done", parent |-> parent, children |-> <<>>]
                     ELSE Decode(Decoders[runner], layers, parent)
           n == Len(result.children)
       IN  /\ used' = IF ~idle /\ result.status \in {"done", "error"}
                      THEN used \union {runner} ELSE used
           /\ executed' = (executed \/ result.status \in {"done", "error"})
           /\ children' = children + n
           /\ layers' = [layers EXCEPT ![index + 1] = result.parent]
                            \o result.children
           /\ parents' = parents \o [i \in 1..n |-> index + 1]
    /\ UNCHANGED <<indices, phase, index, decoded>>

\* Runner::execute: without a worker of this pass' type the answer is "done";
\* an error counts as done, and what the decoder did until then is kept.
Execute ==
    /\ AtLayer
    /\ ~HasChildren
    /\ runner \in Runners
    /\ runner' = runner + 1
    /\ LET parent == layers[index + 1]
           result == IF runner \in used
                     THEN [status |-> "used", parent |-> parent, children |-> <<>>]
                     ELSE IF ExecType(Decoders[runner]) # phase
                     THEN [status |-> "done", parent |-> parent, children |-> <<>>]
                     ELSE Decode(Decoders[runner], layers, parent)
           n == Len(result.children)
       IN  /\ used' = IF result.status \in {"done", "error"}
                      THEN used \union {runner} ELSE used
           /\ executed' = (executed \/ result.status \in {"done", "error"})
           /\ children' = children + n
           /\ layers' = [layers EXCEPT ![index + 1] = result.parent]
                            \o result.children
           /\ parents' = parents \o [i \in 1..n |-> index + 1]
    /\ UNCHANGED <<indices, phase, index, decoded>>

\* Another round as long as one of the decoders was done in the last.
NextRound ==
    /\ AtLayer
    /\ ~HasChildren
    /\ runner \notin Runners
    /\ executed
    /\ runner' = 1
    /\ executed' = FALSE
    /\ UNCHANGED <<layers, indices, phase, index, used, children, parents, decoded>>

\* Mutants of NextLayer: the count of children goes on from layer to layer;
\* and the next layer comes after one round.
NextLayerCounting ==
    /\ AtLayer
    /\ ~HasChildren
    /\ runner \notin Runners
    /\ ~executed
    /\ indices' = Append(indices, children % CountLimit)
    /\ index' = index + 1
    /\ runner' = 1
    /\ UNCHANGED <<layers, phase, used, executed, children, parents, decoded>>
NextLayerAtOnce ==
    /\ AtLayer
    /\ ~HasChildren
    /\ runner \notin Runners
    /\ indices' = Append(indices, children % CountLimit)
    /\ index' = index + 1
    /\ runner' = 1
    /\ children' = 0
    /\ executed' = FALSE
    /\ UNCHANGED <<layers, phase, used, parents, decoded>>

NextLayer ==
    /\ AtLayer
    /\ ~HasChildren
    /\ runner \notin Runners
    /\ ~executed
    /\ indices' = Append(indices, children % CountLimit)
    /\ index' = index + 1
    /\ runner' = 1
    /\ children' = 0
    /\ UNCHANGED <<layers, phase, used, executed, parents, decoded>>

\* The serial thread starts process_frame again, with runners of its own.
NextPass ==
    /\ phase # "done"
    /\ index >= Len(layers)
    /\ phase' = IF phase = "parallel" THEN "serial" ELSE "done"
    /\ index' = 0
    /\ used' = {}
    /\ decoded' = IF phase = "parallel" THEN Len(layers) ELSE decoded
    /\ UNCHANGED <<layers, indices, runner, executed, children, parents>>

Finished == phase = "done" /\ UNCHANGED vars

Next == PassOver \/ Execute \/ NextRound \/ NextLayer \/ NextPass \/ Finished

---------------------------------------------------------------------------
\* No decoder misses a layer it would take: when a pass ends, every decoder
\* of its type that has not been used up skips every layer the pass went to,
\* as the layers are at the end, with all that other decoders added to them.
AllOffered ==
    phase # "done" /\ index >= Len(layers) =>
        \A r \in Runners \ used, i \in 1..Len(layers) :
            ExecType(Decoders[r]) = phase
            /\ (phase = "serial" => indices[i] = 0) =>
                Decode(Decoders[r], layers, layers[i]).status = "skip"

\* Decoding ends, however decoders wait for one another, fail or add layers
\* they would decode themselves: the loop over the runners starts again only
\* after one of them was used up.
DecodeTerminates == <>(phase = "done")
=============================================================================
