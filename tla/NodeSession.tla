----------------------------- MODULE NodeSession -----------------------------
(* The session as JavaScript sees it: the methods of the native class, the    *)
(* event loop's part that raises events, and the status genet-node keeps from *)
(* them.  The store is reduced to its length and to one display filter.       *)
EXTENDS EventQueue, FiniteSets

CONSTANTS Filters,       \* filters that compile
          None, Bad,     \* the empty filter; one that does not compile
          Matches(_, _), \* does the filter pass frame i?
          MaxFrames,     \* bound: frames
          MaxCalls       \* bound: calls of JavaScript

ASSUME SessionAssumption ==
    /\ None \notin Filters /\ Bad \notin Filters /\ None # Bad
    /\ MaxFrames \in Nat /\ MaxCalls \in Nat
    /\ \A f \in Filters, i \in 1..MaxFrames : Matches(f, i) \in BOOLEAN

VARIABLES
    commands,   \* SetFilter commands on their way to the event loop
    stored,     \* the length of the frame store
    filter,     \* the filter in filter_map
    offset,     \* its offset
    found,      \* the length of the filtered store
    raise,      \* the event the loop has to raise next
    status,     \* the JavaScript session's status: frames, filter
    calls       \* calls of JavaScript so far

storeVars == <<stored, filter, offset, found, raise>>
scriptVars == <<commands, status, calls>>
vars == <<queueVars, storeVars, scriptVars>>

Init ==
    /\ QueueInit
    /\ commands = <<>> /\ stored = 0 /\ filter = None /\ offset = 0 /\ found = 0
    /\ raise = <<>>
    /\ status = [frames |-> 0, filter |-> <<>>] /\ calls = 0

---------------------------------------------------------------------------
(* The event loop *)

UpToDate == filter = None \/ offset = stored

\* StoreFrames: the frames are stored, then announced.
StoreFrames ==
    /\ raise = <<>> /\ step[Loop] = "idle" /\ UpToDate
    /\ \E n \in 1..(MaxFrames - stored) :
        /\ stored' = stored + n
        /\ raise' = <<FramesEvent(stored + n)>>
    /\ UNCHANGED <<queueVars, filter, offset, found, scriptVars>>

\* Mutant of PushFilter: a new filter is not announced with no frames.
PushFilterSilent ==
    /\ raise = <<>> /\ step[Loop] = "idle" /\ UpToDate /\ commands # <<>>
    /\ commands' = Tail(commands)
    /\ filter' = Head(commands) /\ offset' = 0 /\ found' = 0
    /\ UNCHANGED <<queueVars, raise, stored, status, calls>>

\* process_push_filter: a filter starts at 0 and says so; removing one is silent.
PushFilter ==
    /\ raise = <<>> /\ step[Loop] = "idle" /\ UpToDate /\ commands # <<>>
    /\ commands' = Tail(commands)
    /\ filter' = Head(commands) /\ offset' = 0
    /\ IF filter' = None THEN found' = 0 /\ UNCHANGED raise
                         ELSE raise' = <<FilteredEvent(0)>> /\ UNCHANGED found
    /\ UNCHANGED <<queueVars, stored, status, calls>>

\* on_event, called by the loop; after a filter's first event, what the filter
\* before it had found is removed.
RaiseEvent ==
    /\ raise # <<>>
    /\ PushBack(Loop, raise[1])
    /\ raise' = <<>>
    /\ found' = IF offset = 0 THEN 0 ELSE found
    /\ UNCHANGED <<stored, filter, offset, scriptVars>>

\* process_filters: one block of frames, and an event if some of them pass.
ProcessFilter ==
    /\ raise = <<>> /\ step[Loop] = "idle" /\ ~UpToDate
    /\ \E end \in (offset + 1)..stored :
        LET passed == Cardinality({i \in (offset + 1)..end : Matches(filter, i)})
        IN  /\ offset' = end
            /\ found' = found + passed
            /\ raise' = IF passed = 0 THEN <<>> ELSE <<FilteredEvent(found + passed)>>
    /\ UNCHANGED <<queueVars, stored, filter, scriptVars>>

---------------------------------------------------------------------------
(* JavaScript *)

\* Mutant of SetFilter: a filter that does not compile is sent all the same.
SetFilterUnchecked ==
    /\ uv = "poll" /\ step[Main] = "idle" /\ calls < MaxCalls
    /\ \E f \in Filters \union {None, Bad} :
        /\ commands' = Append(commands, f)
        /\ status' = IF f = None THEN [status EXCEPT !.filter = <<>>] ELSE status
    /\ calls' = calls + 1
    /\ UNCHANGED <<queueVars, storeVars>>

\* Session.setFilter: the empty filter deletes the status; a filter that does
\* not compile throws before that, and the native method goes on without one.
SetFilter ==
    /\ uv = "poll" /\ step[Main] = "idle" /\ calls < MaxCalls
    /\ \E f \in Filters \union {None, Bad} :
        /\ commands' = Append(commands, IF f = Bad THEN None ELSE f)
        /\ status' = IF f = None THEN [status EXCEPT !.filter = <<>>] ELSE status
    /\ calls' = calls + 1
    /\ UNCHANGED <<queueVars, storeVars>>

\* create_reader and create_writer whose worker fails: the event is raised on
\* the main thread.
CreateFails ==
    /\ calls < MaxCalls
    /\ PushBack(Main, ErrorEvent)
    /\ calls' = calls + 1
    /\ UNCHANGED <<storeVars, commands, status>>

\* The listener of the native session.
Updated(event) ==
    CASE event.type = "frames" -> [status EXCEPT !.frames = event.length]
      [] event.type = "filtered_frames" -> [status EXCEPT !.filter = <<event.length>>]
      [] OTHER -> status

HandleEvent ==
    /\ Return
    /\ status' = Updated(current[1])
    /\ UNCHANGED <<storeVars, commands, calls>>

QueueStep == /\ Wake \/ PopFront \/ DrainDone \/ \E t \in Threads : Send(t)
             /\ UNCHANGED <<storeVars, scriptVars>>

LoopNext == StoreFrames \/ PushFilter \/ RaiseEvent \/ ProcessFilter
Next == LoopNext \/ SetFilter \/ CreateFails \/ HandleEvent \/ QueueStep

\* The loop works off its commands and its filters, the main thread turns its
\* loop; no frame needs to come and no call.
Spec == /\ Init /\ [][Next]_vars
        /\ WF_vars(PushFilter \/ RaiseEvent \/ ProcessFilter)
        /\ WF_vars(QueueStep) /\ WF_vars(HandleEvent)

---------------------------------------------------------------------------
(* Properties *)

\* Every variable has its type; only filters that compiled reach the store.
TypeOK ==
    /\ QueueType
    /\ commands \in Seq(Filters \union {None}) /\ filter \in Filters \union {None}
    /\ stored \in 0..MaxFrames /\ offset \in 0..stored /\ found \in Nat
    /\ raise \in Seq(Event) /\ Len(raise) <= 1
    /\ status \in [frames : Nat, filter : Seq(Nat)]
    /\ calls \in 0..MaxCalls

Quiet == /\ commands = <<>> /\ raise = <<>> /\ UpToDate
         /\ queue = <<>> /\ uv = "poll" /\ \A t \in Threads : step[t] = "idle"

\* When nothing is under way the status is that of the store: the number of
\* frames, and for a filter that is set the number of frames found, even if
\* events of the filter before it were still queued when it was set.  (With no
\* filter set, or one that did not compile, a late event of the former filter
\* may bring back its count.)
StatusSettles ==
    Quiet => /\ status.frames = stored
             /\ filter # None => status.filter = <<found>>

\* What is found is always announced in the end: JavaScript comes to show as
\* many frames as the store had, without anything else having to happen.
StatusCatchesUp ==
    \A n \in 1..MaxFrames : stored >= n ~> status.frames >= n
=============================================================================
