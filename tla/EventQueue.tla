----------------------------- MODULE EventQueue ------------------------------
(* SessionCallback of the Node binding: the queue of events behind its mutex, *)
(* uv_async_send, and the callback libuv runs on the main thread, which calls *)
(* JavaScript for one event after the other.                                  *)
EXTENDS Naturals, Sequences

CONSTANTS Loop,     \* the event loop's thread
          Main      \* the main thread: JavaScript, and libuv's loop

Threads == {Loop, Main}
ASSUME ThreadAssumption == Loop # Main

\* Event::serialize, of the events this composition raises: an object with its
\* type and, for counts, the length.
Event == [type : {"frames", "filtered_frames", "error"}, length : Nat]
FramesEvent(n) == [type |-> "frames", length |-> n]
FilteredEvent(n) == [type |-> "filtered_frames", length |-> n]
ErrorEvent == [type |-> "error", length |-> 0]

VARIABLES
    queue,     \* events: the deque behind the mutex
    locked,    \* the guard of the while-let lives during the JavaScript call
    step,      \* step[t]: "idle", or "send" between push_back and asyn.send()
    signal,    \* the flag uv_async_send sets: many calls, one callback
    uv,        \* "poll", "drain" in the callback, "call" in JavaScript
    current    \* the event JavaScript is called with

queueVars == <<queue, locked, step, signal, uv, current>>

QueueInit ==
    /\ queue = <<>> /\ locked = FALSE
    /\ step = [t \in Threads |-> "idle"]
    /\ signal = FALSE /\ uv = "poll" /\ current = <<>>

\* The main thread is one thread: it does nothing else during the callback,
\* and no listener of the program calls a method that raises an event.
MayRaise(t) == t = Main => uv = "poll"
MayPoll == step[Main] = "idle"

\* on_event, first half: push_back under the mutex.
PushBack(t, event) ==
    /\ step[t] = "idle" /\ MayRaise(t) /\ ~locked
    /\ queue' = Append(queue, event)
    /\ step' = [step EXCEPT ![t] = "send"]
    /\ UNCHANGED <<locked, signal, uv, current>>

\* on_event, second half: uv_async_send.
Send(t) ==
    /\ step[t] = "send"
    /\ step' = [step EXCEPT ![t] = "idle"]
    /\ signal' = TRUE
    /\ UNCHANGED <<queue, locked, uv, current>>

\* libuv clears the flag, then runs the callback.
Wake ==
    /\ uv = "poll" /\ signal /\ MayPoll
    /\ signal' = FALSE /\ uv' = "drain"
    /\ UNCHANGED <<queue, locked, step, current>>

\* while let Some(json) = ev.lock().pop_front()
PopFront ==
    /\ uv = "drain" /\ ~locked /\ queue # <<>>
    /\ current' = <<Head(queue)>> /\ queue' = Tail(queue)
    /\ locked' = TRUE /\ uv' = "call"
    /\ UNCHANGED <<step, signal>>

DrainDone ==
    /\ uv = "drain" /\ ~locked /\ queue = <<>>
    /\ uv' = "poll"
    /\ UNCHANGED <<queue, locked, step, signal, current>>

\* Mutant of Return: one event for each callback (if let).
ReturnToPoll ==
    /\ uv = "call"
    /\ locked' = FALSE /\ uv' = "poll" /\ current' = <<>>
    /\ UNCHANGED <<queue, step, signal>>

\* JavaScript returns, and the guard is dropped.
Return ==
    /\ uv = "call"
    /\ locked' = FALSE /\ uv' = "drain" /\ current' = <<>>
    /\ UNCHANGED <<queue, step, signal>>

QueueType ==
    /\ queue \in Seq(Event) /\ locked \in BOOLEAN
    /\ step \in [Threads -> {"idle", "send"}]
    /\ signal \in BOOLEAN /\ uv \in {"poll", "drain", "call"}
    /\ current \in Seq(Event) /\ (uv = "call" <=> current # <<>>)

\* No wake-up is lost: while an event is queued, the callback is running, or
\* libuv has been told to run it, or a thread is just about to tell it; although
\* several sends may come to one callback and a push may come during it.
NoLostWakeup ==
    queue # <<>> =>
        uv # "poll" \/ signal \/ \E t \in Threads : step[t] = "send"
=============================================================================
