------------------------------- MODULE Inputs -------------------------------
(***************************************************************************)
(* The reader threads: one per input, each asking its reader for layers in *)
(* a loop for as long as the store holds the input's sender.               *)
(* Source: genet-kernel/src/store.rs, set_input, unset_input and the Drop  *)
(* of InputContext.                                                        *)
(***************************************************************************)
EXTENDS Pipeline

CONSTANTS
  MaxBatch,  \* bound: layers one read returns
  MaxRead(_) \* bound: layers reader i returns in all

ASSUME ReadAssumption == MaxBatch \in Nat /\ \A i \in Ids : MaxRead(i) \in Nat

VARIABLES
  rpc,    \* rpc[i]: "none", "check" (sender.upgrade()), "read", "ended", "dead"
  slot,   \* slot[i]: where the InputContext of i is: "free", "held" (inputs),
          \* "unset" (inputs_trash), "joining" and "joined" (its Drop)
  nread   \* nread[i]: layers reader i has returned so far

inputVars == <<rpc, slot, nread>>

InputsInit ==
  /\ rpc = [i \in Ids |-> "none"]
  /\ slot = [i \in Ids |-> "free"]
  /\ nread = [i \in Ids |-> 0]

\* Mutant of HasHolder: unset_input keeps the Arc with the context.
HasHolderInTrash(i) == slot[i] \in {"held", "unset"}

\* The strong Arc the thread's Weak sender upgrades to.
HasHolder(i) == slot[i] = "held"

\* while let Some(sender) = sender.upgrade()
ReaderCheck(i) ==
  /\ rpc[i] = "check"
  /\ rpc' = [rpc EXCEPT ![i] = IF HasHolder(i) THEN "read" ELSE "ended"]
  /\ UNCHANGED <<slot, nread, chan, panics>>

\* input.read() returns layers: Ok(layers) is sent unless it is empty.
ReaderRead(i) ==
  /\ rpc[i] = "read"
  /\ \E n \in 0..MaxBatch :
       /\ nread[i] + n <= MaxRead(i)
       /\ nread' = [nread EXCEPT ![i] = @ + n]
       /\ chan' = IF n = 0
                  THEN chan
                  ELSE Append(chan, PushFrames(i,
                         [k \in 1..n |-> [src |-> i, seq |-> nread[i] + k]]))
  /\ rpc' = [rpc EXCEPT ![i] = "check"]
  /\ UNCHANGED <<slot, panics>>

\* Mutant of ReaderFail: the loop goes on after an error.
ReaderFailNoBreak(i) ==
  /\ rpc[i] = "read"
  /\ chan' = Append(chan, PushError(i))
  /\ rpc' = [rpc EXCEPT ![i] = "check"]
  /\ UNCHANGED <<slot, nread, panics>>

\* input.read() fails: the error is sent, and the loop ends.
ReaderFail(i) ==
  /\ rpc[i] = "read"
  /\ chan' = Append(chan, PushError(i))
  /\ rpc' = [rpc EXCEPT ![i] = "ended"]
  /\ UNCHANGED <<slot, nread, panics>>

\* The reader panics: the thread unwinds without telling the event loop.
ReaderPanic(i) ==
  /\ rpc[i] = "read"
  /\ rpc' = [rpc EXCEPT ![i] = "dead"]
  /\ panics' = panics + 1
  /\ UNCHANGED <<slot, nread, chan>>
=============================================================================
