------------------------------ MODULE FrameLog ------------------------------
(***************************************************************************)
(* The abstract frame store: frames are numbered in some order, and the    *)
(* published log is an initial part of them that only ever grows.  How     *)
(* many threads decode them in between does not show.                      *)
(***************************************************************************)
EXTENDS Integers, Sequences

VARIABLES
  accepted,  \* the frames that have been numbered, in that order
  log        \* the frames anyone may read

vars == <<accepted, log>>

Init == accepted = <<>> /\ log = <<>>

\* New frames are numbered.
Accept ==
  /\ Len(accepted') > Len(accepted)
  /\ SubSeq(accepted', 1, Len(accepted)) = accepted
  /\ UNCHANGED log

\* The next frames are published.
Publish ==
  /\ \E n \in Len(log) + 1..Len(accepted) : log' = SubSeq(accepted, 1, n)
  /\ UNCHANGED accepted

Next == Accept \/ Publish

Spec == Init /\ [][Next]_vars
=============================================================================
