------------------------------- MODULE JobsApi -------------------------------
(***************************************************************************)
(* The contract between one conversion job and the clients that follow it: *)
(* an accepted job ends once, in one way, and what a client is told of it  *)
(* is what it was at some moment between the request and the answer.       *)
(* ConvertJob implements it; it is the server that JobPolling meets.       *)
(***************************************************************************)
EXTENDS JobStatus

VARIABLES
  state,  \* of the job
  said    \* the last status told; "none" before the first

vars == <<state, said>>

Init == state = "none" /\ said = "none"

Accept == state = "none" /\ state' = "queued" /\ UNCHANGED said

Move == state' \in Becomes(state) /\ UNCHANGED said

Say == said' \in Replies(state) /\ UNCHANGED state

Next == Accept \/ Move \/ Say

Spec == Init /\ [][Next]_vars

\* What the clients count on: an accepted job does not stay in flight.
JobsEnd == state = "queued" ~> state # "queued"
=============================================================================
