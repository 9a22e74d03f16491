------------------------------ MODULE JobStatus ------------------------------
(***************************************************************************)
(* What a job is to a client of the jobs API, and what GET /jobs/:id may   *)
(* say of it (src/src/jobs.ts, handleJobStatus of src/src/index.ts).  The  *)
(* phases queued, preparing, rendering and converting are one, "queued".   *)
(***************************************************************************)

\* "gone": the instance's retention is over and nobody knows the job any more.
State == {"none", "queued", "completed", "failed", "gone"}
Terminal == {"completed", "failed"}

\* How a job that was accepted goes on.
Becomes(s) ==
  CASE s = "queued"     -> Terminal
    [] s \in Terminal   -> {"gone"}
    [] OTHER            -> {}

\* "missing" is a 404, "error" any other failure.  A transient error of get()
\* is answered like an unknown job.
Answer == {"queued", "completed", "failed", "missing", "error"}

Replies(s) ==
  {"error"} \union (IF s = "none" THEN {} ELSE {"missing"}) \union ({s} \intersect Answer)
=============================================================================
