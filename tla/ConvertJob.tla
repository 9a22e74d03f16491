----------------------------- MODULE ConvertJob -----------------------------
(***************************************************************************)
(* One conversion job: the POST handler that creates it, ConvertWorkflow   *)
(* (src/src/workflow.ts), the R2 objects they share, and the client that   *)
(* polls GET /jobs/:id and fetches GET /jobs/:id/download (src/src/        *)
(* index.ts, src/src/jobs.ts).  Jobs share no state.                       *)
(*                                                                         *)
(* A step of the Workflow executes at least once: an attempt may fail      *)
(* before, between or after its writes, and the engine starts it again up  *)
(* to its retry limit.  The handlers read the instance status and the R2   *)
(* objects one after the other, while the Workflow goes on, and the R2     *)
(* lifecycle may remove any object of an old job.                          *)
(*                                                                         *)
(* Data: TXT and EPUB jobs are one kind ("document"), they differ in key   *)
(* names only.  Article stands for the article and fonts.css, which are    *)
(* written together; a lost fonts.css costs only the font.  progress.json  *)
(* of the Aozora fallback, which nothing reads, is left out.               *)
(***************************************************************************)
EXTENDS Integers, FiniteSets

CONSTANTS
  Retries,   \* Retries[l]: retries of step l before it throws
  Chunks,    \* pieces of the Aozora fallback (4)
  MaxMishaps \* bound on lifecycle expiries and failed deletions

Input    == <<"input", 0>>     \* the uploaded file
Article  == <<"article", 0>>   \* article.html or epub.html
Pdf      == <<"pdf", 0>>       \* intermediate source.pdf
Manifest == <<"manifest", 0>>
Html(i)  == <<"html", i>>      \* piece i of the fallback
Part(i)  == <<"part", i>>      \* its PDF
Output   == <<"output", 0>>    \* output.xtc

Pieces   == {Html(i) : i \in 1 .. Chunks}
Parts    == {Part(i) : i \in 1 .. Chunks}
Fallback == {Manifest} \union Pieces \union Parts
Intermediate == {Article, Pdf} \union Fallback
Objects  == {Input, Output} \union Intermediate

Steps == {"extract", "prepare", "render", "split", "chunk", "merge",
          "convert", "cleanup"}

ASSUME RetriesAssumption == Retries \in [Steps -> Nat]
ASSUME ChunksAssumption == Chunks \in Nat \ {0}
ASSUME MishapsAssumption == MaxMishaps \in Nat

VARIABLES
  kind,      \* "full" and "extract" (URL jobs), "pdf", "document"
  r2,        \* R2 objects of the job
  expired,   \* history: objects the lifecycle rules removed
  post,      \* next step of the POST handler
  reported,  \* its answer: "none", "accepted" (202) or "refused"
  step,      \* the instance: "none", "queued", the step it executes,
             \* "complete" or "errored"
  tries,     \* failed attempts of the step
  pos,       \* rendered pieces of the fallback
  todo,      \* keys this attempt of the delete step has still to delete
  known,     \* the objects whose keys run() holds
  aozora,    \* isAozoraOrigin
  kept,      \* history: keys the delete step could not delete
  result,    \* how the body of run() ended: "none", "ok", "missing" (input
             \* of a step not in R2) or "failed"
  ask,       \* next step of the client's request
  wants,     \* "status" or "download"
  probed,    \* the objects it has looked for
  found,     \* those of them that it found
  reply,     \* answer to its last download: "file", "conflict" (409), or a 404
             \* with its reason, "expired", "failed" or "unknown"
  polled     \* history: the last status answered

workflow == <<step, tries, pos, todo, kept, known, aozora, result>>
handler  == <<post, reported>>
request  == <<ask, wants, probed, found, reply, polled>>
vars     == <<kind, r2, expired, handler, workflow, request>>

Kinds    == {"full", "extract", "pdf", "document"}
Uploads  == {"pdf", "document"}
Over     == {"complete", "errored"}
Running  == step \in Steps

Phases   == {"queued", "preparing", "rendering", "converting", "completed",
             "failed"}

\* The heads of mapWithPhaseProbe whose result can matter to a job of the kind:
\* a URL job has no upload, and only a document's article makes a phase.
Probes == CASE kind = "document" -> {Input, Article, Pdf}
            [] kind = "pdf"      -> {Input, Pdf}
            [] OTHER             -> {Pdf}

TypeOK ==
  /\ kind \in Kinds
  /\ r2 \in SUBSET Objects
  /\ expired \in SUBSET Objects
  /\ post \in {"idle", "saved", "undo", "done"}
  /\ reported \in {"none", "accepted", "refused"}
  /\ step \in {"none", "queued"} \union Steps \union Over
  /\ tries \in Nat
  /\ Running => tries <= Retries[step]
  /\ pos \in 0 .. Chunks
  /\ todo \in SUBSET (Objects \ {Output})
  /\ kept \in SUBSET (Objects \ {Output})
  /\ known \in SUBSET Intermediate
  /\ aozora \in BOOLEAN
  /\ result \in {"none", "ok", "missing", "failed"}
  /\ ask \in {"idle", "get", "status", "probe"}
  /\ wants \in {"status", "download"}
  /\ probed \in SUBSET Probes
  /\ found \in SUBSET probed
  /\ reply \in {"none", "file", "conflict", "expired", "failed", "unknown"}
  /\ polled \in {"none"} \union Phases

Init ==
  /\ kind \in Kinds
  /\ r2 = {} /\ expired = {}
  /\ post = "idle" /\ reported = "none"
  /\ step = "none" /\ tries = 0 /\ pos = 0 /\ todo = {} /\ kept = {}
  /\ known = {} /\ aozora = FALSE /\ result = "none"
  /\ ask = "idle" /\ wants = "status"
  /\ probed = {} /\ found = {} /\ reply = "none" /\ polled = "none"

-----------------------------------------------------------------------------
(* The POST handlers: handleCreateJob, handleCreatePdfJob,                 *)
(* handleCreateTextJob, createStoredEpubJob.                               *)

\* Best-effort delete: a failure is swallowed.
DeleteBestEffort(o) == r2' = r2 \ {o} \/ UNCHANGED r2

\* The body goes to R2; a failed or short put is deleted again and refused.
Save ==
  /\ post = "idle" /\ kind \in Uploads
  /\ \/ r2' = r2 \union {Input} /\ post' = "saved" /\ UNCHANGED reported
     \/ r2' \in SUBSET {Input} /\ post' = "done" /\ reported' = "refused"
  /\ UNCHANGED <<kind, expired, workflow, request>>

\* create() may throw although the instance exists.
Create ==
  /\ post = IF kind \in Uploads THEN "saved" ELSE "idle"
  /\ \/ step' = "queued" /\ reported' = "accepted" /\ post' = "done"
     \/ /\ step' \in {"none", "queued"}
        /\ reported' = "refused"
        /\ post' = IF kind \in Uploads THEN "undo" ELSE "done"
  /\ UNCHANGED <<kind, r2, expired, tries, pos, todo, kept, known, aozora, result,
                 request>>

Undo ==
  /\ post = "undo"
  /\ DeleteBestEffort(Input)
  /\ post' = "done"
  /\ UNCHANGED <<kind, expired, reported, workflow, request>>

-----------------------------------------------------------------------------
(* How an attempt of a step ends.                                          *)

FirstStep ==
  CASE kind = "full"     -> "render"
    [] kind = "extract"  -> "extract"
    [] kind = "document" -> "prepare"
    [] kind = "pdf"      -> "convert"

\* The keys of the finally block.
CleanupKeys == known \union (IF kind \in Uploads THEN {Input} ELSE {})

Enter(l) ==
  /\ step' = l /\ tries' = 0
  /\ todo' = IF l = "cleanup" THEN CleanupKeys ELSE {}

\* Mutant: the convert step, too, is before the try block.
ThrowTargetOutside ==
  IF step \in {"cleanup", "extract", "render", "convert"}
  THEN "errored" ELSE "cleanup"

\* Where a step throws to: extract-content and render-pdf are outside the try
\* block of run(), runUploadedPdf and the others have every step inside.
ThrowTarget ==
  IF step = "cleanup" \/ (kind \notin Uploads /\ step \in {"extract", "render"})
  THEN "errored"
  ELSE "cleanup"

\* NonRetryableError, or the retries are used up.
Throw(why) == result' = why /\ Enter(ThrowTarget)

\* Mutant: the retry limit is not applied.
AttemptFailsForever ==
  /\ tries' = IF tries < Retries[step] THEN tries + 1 ELSE 0
  /\ todo' = IF step = "cleanup" THEN CleanupKeys ELSE {}
  /\ UNCHANGED <<step, result>>

AttemptFails ==
  \/ /\ tries < Retries[step]
     /\ tries' = tries + 1
     /\ todo' = IF step = "cleanup" THEN CleanupKeys ELSE {}
     /\ UNCHANGED <<step, result>>
  \/ tries = Retries[step] /\ Throw("failed")

Succeeds(l) == Enter(l) /\ UNCHANGED result

\* All that an attempt that failed before its writes leaves.
FailsEarly(whys) ==
  /\ AttemptFails \/ \E why \in whys : Throw(why)
  /\ UNCHANGED <<r2, known, aozora>>

\* The attempt writes objects and returns keys; its result may still be lost.
Stores(objects, keys, l) ==
  /\ r2' = r2 \union objects
  /\ \/ AttemptFails /\ UNCHANGED known
     \/ Succeeds(l) /\ known' = known \union keys
  /\ UNCHANGED aozora

Mishap == Cardinality(expired) + Cardinality(kept) < MaxMishaps

others == <<kind, expired, kept, handler, request>>

-----------------------------------------------------------------------------
(* The steps of ConvertWorkflow.run.                                       *)

Begin ==
  /\ step = "queued"
  /\ Succeeds(FirstStep)
  /\ UNCHANGED <<r2, pos, known, aozora, others>>

\* "extract-content": whatever goes wrong with the extraction, the job renders
\* the URL instead; only a page that answers with an HTTP error fails it.
Extract ==
  /\ step = "extract"
  /\ \/ FailsEarly({"failed"})
     \/ \E objects \in SUBSET {Article} :
          /\ r2' = r2 \union objects
          /\ \/ AttemptFails /\ UNCHANGED <<known, aozora>>
             \/ /\ Succeeds("render")
                /\ known' \in SUBSET objects
                /\ aozora' \in {a \in BOOLEAN : a => Article \in known'}
  /\ UNCHANGED <<pos, others>>

\* "prepare-text", "prepare-epub".
Prepare ==
  /\ step = "prepare"
  /\ IF Input \notin r2
     THEN FailsEarly({"missing"})
     ELSE FailsEarly({"failed"}) \/ Stores({Article}, {Article}, "render")
  /\ UNCHANGED <<pos, others>>

\* Mutant: the article is deleted as soon as it is rendered.
RenderAndDrop ==
  /\ step = "render"
  /\ IF kind = "document" /\ Article \notin r2
     THEN FailsEarly({"missing"})
     ELSE \/ FailsEarly({"failed"})
          \/ /\ r2' = (r2 \union {Pdf}) \ {Article}
             /\ Succeeds("convert")
             /\ known' = known \union {Pdf}
             /\ UNCHANGED aozora
  /\ UNCHANGED <<pos, others>>

\* "render-pdf", "render-text-pdf", "render-epub-pdf".  A URL job whose article
\* is gone prints the page; one whose Aozora article timed out goes to split.
Render ==
  /\ step = "render"
  /\ IF kind = "document" /\ Article \notin r2
     THEN FailsEarly({"missing"})
     ELSE \/ FailsEarly({"failed"})
          \/ Stores({Pdf}, {Pdf}, "convert")
          \/ /\ aozora /\ Article \in r2
             /\ Succeeds("split")
             /\ known' = known \union Fallback
             /\ UNCHANGED <<r2, aozora>>
  /\ UNCHANGED <<pos, others>>

\* "prepare-aozora-fallback": a failed put leaves the pieces before it.
Split ==
  /\ step = "split"
  /\ IF Article \notin r2
     THEN FailsEarly({"missing"})
     ELSE \/ FailsEarly({"failed"})
          \/ \E n \in 1 .. Chunks :
               /\ AttemptFails
               /\ r2' = r2 \union {Html(i) : i \in 1 .. n}
               /\ UNCHANGED <<known, aozora>>
          \/ Stores({Manifest} \union Pieces, {}, "chunk")
  /\ UNCHANGED <<pos, others>>

\* "render-aozora-fallback-000n", one step for each piece in turn.
Chunk ==
  /\ step = "chunk"
  /\ \/ /\ IF Html(pos + 1) \notin r2
           THEN FailsEarly({"missing"})
           ELSE FailsEarly({"failed"})
        /\ UNCHANGED pos
     \/ /\ Html(pos + 1) \in r2
        /\ r2' = r2 \union {Part(pos + 1)}
        /\ \/ AttemptFails /\ UNCHANGED pos
           \/ /\ pos' = pos + 1
              /\ Succeeds(IF pos + 1 < Chunks THEN "chunk" ELSE "merge")
        /\ UNCHANGED <<known, aozora>>
  /\ UNCHANGED others

\* "merge-aozora-fallback-pdf".
Merge ==
  /\ step = "merge"
  /\ IF ~ ({Manifest} \union Parts \subseteq r2)
     THEN FailsEarly({"missing"})
     ELSE FailsEarly({"failed"}) \/ Stores({Pdf}, {Pdf}, "convert")
  /\ UNCHANGED <<pos, others>>

\* "convert-xtc", "convert-uploaded-pdf".
Source == IF kind = "pdf" THEN Input ELSE Pdf

\* Mutant: the source is deleted by the step that converts it.
ConvertAndDrop ==
  /\ step = "convert"
  /\ IF Source \notin r2
     THEN FailsEarly({"missing"})
     ELSE /\ r2' = (r2 \ {Source}) \union {Output}
          /\ AttemptFails \/ (result' = "ok" /\ Enter("cleanup"))
          /\ UNCHANGED <<known, aozora>>
  /\ UNCHANGED <<pos, others>>

Convert ==
  /\ step = "convert"
  /\ IF Source \notin r2
     THEN FailsEarly({"missing"})
     ELSE \/ FailsEarly({"failed"})
          \/ /\ r2' = r2 \union {Output}
             /\ AttemptFails \/ (result' = "ok" /\ Enter("cleanup"))
             /\ UNCHANGED <<known, aozora>>
  /\ UNCHANGED <<pos, others>>

\* The delete step of the finally block, key by key.
CleanupRank(o) ==
  CASE o = Input    -> 0
    [] o = Article  -> 1
    [] o = Pdf      -> IF kind = "document" THEN 2 ELSE 0
    [] o = Manifest -> 3
    [] OTHER        -> 2 + 2 * o[2] + (IF o \in Parts THEN 1 ELSE 0)

Delete(o) ==
  /\ step = "cleanup"
  /\ o \in todo
  /\ \A p \in todo : CleanupRank(o) <= CleanupRank(p)
  /\ todo' = todo \ {o}
  /\ \/ r2' = r2 \ {o} /\ kept' = kept \ {o}
     \/ Mishap /\ UNCHANGED r2 /\ kept' = kept \union {o}
  /\ UNCHANGED <<kind, expired, handler, request, step, tries, pos, known,
                 aozora, result>>

\* Mutant: a return in the finally block swallows the exception.
DeleteStepReturns ==
  /\ step = "cleanup"
  /\ \/ /\ todo = {}
        /\ step' = "complete"
        /\ UNCHANGED <<tries, todo, kept, result>>
     \/ /\ AttemptFails
        /\ kept' = IF tries = Retries[step] THEN kept \union todo ELSE kept
  /\ UNCHANGED <<kind, r2, expired, handler, request, pos, known, aozora>>

DeleteStepEnds ==
  /\ step = "cleanup"
  /\ \/ /\ todo = {}
        /\ step' = IF result = "ok" THEN "complete" ELSE "errored"
        /\ UNCHANGED <<tries, todo, kept, result>>
     \/ /\ AttemptFails
        /\ kept' = IF tries = Retries[step] THEN kept \union todo ELSE kept
  /\ UNCHANGED <<kind, r2, expired, handler, request, pos, known, aozora>>

\* The lifecycle rules of the bucket.
Expire(o) ==
  /\ o \in r2 /\ Mishap
  /\ r2' = r2 \ {o}
  /\ expired' = expired \union {o}
  /\ UNCHANGED <<kind, handler, workflow, request>>

-----------------------------------------------------------------------------
(* The client: handleJobStatus and handleJobDownload.                      *)

elsewhere == <<kind, r2, expired, handler, workflow>>

Ask(w) ==
  /\ reported = "accepted" /\ ask = "idle"
  /\ wants' = w
  /\ ask' = IF w = "download" THEN "get" ELSE "status"
  /\ reply' = "none"
  /\ UNCHANGED <<elsewhere, probed, found, polled>>

GetOutput ==
  /\ ask = "get"
  /\ IF Output \in r2
     THEN ask' = "idle" /\ reply' = "file"
     ELSE ask' = "status" /\ UNCHANGED reply
  /\ UNCHANGED <<elsewhere, wants, probed, found, polled>>

\* decideMissingDownload: what the status means to a download without a file.
MissingDownload(phase) ==
  CASE phase = "completed" -> "expired"
    [] phase = "failed"    -> "failed"
    [] OTHER               -> "conflict"

\* Mutant: a job whose output is stored is told as completed, whatever its
\* instance does.
AnswersByOutput(phase) ==
  /\ ask' = "idle"
  /\ IF wants = "status"
     THEN polled' = (IF Output \in r2 THEN "completed" ELSE phase) /\ UNCHANGED reply
     ELSE reply' = MissingDownload(phase) /\ UNCHANGED polled

Answers(phase) ==
  /\ ask' = "idle"
  /\ IF wants = "status"
     THEN polled' = phase /\ UNCHANGED reply
     ELSE reply' = MissingDownload(phase) /\ UNCHANGED polled

\* get() may fail: no such instance, or a transient error.
ReadStatus ==
  /\ ask = "status"
  /\ \/ /\ ask' = "idle"
        /\ reply' = IF wants = "download" THEN "unknown" ELSE reply
        /\ UNCHANGED polled
     \/ IF Running
        THEN ask' = "probe" /\ UNCHANGED <<reply, polled>>
        ELSE Answers(CASE step = "queued"   -> "queued"
                       [] step = "complete" -> "completed"
                       [] OTHER             -> "failed")
  /\ UNCHANGED <<elsewhere, wants, probed, found>>

\* mapWithPhaseProbe fires its heads at once; they are served in any order.
Probe(o) ==
  /\ ask = "probe"
  /\ o \in Probes \ probed
  /\ probed' = probed \union {o}
  /\ found' = found \union ({o} \intersect r2)
  /\ UNCHANGED <<elsewhere, ask, wants, reply, polled>>

Phase ==
  IF Input \in found /\ kind = "document" /\ Article \notin found
  THEN "preparing"
  ELSE IF Pdf \in found \/ (Input \in found /\ kind = "pdf")
       THEN "converting" ELSE "rendering"

Answer ==
  /\ ask = "probe" /\ probed = Probes
  /\ Answers(Phase)
  /\ probed' = {} /\ found' = {}
  /\ UNCHANGED <<elsewhere, wants>>

-----------------------------------------------------------------------------

Work ==
  \/ Begin \/ Extract \/ Prepare \/ Render \/ Split \/ Chunk \/ Merge \/ Convert
  \/ (\E o \in Objects : Delete(o)) \/ DeleteStepEnds

Client ==
  \/ \E w \in {"status", "download"} : Ask(w)
  \/ GetOutput \/ ReadStatus \/ (\E o \in Probes : Probe(o)) \/ Answer

Next == Save \/ Create \/ Undo \/ Work \/ Client \/ \E o \in Objects : Expire(o)

Spec == Init /\ [][Next]_vars

\* The engine goes on with an instance that is not over.
FairSpec == Spec /\ WF_vars(Work)
-----------------------------------------------------------------------------
(* Properties.                                                             *)

\* A step finds its input missing (workflow.ts: "only possible if it expired or
\* was deleted mid-job") only when the lifecycle took an object, or the POST
\* handler, told that create() failed, removed the upload of a job that runs.
\* No retry and no delete step starves a later step.
MissingMeansExpired == result = "missing" => expired # {} \/ reported = "refused"

\* A completed job has its XTC file until the lifecycle takes it.
CompletedHasOutput == step = "complete" => Output \in r2 \union expired

\* An upload outlives its job only if its deletion failed, however the job ended.
UploadsAreDeleted ==
  step \in Over /\ Input \in r2 => Input \in kept

\* Statuses that one client reads never go back, although each is put together
\* from reads made at different times; except while the delete step removes the
\* objects they are derived from (the "accepted, self-correcting edge case" of
\* mapWithPhaseProbe) or when the lifecycle does.
PhaseRank ==
  [p \in Phases \union {"none"} |->
     CASE p = "none"       -> 0
       [] p = "queued"     -> 1
       [] p = "preparing"  -> 2
       [] p = "rendering"  -> 3
       [] p = "converting" -> 4
       [] OTHER            -> 5]

PollsNeverGoBack ==
  [][ \/ PhaseRank[polled] <= PhaseRank[polled']
      \/ expired # {} \/ step \in {"cleanup"} \union Over ]_polled

\* A client that was told "completed" can download the file until the lifecycle
\* takes it: no 404, and no 409 that would make it wait.
CompletedCanBeDownloaded ==
  polled = "completed" /\ wants = "download" /\ ask = "idle" =>
    reply = "file" \/ Output \in expired

\* The job as JobsApi sees it.
JobState ==
  IF reported # "accepted" THEN "none"
  ELSE CASE step = "complete" -> "completed"
         [] step = "errored"  -> "failed"
         [] OTHER             -> "queued"

\* The answer is settled when the instance status is read: a job that is found
\* running is told as in flight, whatever happens before the heads are served.
LastSaid ==
  IF (ask = "probe" /\ wants = "status") \/ polled \in Phases \ {"completed", "failed"}
  THEN "queued" ELSE polled

Api == INSTANCE JobsApi WITH state <- JobState, said <- LastSaid

\* An accepted job ends, once and in one way, and a client is told nothing of it
\* that was not so at some moment between its request and the answer, although
\* the answer is put together from several reads (handleJobStatus).
ImplementsApi == Api!Spec /\ Api!JobsEnd
=============================================================================
