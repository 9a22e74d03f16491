----------------------------- MODULE Converter -----------------------------
(***************************************************************************)
(* One converter container and the workflow steps that call it:            *)
(* src/converter/app.py and src/converter/pdf_upload.py (slots, budgets,   *)
(* drain), src/src/container.ts (what the Worker sends) and the step       *)
(* convert-xtc of src/src/workflow.ts (timeout, retries).                  *)
(*                                                                         *)
(* A request is one attempt of one job's step.  When its fetch ends, by    *)
(* timeout or because the connection breaks, the container does not        *)
(* notice: the handler thread goes on.  Tick is one unit of time; no tick  *)
(* passes an expired timer.                                                *)
(*                                                                         *)
(* Data: which pages, devices and chapters are converted is left out;      *)
(* xtctool and the pdf_worker children answer, fail or run on until their  *)
(* budget ends.  A job is a PDF the system rendered (POST /convert) or an  *)
(* uploaded one (POST /convert/uploaded-pdf).                              *)
(***************************************************************************)
EXTENDS Integers, FiniteSets

CONSTANTS
  Job,
  Upload,       \* jobs that send an uploaded PDF
  MaxAttempts,  \* retries.limit of the step, plus one
  FetchBudget,  \* CONVERTER_FETCH_TIMEOUT_MS
  Margin,       \* CONVERTER_TIMEOUT_MARGIN_MS
  Ceiling,      \* XTC_TIMEOUT_SECONDS
  UploadCeiling,\* PDF_UPLOAD_HARD_MAX_TIMEOUT_SECONDS
  DrainSlack,   \* what the drain waits on top of Ceiling
  Slots,        \* MAX_CONCURRENT_CONVERSIONS
  UploadSlots,  \* MAX_CONCURRENT_UPLOADED_PDF_CONVERSIONS
  MaxStops      \* bound on the stops and crashes of the container

ASSUME JobAssumption == Upload \subseteq Job /\ IsFiniteSet(Job)
ASSUME BudgetAssumption ==
  /\ {MaxAttempts, FetchBudget, Ceiling, UploadCeiling, DrainSlack, Slots, UploadSlots}
       \subseteq Nat \ {0}
  /\ Margin \in 0 .. FetchBudget - 1
  /\ MaxStops \in Nat
\* 600 s against 610 s as configured; UploadCeiling, 900 s, would not do.
ASSUME WindowAssumption == FetchBudget - Margin < Ceiling + DrainSlack

Larger(a, b) == IF a > b THEN a ELSE b
Smaller(a, b) == IF a < b THEN a ELSE b

Request == Job \X (1 .. MaxAttempts)
IsUpload(r) == r[1] \in Upload

\* X-Convert-Timeout-Seconds as each endpoint of the container honours it.
Budget(r) == Smaller(Larger(1, FetchBudget - Margin),
                     IF IsUpload(r) THEN UploadCeiling ELSE Ceiling)

LongestBudget == Larger(Ceiling, UploadCeiling)

\* Mutant: the drain does not wait for the budget of a conversion.
SlackOnly == DrainSlack
\* How long the process waits for its requests at SIGTERM.
DrainWindow == Ceiling + DrainSlack

VARIABLES
  \* the workflow step of each job
  step,     \* "idle", "fetching", "failing" (to be retried), "done", "failed"
  attempt,
  left,     \* time left of AbortSignal.timeout
  \* handler threads of the container
  thread,
  outcome,  \* the response nobody has read yet: "ok", "rejected", "error", "timeout", "busy"
  budget,   \* time left of the conversion
  \* the container process
  free, uploadFree,  \* the two semaphores
  process,           \* "up", "draining" (in wait_idle), "closing", "down"
  drain,             \* time left of wait_idle
  stops,
  \* history
  gaveUp,   \* requests whose response said that the budget ran out
  late,     \* open requests whose budget began after the Worker's margin
  underway  \* requests that were converting at SIGTERM and still are

worker == <<step, attempt, left>>
handlers == <<thread, outcome, budget>>
semaphores == <<free, uploadFree>>
container == <<semaphores, process, drain, stops>>
history == <<gaveUp, late, underway>>
vars == <<worker, handlers, container, history>>

Labels == {"none", "accepted", "reading", "queued", "receiving", "opening",
           "detecting", "converting", "ended"}
\* A thread that owns a slot of its kind.
Holding(r) == thread[r] \in {"receiving", "opening", "detecting", "converting"}
Live(r) == thread[r] \notin {"none", "ended"}
\* Inside "with ACTIVE_REQUESTS".
Counted(r) == Live(r) /\ thread[r] # "accepted"
\* The fetch a thread answers to is still open.
Open(r) == step[r[1]] = "fetching" /\ attempt[r[1]] = r[2]

TypeOK ==
  /\ step \in [Job -> {"idle", "fetching", "failing", "done", "failed"}]
  /\ attempt \in [Job -> 0 .. MaxAttempts]
  /\ left \in [Job -> 0 .. FetchBudget]
  /\ thread \in [Request -> Labels]
  /\ outcome \in [Request -> {"none", "ok", "rejected", "error", "timeout", "busy"}]
  /\ budget \in [Request -> 0 .. LongestBudget]
  /\ free \in 0 .. Slots
  /\ uploadFree \in 0 .. UploadSlots
  /\ process \in {"up", "draining", "closing", "down"}
  /\ drain \in 0 .. DrainWindow
  /\ stops \in 0 .. MaxStops
  /\ gaveUp \subseteq Request
  /\ late \subseteq Request
  /\ underway \subseteq Request

Init ==
  /\ step = [j \in Job |-> "idle"]
  /\ attempt = [j \in Job |-> 0]
  /\ left = [j \in Job |-> 0]
  /\ thread = [r \in Request |-> "none"]
  /\ outcome = [r \in Request |-> "none"]
  /\ budget = [r \in Request |-> 0]
  /\ free = Slots
  /\ uploadFree = UploadSlots
  /\ process = "up"
  /\ drain = 0
  /\ stops = 0
  /\ gaveUp = {}
  /\ late = {}
  /\ underway = {}

-----------------------------------------------------------------------------
(* The step convert-xtc.                                                   *)

\* An attempt of the step: container.fetch with its abort signal.  A process that
\* shuts down accepts no connection, but still reads those that were kept alive.
Fetch(j) ==
  /\ step[j] \in {"idle", "failing"}
  /\ attempt[j] < MaxAttempts
  /\ process # "down"
  /\ step' = [step EXCEPT ![j] = "fetching"]
  /\ attempt' = [attempt EXCEPT ![j] = @ + 1]
  /\ left' = [left EXCEPT ![j] = FetchBudget]
  /\ thread' = [thread EXCEPT ![<<j, attempt'[j]>>] = "accepted"]
  /\ UNCHANGED <<outcome, budget, container, history>>

\* An attempt that reaches no container.
FetchRefused(j) ==
  /\ step[j] \in {"idle", "failing"}
  /\ attempt[j] < MaxAttempts
  /\ process # "up"
  /\ attempt' = [attempt EXCEPT ![j] = @ + 1]
  /\ step' = [step EXCEPT ![j] = IF attempt'[j] = MaxAttempts THEN "failed" ELSE "failing"]
  /\ UNCHANGED <<left, handlers, container, history>>

\* The attempt ends in an error: retried while attempts are left, unless the
\* error is a NonRetryableError.
AttemptFails(j, final) ==
  /\ step' = [step EXCEPT ![j] =
                IF final \/ attempt[j] = MaxAttempts THEN "failed" ELSE "failing"]
  /\ left' = [left EXCEPT ![j] = 0]
  /\ UNCHANGED attempt

\* The attempt ends; its response is not read any more.
ResponseGone(j) ==
  /\ outcome' = [outcome EXCEPT ![<<j, attempt[j]>>] = "none"]
  /\ late' = late \ {<<j, attempt[j]>>}

\* AbortSignal.timeout fires: a TimeoutError is final.
FetchTimesOut(j) ==
  /\ step[j] = "fetching"
  /\ left[j] = 0
  /\ AttemptFails(j, TRUE)
  /\ ResponseGone(j)
  /\ UNCHANGED <<thread, budget, container, gaveUp, underway>>

\* The connection breaks, or the step is interrupted.
FetchBreaks(j) ==
  /\ step[j] = "fetching"
  /\ AttemptFails(j, FALSE)
  /\ ResponseGone(j)
  /\ UNCHANGED <<thread, budget, container, gaveUp, underway>>

\* Responses no retry can improve.  To a rendered PDF: 413.
RenderedFinal == {"rejected"}
\* To an upload: 400, 413, 415, 422, and a 500 with the code convert_timeout.
UploadFinal == {"rejected", "timeout"}

\* The response arrives; storing the output may fail and is retried as well.
Respond(j) ==
  LET r == <<j, attempt[j]>>
  IN /\ step[j] = "fetching"
     /\ thread[r] = "ended" /\ outcome[r] # "none"
     /\ \/ /\ outcome[r] = "ok"
           /\ step' = [step EXCEPT ![j] = "done"]
           /\ left' = [left EXCEPT ![j] = 0]
           /\ UNCHANGED attempt
        \/ outcome[r] = "ok" /\ AttemptFails(j, FALSE)
        \/ /\ outcome[r] # "ok"
           /\ AttemptFails(j, outcome[r] \in IF j \in Upload THEN UploadFinal ELSE RenderedFinal)
     /\ ResponseGone(j)
     /\ gaveUp' = IF outcome[r] = "timeout" THEN gaveUp \union {r} ELSE gaveUp
     /\ UNCHANGED <<thread, budget, container, underway>>

-----------------------------------------------------------------------------
(* A handler thread.                                                       *)

Become(r, label) == thread' = [thread EXCEPT ![r] = label]

\* The thread ends with a response that is sent if anyone still listens.
End(r, result) ==
  /\ Become(r, "ended")
  /\ outcome' = [outcome EXCEPT ![r] = IF Open(r) THEN result ELSE "none"]
  /\ budget' = [budget EXCEPT ![r] = 0]
  /\ late' = late \ {r}
  /\ underway' = underway \ {r}

\* Mutant: the slot of an upload is released where the response is sent.
ReleaseTrusted(r) ==
  IF IsUpload(r) THEN UNCHANGED semaphores ELSE free' = free + 1 /\ UNCHANGED uploadFree
\* "with CONVERSION_SLOTS", and the finally of _handle_uploaded_pdf.
Release(r) ==
  IF IsUpload(r) THEN uploadFree' = uploadFree + 1 /\ UNCHANGED free
  ELSE free' = free + 1 /\ UNCHANGED uploadFree

\* do_POST enters the tracker; a request with bad headers ends at once, of a
\* rendered PDF with 413 or with a 400 that is retried.
Enter(r) ==
  /\ thread[r] = "accepted"
  /\ \/ Become(r, "reading") /\ UNCHANGED <<outcome, budget, late, underway>>
     \/ End(r, "rejected")
     \/ ~IsUpload(r) /\ End(r, "error")
  /\ UNCHANGED <<worker, container, gaveUp>>

\* /convert reads the whole body before it asks for a slot; a body that is cut
\* short (400) or stalls for Handler.timeout (500) is retried.
ReadBody(r) ==
  /\ ~IsUpload(r)
  /\ thread[r] = "reading"
  /\ \/ Become(r, "queued") /\ UNCHANGED <<outcome, budget, late, underway>>
     \/ End(r, "error")
  /\ UNCHANGED <<worker, container, gaveUp>>

\* The conversion gets its budget.
StartBudget(r) ==
  /\ budget' = [budget EXCEPT ![r] = Budget(r)]
  /\ late' = IF Open(r) /\ FetchBudget - left[r[1]] > Margin THEN late \union {r} ELSE late

\* "with CONVERSION_SLOTS": the queued thread gets a slot.
GetSlot(r) ==
  /\ thread[r] = "queued"
  /\ free > 0
  /\ free' = free - 1
  /\ Become(r, "opening")
  /\ UNCHANGED <<worker, outcome, budget, uploadFree, process, drain, stops, history>>

\* read_pdf_metadata returns; the budget begins.
Opened(r) ==
  /\ thread[r] = "opening"
  /\ Become(r, "detecting")
  /\ StartBudget(r)
  /\ UNCHANGED <<worker, outcome, container, gaveUp, underway>>

\* Mutant: convert_pdf gets the whole budget.
BudgetRestarted(r) == Budget(r)
\* The time chapter detection took is taken off convert_pdf's budget.
BudgetLeft(r) == budget[r]

\* resolve_chapters returns; nothing can cancel it.
Detected(r) ==
  /\ thread[r] = "detecting"
  /\ Become(r, "converting")
  /\ budget' = [budget EXCEPT ![r] = BudgetLeft(r)]
  /\ UNCHANGED <<worker, outcome, container, history>>

\* An upload asks for its slot before it reads the body, and does not wait.
TryUploadSlot(r) ==
  /\ IsUpload(r)
  /\ thread[r] = "reading"
  /\ IF uploadFree > 0
     THEN Become(r, "receiving") /\ uploadFree' = uploadFree - 1 /\ UNCHANGED <<outcome, budget, late, underway>>
     ELSE End(r, "busy") /\ UNCHANGED uploadFree
  /\ UNCHANGED <<worker, free, process, drain, stops, gaveUp>>

\* The body is on disk; a short one (400) or one that is no PDF (415) is refused,
\* one that stalls for Handler.timeout is answered 500.
Received(r) ==
  /\ thread[r] = "receiving"
  /\ \/ /\ Become(r, "converting")
        /\ StartBudget(r)
        /\ UNCHANGED <<outcome, semaphores, underway>>
     \/ (End(r, "rejected") \/ End(r, "error")) /\ Release(r)
  /\ UNCHANGED <<worker, process, drain, stops, gaveUp>>

\* The conversion ends by itself within its budget.
Finish(r) ==
  /\ thread[r] = "converting"
  /\ budget[r] > 0
  /\ \E result \in {"ok", "error"} \union (IF IsUpload(r) THEN {"rejected"} ELSE {}) :
       End(r, result)
  /\ Release(r)
  /\ UNCHANGED <<worker, process, drain, stops, gaveUp>>

\* Mutant: subprocess.run without a timeout.
NeverExpires(r) == FALSE
Expired(r) == budget[r] = 0

\* The budget is used up: the child is killed.
TimeOut(r) ==
  /\ thread[r] = "converting"
  /\ Expired(r)
  /\ End(r, "timeout")
  /\ Release(r)
  /\ UNCHANGED <<worker, process, drain, stops, gaveUp>>

-----------------------------------------------------------------------------
(* The process, and time.                                                  *)

\* The process is gone; no thread survives, no response is sent.
Exit ==
  /\ process' = "down"
  /\ drain' = 0
  /\ thread' = [r \in Request |-> IF Live(r) THEN "ended" ELSE thread[r]]
  /\ budget' = [r \in Request |-> 0]
  /\ late' = {}
  /\ underway' = {}
  /\ UNCHANGED <<outcome, semaphores>>

Crash ==
  /\ process # "down"
  /\ stops < MaxStops
  /\ stops' = stops + 1
  /\ Exit
  /\ UNCHANGED <<worker, gaveUp>>

\* SIGTERM: the server stops accepting and waits for its requests.
Sigterm ==
  /\ process = "up"
  /\ stops < MaxStops
  /\ stops' = stops + 1
  /\ process' = "draining"
  /\ drain' = DrainWindow
  /\ underway' = {r \in Request : thread[r] = "converting"}
  /\ UNCHANGED <<worker, handlers, semaphores, gaveUp, late>>

\* wait_idle returns, by itself or after its timeout.
Drained ==
  /\ process = "draining"
  /\ drain = 0 \/ \A r \in Request : ~Counted(r)
  /\ process' = "closing"
  /\ drain' = 0
  /\ UNCHANGED <<worker, handlers, semaphores, stops, history>>

\* server_close, and the end of main: the handler threads are daemons.
MainReturns ==
  /\ process = "closing"
  /\ Exit
  /\ UNCHANGED <<worker, stops, gaveUp>>

\* A new container of the pool.
Restart ==
  /\ process = "down"
  /\ process' = "up"
  /\ free' = Slots
  /\ uploadFree' = UploadSlots
  /\ UNCHANGED <<worker, handlers, drain, stops, history>>

Less(n) == Larger(n - 1, 0)

Tick ==
  /\ \A j \in Job : step[j] = "fetching" => left[j] > 0
  /\ \A r \in Request : thread[r] = "converting" => ~Expired(r)
  /\ process = "draining" => drain > 0
  /\ process # "closing"
  /\ \/ \E j \in Job : step[j] = "fetching"
     \/ \E r \in Request : Live(r)
     \/ process = "draining"
  /\ left' = [j \in Job |-> Less(left[j])]
  /\ budget' = [r \in Request |-> Less(budget[r])]
  /\ drain' = Less(drain)
  /\ UNCHANGED <<step, attempt, thread, outcome, semaphores, process, stops, history>>

\* What a thread does without waiting for a slot.
Thread(r) ==
  \/ Enter(r) \/ ReadBody(r) \/ Opened(r) \/ Detected(r)
  \/ TryUploadSlot(r) \/ Received(r) \/ TimeOut(r)

Threads == \E r \in Request : Thread(r) \/ GetSlot(r)

\* Time passes and timers fire.
Timers == Tick \/ Drained \/ MainReturns \/ \E j \in Job : FetchTimesOut(j)

Next ==
  \/ \E j \in Job : Fetch(j) \/ FetchRefused(j) \/ FetchBreaks(j) \/ Respond(j)
  \/ \E r \in Request : Finish(r)
  \/ Threads
  \/ Timers
  \/ Crash \/ Sigterm \/ Restart

Spec == Init /\ [][Next]_vars

\* Threads run, time passes, timers fire.  A conversion need not end by itself,
\* a job need not be tried again, and a free slot may go to any waiter.
Fairness == WF_vars(Threads) /\ WF_vars(Timers)
FairSpec == Spec /\ Fairness

-----------------------------------------------------------------------------
(* Properties.                                                             *)

\* Both semaphores agree with the threads that hold a slot, whichever way a
\* conversion ended (app.py's "with CONVERSION_SLOTS", pdf_upload.py's finally).
NoSlotLeak ==
  process # "down" =>
    /\ free = Slots - Cardinality({r \in Request : Holding(r) /\ ~IsUpload(r)})
    /\ uploadFree = UploadSlots - Cardinality({r \in Request : Holding(r) /\ IsUpload(r)})

\* A conversion whose budget outlasts its fetch spent more than the Worker's
\* margin before the budget began (src/src/container.ts gives the container the
\* smaller one, so that it frees its slot first).
OverrunHasCause ==
  \A r \in Request :
    Open(r) /\ thread[r] = "converting" /\ budget[r] > left[r[1]] => r \in late

\* When main returns, no conversion that was under way at SIGTERM is still
\* running: the drain outlasts the longest budget one of them can have had left
\* (src/converter/app.py waits 10 s longer than CONVERT_TIMEOUT_SECONDS).
DrainSparesConversions ==
  process = "closing" => underway = {}

\* Again and again no thread is left, so every slot is free: also of conversions
\* that would never end and of requests whose fetch is long gone.
SlotsComeBack == []<>(\A r \in Request : ~Live(r))

\* The claim of src/src/workflow.ts:749-751: a document whose conversion uses up
\* its budget is not converted again.
TimeoutIsFinal ==
  \A r \in gaveUp : attempt[r[1]] = r[2]
=============================================================================
