----------------------------- MODULE JobPolling ----------------------------
(***************************************************************************)
(* The tabs of the browser that follow conversion jobs:                    *)
(* src/frontend/src/lib/convert.svelte.ts (pollers, visibility, automatic  *)
(* save) and src/frontend/src/lib/jobs.svelte.ts (the history all tabs     *)
(* share in localStorage).                                                 *)
(*                                                                         *)
(* The function poll runs once per poller and suspends twice in a round:   *)
(* at fetch and at res.json().  A suspended run goes on when its answer    *)
(* comes, also after its poller was replaced or removed.  Everything       *)
(* between two suspensions is one step: a page has one thread.             *)
(*                                                                         *)
(* Data: the four phases of IN_FLIGHT are one, "queued".  Title, device,   *)
(* error text and the 50 and 10 entries kept are left out.                 *)
(***************************************************************************)
EXTENDS Integers, FiniteSets, JobStatus

CONSTANTS
  Tab,
  Job,
  MaxPollers,   \* bound: pollers one page makes for one job
  MaxFailures,  \* MAX_POLL_FAILURES
  MaxLoads      \* bound: how often a tab is opened

ASSUME PollAssumption ==
  /\ {MaxPollers, MaxFailures, MaxLoads} \subseteq Nat \ {0}
  /\ IsFiniteSet(Tab) /\ IsFiniteSet(Job)

Poller == 1 .. MaxPollers
Status == {"queued", "completed", "failed", "expired"}

VARIABLES
  server,   \* the State of each job
  history,  \* localStorage: a status or "absent"
  \* one page
  open, hidden, loads,
  poller,   \* the entry of pollers: 0 or the number of the poller
  made,     \* pollers made for the job in this page
  failures, missing,  \* p.failures and p.poll404s of the current poller
  at,       \* a run of poll: "idle", "sent", "answered", "body", "timer"
  got,      \* the answer a run holds
  job,      \* status of the job object the pollers of a page share
  shown,    \* the entry of current: a status or "absent"
  note,     \* jobs shown with the note poll_fail
  session,  \* sessionJobIds
  \* history of what happened
  saves,    \* automatic saves of each job
  adrift    \* jobs of a page whose entry has parted from its poller: the run of a replaced
            \* poller wrote it as in flight, or the browser refused to store what a run read

page == <<open, hidden, loads>>
loops == <<poller, made, failures, missing, at, got>>
view == <<job, shown, note>>
vars == <<server, history, open, hidden, loads, poller, made, failures, missing,
          at, got, job, shown, note, session, saves, adrift>>

Init ==
  /\ server = [j \in Job |-> "none"]
  /\ history = [j \in Job |-> "absent"]
  /\ open = [t \in Tab |-> FALSE]
  /\ hidden = [t \in Tab |-> FALSE]
  /\ loads = [t \in Tab |-> 0]
  /\ poller = [t \in Tab |-> [j \in Job |-> 0]]
  /\ made = [t \in Tab |-> [j \in Job |-> 0]]
  /\ failures = [t \in Tab |-> [j \in Job |-> 0]]
  /\ missing = [t \in Tab |-> [j \in Job |-> 0]]
  /\ at = [t \in Tab |-> [j \in Job |-> [n \in Poller |-> "idle"]]]
  /\ got = [t \in Tab |-> [j \in Job |-> [n \in Poller |-> "error"]]]
  /\ job = [t \in Tab |-> [j \in Job |-> "expired"]]
  /\ shown = [t \in Tab |-> [j \in Job |-> "absent"]]
  /\ note = [t \in Tab |-> {}]
  /\ session = [t \in Tab |-> {}]
  /\ saves = [j \in Job |-> 0]
  /\ adrift = [t \in Tab |-> {}]

\* pollers.get(jobId) is another poller than the one this run belongs to.
Stale(t, j, n) == poller[t][j] # n

-----------------------------------------------------------------------------
(* The server and the user *)

\* The job ends, its retention ends: what JobsApi promises, which ConvertJob keeps.
ServerMoves(j) ==
  /\ \E s \in Becomes(server[j]) : server' = [server EXCEPT ![j] = s]
  /\ UNCHANGED <<history, page, loops, view, session, saves, adrift>>

\* The pollers of the jobs in js are replaced and each begins to poll at once;
\* a timer of the poller before goes with it (beginPoll, then poll up to fetch).
BeginPolls(t, js) ==
  /\ \A j \in js : made[t][j] < MaxPollers
  /\ poller' = [poller EXCEPT ![t] = [j \in Job |-> IF j \in js THEN made[t][j] + 1 ELSE @[j]]]
  /\ made' = [made EXCEPT ![t] = [j \in Job |-> IF j \in js THEN @[j] + 1 ELSE @[j]]]
  /\ failures' = [failures EXCEPT ![t] = [j \in Job |-> IF j \in js THEN 0 ELSE @[j]]]
  /\ missing' = [missing EXCEPT ![t] = [j \in Job |-> IF j \in js THEN 0 ELSE @[j]]]
  /\ at' = [at EXCEPT ![t] = [j \in Job |-> [n \in Poller |->
              IF j \in js /\ n = made[t][j] + 1 THEN "sent"
              ELSE IF j \in js /\ n = poller[t][j] /\ @[j][n] = "timer" THEN "idle"
              ELSE @[j][n]]]]
  /\ UNCHANGED got

\* A submitted job is written to the history, marked as of this session, shown
\* and polled (registerCreatedJob).
Submit(t, j) ==
  /\ open[t] /\ server[j] = "none"
  /\ server' = [server EXCEPT ![j] = "queued"]
  /\ history' = [history EXCEPT ![j] = "queued"]
  /\ session' = [session EXCEPT ![t] = @ \union {j}]
  /\ job' = [job EXCEPT ![t][j] = "queued"]
  /\ shown' = [shown EXCEPT ![t][j] = "queued"]
  /\ BeginPolls(t, {j})
  /\ UNCHANGED <<page, note, saves, adrift>>

\* A page is loaded; it polls every job the history has in flight (refreshStale).
Load(t) ==
  /\ ~open[t] /\ loads[t] < MaxLoads
  /\ open' = [open EXCEPT ![t] = TRUE]
  /\ loads' = [loads EXCEPT ![t] = @ + 1]
  /\ \E h \in BOOLEAN : hidden' = [hidden EXCEPT ![t] = h]
  /\ LET js == {j \in Job : history[j] = "queued"} IN
     /\ BeginPolls(t, js)
     /\ job' = [job EXCEPT ![t] = [j \in Job |-> IF j \in js THEN "queued" ELSE @[j]]]
     /\ shown' = [shown EXCEPT ![t] = [j \in Job |-> IF j \in js THEN "queued" ELSE @[j]]]
  /\ UNCHANGED <<server, history, note, session, saves, adrift>>

\* A page is closed or left: everything but the history is gone.
Close(t) ==
  /\ open[t]
  /\ open' = [open EXCEPT ![t] = FALSE]
  /\ hidden' = [hidden EXCEPT ![t] = FALSE]
  /\ poller' = [poller EXCEPT ![t] = [j \in Job |-> 0]]
  /\ made' = [made EXCEPT ![t] = [j \in Job |-> 0]]
  /\ failures' = [failures EXCEPT ![t] = [j \in Job |-> 0]]
  /\ missing' = [missing EXCEPT ![t] = [j \in Job |-> 0]]
  /\ at' = [at EXCEPT ![t] = [j \in Job |-> [n \in Poller |-> "idle"]]]
  /\ got' = [got EXCEPT ![t] = [j \in Job |-> [n \in Poller |-> "error"]]]
  /\ job' = [job EXCEPT ![t] = [j \in Job |-> "expired"]]
  /\ shown' = [shown EXCEPT ![t] = [j \in Job |-> "absent"]]
  /\ note' = [note EXCEPT ![t] = {}]
  /\ session' = [session EXCEPT ![t] = {}]
  /\ adrift' = [adrift EXCEPT ![t] = {}]
  /\ UNCHANGED <<server, history, loads, saves>>

\* The page is hidden: the timers of the pollers are cleared.
Hide(t) ==
  /\ open[t] /\ ~hidden[t]
  /\ hidden' = [hidden EXCEPT ![t] = TRUE]
  /\ at' = [at EXCEPT ![t] = [j \in Job |-> [n \in Poller |->
              IF n = poller[t][j] /\ @[j][n] = "timer" THEN "idle" ELSE @[j][n]]]]
  /\ UNCHANGED <<server, history, open, loads, poller, made, failures, missing, got,
                 view, session, saves, adrift>>

\* Mutant: only the jobs submitted in this page.
FollowedHere(t) == {j \in session[t] : poller[t][j] # 0 /\ job[t][j] = "queued"}
Followed(t) == {j \in Job : poller[t][j] # 0 /\ job[t][j] = "queued"}

\* The page is visible again: every poller of a job in flight is replaced.
Show(t) ==
  /\ open[t] /\ hidden[t]
  /\ hidden' = [hidden EXCEPT ![t] = FALSE]
  /\ BeginPolls(t, Followed(t))
  /\ UNCHANGED <<server, history, open, loads, view, session, saves, adrift>>

\* The history is cleared in one tab.
Clear(t) ==
  /\ open[t]
  /\ history' = [j \in Job |-> "absent"]
  /\ UNCHANGED <<server, page, loops, view, session, saves, adrift>>

\* The download or the preview of a completed entry is answered 404
\* (markJobExpired; a 404 need not mean that the job is gone).
MarkExpired(t, j) ==
  /\ open[t] /\ "completed" \in {history[j], shown[t][j]}
  /\ history' = [history EXCEPT ![j] = IF @ = "absent" THEN @ ELSE "expired"]
  /\ shown' = [shown EXCEPT ![t][j] = IF @ = "absent" THEN @ ELSE "expired"]
  /\ UNCHANGED <<server, page, loops, job, note, session, saves, adrift>>

-----------------------------------------------------------------------------
(* The function poll *)

\* The server answers, or the connection fails.
Answers(t, j, n) ==
  /\ at[t][j][n] = "sent"
  /\ \E a \in Replies(server[j]) : got' = [got EXCEPT ![t][j][n] = a]
  /\ at' = [at EXCEPT ![t][j][n] = "answered"]
  /\ UNCHANGED <<server, history, page, poller, made, failures, missing, view,
                 session, saves, adrift>>

\* The end of a round: a hidden page pauses, a visible one polls again later.
GoesOn(t, j, n) ==
  /\ at' = [at EXCEPT ![t][j][n] = IF hidden[t] THEN "idle" ELSE "timer"]
  /\ got' = [got EXCEPT ![t][j][n] = "error"]

Ends(t, j, n) ==
  /\ at' = [at EXCEPT ![t][j][n] = "idle"]
  /\ got' = [got EXCEPT ![t][j][n] = "error"]

\* The run of a replaced poller gives up when its fetch ends or its timer fires.
GivesUp(t, j, n) ==
  /\ Stale(t, j, n) /\ at[t][j][n] \in {"answered", "timer"}
  /\ Ends(t, j, n)
  /\ UNCHANGED <<server, history, page, poller, made, failures, missing, view,
                 session, saves, adrift>>

Wakes(t, j, n) ==
  /\ ~Stale(t, j, n) /\ at[t][j][n] = "timer"
  /\ at' = [at EXCEPT ![t][j][n] = "sent"]
  /\ UNCHANGED <<server, history, page, poller, made, failures, missing, got, view,
                 session, saves, adrift>>

\* 404: after MaxFailures of them in a row the job counts as expired.
ArrivesMissing(t, j, n) ==
  /\ ~Stale(t, j, n) /\ at[t][j][n] = "answered" /\ got[t][j][n] = "missing"
  /\ missing' = [missing EXCEPT ![t][j] = @ + 1]
  /\ \/ /\ missing'[t][j] < MaxFailures
        /\ GoesOn(t, j, n)
        /\ UNCHANGED <<history, poller, view, adrift>>
     \/ /\ missing'[t][j] >= MaxFailures
        /\ job' = [job EXCEPT ![t][j] = "expired"]
        /\ shown' = [shown EXCEPT ![t][j] = "expired"]
        /\ note' = [note EXCEPT ![t] = @ \ {j}]
        /\ history' = [history EXCEPT ![j] = "expired"]
        /\ poller' = [poller EXCEPT ![t][j] = 0]
        /\ adrift' = [adrift EXCEPT ![t] = @ \ {j}]
        /\ Ends(t, j, n)
  /\ UNCHANGED <<server, page, made, failures, session, saves>>

\* The entry is shown as it is, with the note that polling failed.
ShowFailure(t, j, status) ==
  /\ shown' = [shown EXCEPT ![t][j] = status]
  /\ note' = [note EXCEPT ![t] = @ \union {j}]

\* Mutant: failures are not counted.
FailureUncounted(t, j) == failures' = failures
CountFailure(t, j) == failures' = [failures EXCEPT ![t][j] = @ + 1]

\* An error status or no answer at all: polling ends after MaxFailures in a row.
ArrivesError(t, j, n) ==
  /\ ~Stale(t, j, n) /\ at[t][j][n] = "answered" /\ got[t][j][n] = "error"
  /\ CountFailure(t, j)
  /\ \/ /\ failures'[t][j] < MaxFailures
        /\ GoesOn(t, j, n)
        /\ UNCHANGED <<poller, shown, note>>
     \/ /\ failures'[t][j] >= MaxFailures
        /\ ShowFailure(t, j, job[t][j])
        /\ poller' = [poller EXCEPT ![t][j] = 0]
        /\ Ends(t, j, n)
  /\ UNCHANGED <<server, history, page, made, missing, job, session, saves, adrift>>

\* A good answer: its body is read.
ArrivesGood(t, j, n) ==
  /\ ~Stale(t, j, n) /\ at[t][j][n] = "answered" /\ got[t][j][n] \in Status
  /\ at' = [at EXCEPT ![t][j][n] = "body"]
  /\ UNCHANGED <<server, history, page, poller, made, failures, missing, got, view,
                 session, saves, adrift>>

\* The body is not JSON or breaks off.  Whoever polls the job now is removed.
BodyGarbled(t, j, n) ==
  /\ at[t][j][n] = "body"
  /\ ShowFailure(t, j, job[t][j])
  /\ poller' = [poller EXCEPT ![t][j] = 0]
  /\ Ends(t, j, n)
  /\ UNCHANGED <<server, history, page, made, failures, missing, job, session, saves, adrift>>

\* Mutant: the mark of the session stays.
AutoSaveAlways(t, j, status) ==
  /\ session' = session
  /\ \/ saves' = saves
     \/ /\ status = "completed" /\ j \in session[t]
        /\ saves' = [saves EXCEPT ![j] = @ + 1]

\* A completed job of this session is saved to the library of a signed-in user
\* (maybeAutoSave).
AutoSave(t, j, status) ==
  /\ session' = [session EXCEPT ![t] = IF status = "completed" THEN @ \ {j} ELSE @]
  /\ \/ saves' = saves
     \/ /\ status = "completed" /\ j \in session[t]
        /\ saves' = [saves EXCEPT ![j] = @ + 1]

\* The body is there: the status goes to the job, the history and the entry
\* shown.  Nobody asks again whether the poller was replaced meanwhile.
BodyRead(t, j, n) ==
  /\ at[t][j][n] = "body"
  /\ LET status == got[t][j][n] IN
     /\ job' = [job EXCEPT ![t][j] = status]
     /\ shown' = [shown EXCEPT ![t][j] = status]
     /\ note' = [note EXCEPT ![t] = @ \ {j}]
     /\ history' = [history EXCEPT ![j] = status]
     /\ failures' = [failures EXCEPT ![t][j] = IF Stale(t, j, n) THEN @ ELSE 0]
     /\ missing' = [missing EXCEPT ![t][j] = IF Stale(t, j, n) THEN @ ELSE 0]
     /\ adrift' = [adrift EXCEPT ![t] =
                      IF Stale(t, j, n) /\ status = "queued" THEN @ \union {j} ELSE @ \ {j}]
     /\ AutoSave(t, j, status)
     /\ IF status = "queued"
        THEN GoesOn(t, j, n) /\ UNCHANGED poller
        ELSE Ends(t, j, n) /\ poller' = [poller EXCEPT ![t][j] = 0]
  /\ UNCHANGED <<server, page, made>>

\* localStorage refuses the entry of a body, or of one 404 too many: the error is
\* caught where those of fetch are, with the job already changed and the counts
\* of a good answer already reset.  (The count of 404 stays one short of its
\* limit, which is all that is asked of it.)
Unstored(t, j, n) ==
  LET read == at[t][j][n] = "body"
      count == IF read THEN 1 ELSE failures[t][j] + 1
      status == IF read THEN got[t][j][n] ELSE "expired"
  IN /\ \/ read
        \/ /\ ~Stale(t, j, n) /\ at[t][j][n] = "answered" /\ got[t][j][n] = "missing"
           /\ missing[t][j] + 1 >= MaxFailures
     /\ job' = [job EXCEPT ![t][j] = status]
     /\ adrift' = [adrift EXCEPT ![t] = @ \union {j}]
     /\ IF Stale(t, j, n)
        THEN Ends(t, j, n) /\ UNCHANGED <<poller, failures, missing, shown, note>>
        ELSE /\ failures' = [failures EXCEPT ![t][j] = count]
             /\ missing' = [missing EXCEPT ![t][j] = IF read THEN 0 ELSE @]
             /\ \/ count < MaxFailures /\ GoesOn(t, j, n) /\ UNCHANGED <<poller, shown, note>>
                \/ /\ count >= MaxFailures
                   /\ ShowFailure(t, j, status)
                   /\ poller' = [poller EXCEPT ![t][j] = 0]
                   /\ Ends(t, j, n)
     /\ UNCHANGED <<server, history, page, made, session, saves>>

Run(t, j, n) ==
  \/ Answers(t, j, n) \/ GivesUp(t, j, n) \/ Wakes(t, j, n)
  \/ ArrivesMissing(t, j, n) \/ ArrivesError(t, j, n) \/ ArrivesGood(t, j, n)
  \/ BodyGarbled(t, j, n) \/ BodyRead(t, j, n) \/ Unstored(t, j, n)

Next ==
  \/ \E j \in Job : ServerMoves(j)
  \/ \E t \in Tab : Load(t) \/ Close(t) \/ Hide(t) \/ Show(t) \/ Clear(t)
  \/ \E t \in Tab, j \in Job : Submit(t, j) \/ MarkExpired(t, j)
  \/ \E t \in Tab, j \in Job, n \in Poller : Run(t, j, n)

Spec == Init /\ [][Next]_vars

\* Requests are answered or fail, timers fire, and the server finishes its jobs
\* (JobsApi!JobsEnd).  Nobody need open, close, hide or show a page.
Fairness ==
  /\ \A t \in Tab, j \in Job, n \in Poller : WF_vars(Run(t, j, n))
  /\ \A j \in Job : WF_vars(server[j] = "queued" /\ ServerMoves(j))
FairSpec == Spec /\ Fairness

-----------------------------------------------------------------------------
(* Properties *)

TypeOK ==
  /\ server \in [Job -> State]
  /\ history \in [Job -> Status \union {"absent"}]
  /\ open \in [Tab -> BOOLEAN] /\ hidden \in [Tab -> BOOLEAN]
  /\ loads \in [Tab -> 0 .. MaxLoads]
  /\ poller \in [Tab -> [Job -> 0 .. MaxPollers]]
  /\ made \in [Tab -> [Job -> 0 .. MaxPollers]]
  /\ failures \in [Tab -> [Job -> 0 .. MaxFailures]]
  /\ missing \in [Tab -> [Job -> 0 .. MaxFailures]]
  /\ at \in [Tab -> [Job -> [Poller -> {"idle", "sent", "answered", "body", "timer"}]]]
  /\ got \in [Tab -> [Job -> [Poller -> Answer]]]
  /\ job \in [Tab -> [Job -> Status]]
  /\ shown \in [Tab -> [Job -> Status \union {"absent"}]]
  /\ note \in [Tab -> SUBSET Job] /\ session \in [Tab -> SUBSET Job]
  /\ saves \in [Job -> Nat] /\ adrift \in [Tab -> SUBSET Job]

\* A poller whose run goes on.
Polls(t, j) == poller[t][j] # 0 /\ at[t][j][poller[t][j]] # "idle"

\* A visible page polls every job it shows as in flight, unless it says that
\* polling failed, the run of a replaced poller wrote the entry, or the browser
\* refused to store what was read for it: hiding and showing the page in whatever phase of a round never loses a poller
\* (convert.svelte.ts:460 and the listener of visibilitychange).
Watched ==
  \A t \in Tab, j \in Job :
    open[t] /\ ~hidden[t] /\ shown[t][j] = "queued"
      => Polls(t, j) \/ j \in note[t] \/ j \in adrift[t]

\* A job is saved automatically once, in the page that submitted it and after
\* it was complete, however many runs, pages and reloads see it complete
\* (maybeAutoSave).
SavedOnce ==
  \A j \in Job : saves[j] <= 1 /\ (saves[j] = 1 => server[j] \in {"completed", "gone"})

\* A page that stays open and visible tells the user in the end how the job
\* ended or that it could not find out, if its browser stores what it reads.
OutcomeShown ==
  \A t \in Tab, j \in Job :
    []<>(open[t] /\ ~hidden[t] /\ shown[t][j] = "queued"
           => j \in note[t] \/ j \in adrift[t])
=============================================================================
