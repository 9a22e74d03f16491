-------------------------- MODULE JobPollingProofs --------------------------
(***************************************************************************)
(* Theorems about JobPolling, for any number of tabs and jobs.             *)
(*                                                                         *)
(* What is inductive: a poller in use has failures left (Patience), so the *)
(* counters stay in their types; a job is of this session in one page only *)
(* and unsaved there (Sessions); and an entry shown as in flight belongs   *)
(* to a poller whose job is in flight and whose run goes on unless the     *)
(* page is hidden (Followers): that is what Show, which replaces exactly   *)
(* the pollers of jobs in flight, relies on.                               *)
(***************************************************************************)
EXTENDS JobPolling, TLAPS

-----------------------------------------------------------------------------
(* The inductive invariant.                                                *)

\* A poller in use has failures left.
Patience ==
  \A t \in Tab, j \in Job :
    poller[t][j] # 0 => failures[t][j] < MaxFailures /\ missing[t][j] < MaxFailures

\* A closed page shows nothing and polls nothing.
Closed ==
  \A t \in Tab, j \in Job :
    ~ open[t] => shown[t][j] = "absent" /\ \A n \in Poller : at[t][j][n] = "idle"

\* A job waits for its automatic save in one page only.
Sessions ==
  /\ \A t \in Tab, j \in Job :
       j \in session[t] => server[j] # "none" /\ saves[j] = 0
  /\ \A t, u \in Tab, j \in Job : j \in session[t] /\ j \in session[u] => t = u

\* "completed" is only answered of a job that is.
Truthful ==
  \A t \in Tab, j \in Job, n \in Poller :
    got[t][j][n] = "completed" => server[j] \in {"completed", "gone"}

\* A body is read of a good answer only.
Grounded ==
  \A t \in Tab, j \in Job, n \in Poller :
    at[t][j][n] = "body" => got[t][j][n] \in Status

\* Who follows an entry that is shown as in flight.
Followers ==
  \A t \in Tab, j \in Job :
    open[t] /\ shown[t][j] = "queued" /\ j \notin note[t] /\ j \notin adrift[t] =>
      /\ poller[t][j] # 0 /\ job[t][j] = "queued"
      /\ hidden[t] \/ at[t][j][poller[t][j]] # "idle"

Inv == TypeOK /\ Patience /\ Closed /\ Sessions /\ SavedOnce /\ Truthful /\ Grounded
       /\ Followers

-----------------------------------------------------------------------------
LEMMA Bounds ==
  /\ MaxPollers \in Nat /\ MaxFailures \in Nat /\ MaxLoads \in Nat
  /\ 0 \in 0 .. MaxPollers /\ 0 \in 0 .. MaxFailures /\ 0 \in 0 .. MaxLoads
  /\ 0 < MaxFailures
BY PollAssumption

LEMMA PollerInUse ==
  ASSUME TypeOK, NEW u \in Tab, NEW i \in Job, poller[u][i] # 0
  PROVE  poller[u][i] \in Poller
<1>1. poller[u][i] \in 0 .. MaxPollers BY DEF TypeOK
<1> QED BY <1>1, Bounds DEF Poller

\* A job that a client may have heard of stays known or is gone.
LEMMA ServerStep ==
  ASSUME TypeOK, NEW j \in Job, ServerMoves(j)
  PROVE  /\ server' \in [Job -> State]
         /\ server[j] # "none" /\ server'[j] # "none"
         /\ \A i \in Job : i # j => server'[i] = server[i]
         /\ \A i \in Job : server[i] \in {"completed", "gone"}
                             => server'[i] \in {"completed", "gone"}
<1>1. PICK s \in Becomes(server[j]) : server' = [server EXCEPT ![j] = s]
  BY DEF ServerMoves
<1>2. \/ server[j] = "queued" /\ s \in {"completed", "failed"}
      \/ server[j] \in {"completed", "failed"} /\ s = "gone"
  BY <1>1 DEF Becomes, Terminal, TypeOK, State
<1>3. server \in [Job -> State] BY DEF TypeOK
<1>4. s \in State BY <1>2 DEF State
<1> QED BY <1>1, <1>2, <1>3, <1>4

\* An answer fails, does not know the job, or tells its state.
LEMMA RepliesAre ==
  ASSUME NEW s \in State
  PROVE  Replies(s) \subseteq Answer /\ Replies(s) \subseteq {"error", "missing", s}
BY DEF Replies, Answer

LEMMA InvInit == Init => Inv
<1> SUFFICES ASSUME Init PROVE Inv
  OBVIOUS
<1>2. TypeOK
  BY Bounds DEF Init, TypeOK, Status, Answer, State
<1>3. Patience /\ Closed /\ Sessions /\ SavedOnce /\ Truthful /\ Grounded /\ Followers
  BY DEF Init, Patience, Closed, Sessions, SavedOnce, Truthful, Grounded, Followers
<1> QED BY <1>2, <1>3 DEF Inv

-----------------------------------------------------------------------------
(* The helpers that start, end and continue a run of poll.                 *)

\* What BeginPolls does, job by job.
Begun(t, js) ==
  /\ got' = got
  /\ \A j \in js :
       /\ poller'[t][j] \in Poller /\ at'[t][j][poller'[t][j]] = "sent"
       /\ failures'[t][j] = 0 /\ missing'[t][j] = 0
  /\ \A u \in Tab, j \in Job : ~ (u = t /\ j \in js) =>
       /\ poller'[u][j] = poller[u][j]
       /\ failures'[u][j] = failures[u][j] /\ missing'[u][j] = missing[u][j]
       /\ \A n \in Poller : at'[u][j][n] = at[u][j][n]

LEMMA BeginEffect ==
  ASSUME TypeOK, NEW t \in Tab, NEW js \in SUBSET Job, BeginPolls(t, js)
  PROVE  /\ poller' \in [Tab -> [Job -> 0 .. MaxPollers]]
         /\ made' \in [Tab -> [Job -> 0 .. MaxPollers]]
         /\ failures' \in [Tab -> [Job -> 0 .. MaxFailures]]
         /\ missing' \in [Tab -> [Job -> 0 .. MaxFailures]]
         /\ at' \in [Tab -> [Job -> [Poller -> {"idle", "sent", "answered", "body", "timer"}]]]
         /\ Begun(t, js)
<1> USE PollAssumption DEF TypeOK, BeginPolls, Poller
<1>1. \A j \in js : made[t][j] + 1 \in 1 .. MaxPollers
  OBVIOUS
<1>2. poller' \in [Tab -> [Job -> 0 .. MaxPollers]]
  BY <1>1
<1>3. made' \in [Tab -> [Job -> 0 .. MaxPollers]]
  BY <1>1
<1>4. /\ failures' \in [Tab -> [Job -> 0 .. MaxFailures]]
      /\ missing' \in [Tab -> [Job -> 0 .. MaxFailures]]
  OBVIOUS
<1>5. at' \in [Tab -> [Job -> [Poller -> {"idle", "sent", "answered", "body", "timer"}]]]
  OBVIOUS
<1>6. ASSUME NEW j \in js
      PROVE  /\ poller'[t][j] \in Poller /\ at'[t][j][poller'[t][j]] = "sent"
             /\ failures'[t][j] = 0 /\ missing'[t][j] = 0
  <2>1. poller'[t][j] = made[t][j] + 1 /\ poller'[t][j] \in Poller
    BY <1>1, <1>6
  <2>2. at'[t][j][made[t][j] + 1] = "sent"
    BY <1>1, <1>6
  <2>3. failures'[t][j] = 0 /\ missing'[t][j] = 0
    BY <1>6
  <2> QED BY <1>6, <2>1, <2>2, <2>3
<1>7. ASSUME NEW u \in Tab, NEW j \in Job, ~ (u = t /\ j \in js)
      PROVE  /\ poller'[u][j] = poller[u][j]
             /\ failures'[u][j] = failures[u][j]
             /\ missing'[u][j] = missing[u][j]
             /\ \A n \in Poller : at'[u][j][n] = at[u][j][n]
  <2>1. CASE u # t BY <2>1
  <2>2. CASE u = t /\ j \notin js BY <2>2
  <2> QED BY <1>7, <2>1, <2>2
<1>8. got' = got OBVIOUS
<1> QED BY <1>2, <1>3, <1>4, <1>5, <1>6, <1>7, <1>8 DEF Begun

\* What Ends and GoesOn do, run by run.
Ended(t, j, n) ==
  \A u \in Tab, i \in Job, m \in Poller :
    IF u = t /\ i = j /\ m = n
    THEN /\ got'[u][i][m] = "error" /\ at'[u][i][m] \in {"idle", "timer"}
         /\ GoesOn(t, j, n) /\ ~ hidden[t] => at'[u][i][m] = "timer"
    ELSE at'[u][i][m] = at[u][i][m] /\ got'[u][i][m] = got[u][i][m]

LEMMA EndEffect ==
  ASSUME TypeOK, NEW t \in Tab, NEW j \in Job, NEW n \in Poller,
         Ends(t, j, n) \/ GoesOn(t, j, n)
  PROVE  /\ at' \in [Tab -> [Job -> [Poller -> {"idle", "sent", "answered", "body", "timer"}]]]
         /\ got' \in [Tab -> [Job -> [Poller -> Answer]]]
         /\ Ended(t, j, n)
<1>1. "error" \in Answer BY DEF Answer
<1>2. \E l \in {"idle", "timer"} :
        /\ at' = [at EXCEPT ![t][j][n] = l]
        /\ GoesOn(t, j, n) /\ ~ hidden[t] => l = "timer"
  BY DEF Ends, GoesOn, TypeOK
<1>3. got' = [got EXCEPT ![t][j][n] = "error"] BY DEF Ends, GoesOn
<1> HIDE DEF Answer
<1> QED BY <1>1, <1>2, <1>3 DEF TypeOK, Ended

\* Types; a counter is raised only while a poller has failures left.
LEMMA StepTypes ==
  ASSUME TypeOK, Patience, Grounded, [Next]_vars
  PROVE  TypeOK'
<1> USE DEF TypeOK, Patience, page, loops, view
<1>1. ASSUME NEW j \in Job, ServerMoves(j) PROVE TypeOK'
  BY <1>1, ServerStep DEF ServerMoves
<1>2. ASSUME NEW t \in Tab, Load(t) PROVE TypeOK'
  <2>1. /\ poller' \in [Tab -> [Job -> 0 .. MaxPollers]]
        /\ made' \in [Tab -> [Job -> 0 .. MaxPollers]]
        /\ failures' \in [Tab -> [Job -> 0 .. MaxFailures]]
        /\ missing' \in [Tab -> [Job -> 0 .. MaxFailures]]
        /\ at' \in [Tab -> [Job -> [Poller -> {"idle", "sent", "answered", "body", "timer"}]]]
    BY <1>2, BeginEffect DEF Load
  <2>2. got' \in [Tab -> [Job -> [Poller -> Answer]]]
    BY <1>2, BeginEffect DEF Load, Begun
  <2>3. /\ open' \in [Tab -> BOOLEAN]
        /\ hidden' \in [Tab -> BOOLEAN]
    BY <1>2 DEF Load
  <2>4. loads' \in [Tab -> 0 .. MaxLoads]
    BY <1>2, PollAssumption DEF Load
  <2>5. /\ job' \in [Tab -> [Job -> Status]]
        /\ shown' \in [Tab -> [Job -> Status \union {"absent"}]]
    BY <1>2 DEF Load, Status
  <2>6. UNCHANGED <<server, history, note, session, saves, adrift>>
    BY <1>2 DEF Load
  <2> QED BY <2>1, <2>2, <2>3, <2>4, <2>5, <2>6
<1>3. ASSUME NEW t \in Tab, Close(t) PROVE TypeOK'
  <2>1. /\ open' \in [Tab -> BOOLEAN]
        /\ hidden' \in [Tab -> BOOLEAN]
    BY <1>3 DEF Close
  <2>2. /\ poller' \in [Tab -> [Job -> 0 .. MaxPollers]]
        /\ made' \in [Tab -> [Job -> 0 .. MaxPollers]]
    BY <1>3, PollAssumption DEF Close
  <2>3. /\ failures' \in [Tab -> [Job -> 0 .. MaxFailures]]
        /\ missing' \in [Tab -> [Job -> 0 .. MaxFailures]]
    BY <1>3, PollAssumption DEF Close
  <2>4. /\ at' \in [Tab -> [Job -> [Poller -> {"idle", "sent", "answered", "body", "timer"}]]]
        /\ got' \in [Tab -> [Job -> [Poller -> Answer]]]
    BY <1>3 DEF Close, Answer
  <2>5. /\ job' \in [Tab -> [Job -> Status]]
        /\ shown' \in [Tab -> [Job -> Status \union {"absent"}]]
    BY <1>3 DEF Close, Status
  <2>6. /\ note' \in [Tab -> SUBSET Job]
        /\ session' \in [Tab -> SUBSET Job]
        /\ adrift' \in [Tab -> SUBSET Job]
    BY <1>3 DEF Close
  <2>7. UNCHANGED <<server, history, loads, saves>>
    BY <1>3 DEF Close
  <2> QED BY <2>1, <2>2, <2>3, <2>4, <2>5, <2>6, <2>7
<1>4. ASSUME NEW t \in Tab, Hide(t) PROVE TypeOK'
  BY <1>4 DEF Hide
<1>5. ASSUME NEW t \in Tab, Show(t) PROVE TypeOK'
  <2>1. /\ poller' \in [Tab -> [Job -> 0 .. MaxPollers]]
        /\ made' \in [Tab -> [Job -> 0 .. MaxPollers]]
        /\ failures' \in [Tab -> [Job -> 0 .. MaxFailures]]
        /\ missing' \in [Tab -> [Job -> 0 .. MaxFailures]]
        /\ at' \in [Tab -> [Job -> [Poller -> {"idle", "sent", "answered", "body", "timer"}]]]
    BY <1>5, BeginEffect DEF Show, Followed
  <2>2. got' \in [Tab -> [Job -> [Poller -> Answer]]]
    BY <1>5, BeginEffect DEF Show, Begun, Followed
  <2>3. hidden' \in [Tab -> BOOLEAN]
    BY <1>5 DEF Show
  <2>4. UNCHANGED <<server, history, open, loads, job, shown, note, session, saves, adrift>>
    BY <1>5 DEF Show
  <2> QED BY <2>1, <2>2, <2>3, <2>4
<1>6. ASSUME NEW t \in Tab, Clear(t) PROVE TypeOK'
  BY <1>6 DEF Clear
<1>7. ASSUME NEW t \in Tab, NEW j \in Job, Submit(t, j) PROVE TypeOK'
  <2>1. /\ poller' \in [Tab -> [Job -> 0 .. MaxPollers]]
        /\ made' \in [Tab -> [Job -> 0 .. MaxPollers]]
        /\ failures' \in [Tab -> [Job -> 0 .. MaxFailures]]
        /\ missing' \in [Tab -> [Job -> 0 .. MaxFailures]]
        /\ at' \in [Tab -> [Job -> [Poller -> {"idle", "sent", "answered", "body", "timer"}]]]
    BY <1>7, BeginEffect DEF Submit
  <2>2. got' \in [Tab -> [Job -> [Poller -> Answer]]]
    BY <1>7 DEF Submit, BeginPolls
  <2>3. /\ server' \in [Job -> State]
        /\ history' \in [Job -> Status \union {"absent"}]
    BY <1>7 DEF Submit, Status, State
  <2>4. /\ session' \in [Tab -> SUBSET Job]
        /\ job' \in [Tab -> [Job -> Status]]
        /\ shown' \in [Tab -> [Job -> Status \union {"absent"}]]
    BY <1>7 DEF Submit, Status
  <2>5. UNCHANGED <<open, hidden, loads, note, saves, adrift>>
    BY <1>7 DEF Submit
  <2> QED BY <2>1, <2>2, <2>3, <2>4, <2>5
<1>8. ASSUME NEW t \in Tab, NEW j \in Job, MarkExpired(t, j) PROVE TypeOK'
  <2>1. history' \in [Job -> Status \union {"absent"}]
    BY <1>8 DEF MarkExpired, Status
  <2>2. shown' \in [Tab -> [Job -> Status \union {"absent"}]]
    BY <1>8 DEF MarkExpired, Status
  <2>3. UNCHANGED <<server, open, hidden, loads, poller, made, failures, missing, at, got, job, note, session, saves, adrift>>
    BY <1>8 DEF MarkExpired
  <2> QED BY <2>1, <2>2, <2>3
<1>9. ASSUME NEW t \in Tab, NEW j \in Job, NEW n \in Poller, Answers(t, j, n) PROVE TypeOK'
  BY <1>9, RepliesAre DEF Answers
<1>10. ASSUME NEW t \in Tab, NEW j \in Job, NEW n \in Poller, GivesUp(t, j, n) PROVE TypeOK'
  <2>1. /\ at' \in [Tab -> [Job -> [Poller -> {"idle", "sent", "answered", "body", "timer"}]]]
        /\ got' \in [Tab -> [Job -> [Poller -> Answer]]]
    BY <1>10, EndEffect DEF GivesUp
  <2>2. UNCHANGED <<server, history, open, hidden, loads, poller, made, failures, missing, job, shown, note, session, saves, adrift>>
    BY <1>10 DEF GivesUp
  <2> QED BY <2>1, <2>2
<1>11. ASSUME NEW t \in Tab, NEW j \in Job, NEW n \in Poller, Wakes(t, j, n) PROVE TypeOK'
  BY <1>11 DEF Wakes, Stale
<1>12. ASSUME NEW t \in Tab, NEW j \in Job, NEW n \in Poller, ArrivesMissing(t, j, n) PROVE TypeOK'
  <2>1. /\ at' \in [Tab -> [Job -> [Poller -> {"idle", "sent", "answered", "body", "timer"}]]]
        /\ got' \in [Tab -> [Job -> [Poller -> Answer]]]
    BY <1>12, EndEffect DEF ArrivesMissing
  <2>2. missing' \in [Tab -> [Job -> 0 .. MaxFailures]]
    BY <1>12, PollAssumption DEF ArrivesMissing, Stale, Poller
  <2>3. job' = job \/ job' = [job EXCEPT ![t][j] = "expired"]
    BY <1>12 DEF ArrivesMissing
  <2>4. job' \in [Tab -> [Job -> Status]]
    <3>1. CASE job' = job BY <3>1
    <3>2. CASE job' = [job EXCEPT ![t][j] = "expired"]
      BY <3>2 DEF Status
    <3> QED BY <2>3, <3>1, <3>2
  <2>5. shown' = shown \/ shown' = [shown EXCEPT ![t][j] = "expired"]
    BY <1>12 DEF ArrivesMissing
  <2>6. shown' \in [Tab -> [Job -> Status \union {"absent"}]]
    <3>1. CASE shown' = shown BY <3>1
    <3>2. CASE shown' = [shown EXCEPT ![t][j] = "expired"]
      BY <3>2 DEF Status
    <3> QED BY <2>5, <3>1, <3>2
  <2>7. note' = note \/ note' = [note EXCEPT ![t] = note[t] \ {j}]
    BY <1>12 DEF ArrivesMissing
  <2>8. note' \in [Tab -> SUBSET Job]
    <3>1. CASE note' = note BY <3>1
    <3>2. CASE note' = [note EXCEPT ![t] = note[t] \ {j}]
      BY <3>2 DEF Status
    <3> QED BY <2>7, <3>1, <3>2
  <2>9. history' = history \/ history' = [history EXCEPT ![j] = "expired"]
    BY <1>12 DEF ArrivesMissing
  <2>10. history' \in [Job -> Status \union {"absent"}]
    <3>1. CASE history' = history BY <3>1
    <3>2. CASE history' = [history EXCEPT ![j] = "expired"]
      BY <3>2 DEF Status
    <3> QED BY <2>9, <3>1, <3>2
  <2>11. adrift' = adrift \/ adrift' = [adrift EXCEPT ![t] = adrift[t] \ {j}]
    BY <1>12 DEF ArrivesMissing
  <2>12. adrift' \in [Tab -> SUBSET Job]
    <3>1. CASE adrift' = adrift BY <3>1
    <3>2. CASE adrift' = [adrift EXCEPT ![t] = adrift[t] \ {j}]
      BY <3>2 DEF Status
    <3> QED BY <2>11, <3>1, <3>2
  <2>13. poller' = poller \/ poller' = [poller EXCEPT ![t][j] = 0]
    BY <1>12 DEF ArrivesMissing
  <2>14. poller' \in [Tab -> [Job -> 0 .. MaxPollers]]
    <3>1. CASE poller' = poller BY <3>1
    <3>2. CASE poller' = [poller EXCEPT ![t][j] = 0]
      BY <3>2, Bounds
    <3> QED BY <2>13, <3>1, <3>2
  <2>15. UNCHANGED <<server, open, hidden, loads, made, failures, session, saves>>
    BY <1>12 DEF ArrivesMissing
  <2> QED BY <2>1, <2>2, <2>3, <2>4, <2>5, <2>6, <2>7, <2>8, <2>9, <2>10, <2>11, <2>12, <2>13, <2>14, <2>15
<1>13. ASSUME NEW t \in Tab, NEW j \in Job, NEW n \in Poller, ArrivesError(t, j, n) PROVE TypeOK'
  <2>1. /\ at' \in [Tab -> [Job -> [Poller -> {"idle", "sent", "answered", "body", "timer"}]]]
        /\ got' \in [Tab -> [Job -> [Poller -> Answer]]]
    BY <1>13, EndEffect DEF ArrivesError
  <2>2. failures' \in [Tab -> [Job -> 0 .. MaxFailures]]
    BY <1>13, PollAssumption DEF ArrivesError, Stale, Poller, CountFailure
  <2>3. shown' = shown \/ shown' = [shown EXCEPT ![t][j] = job[t][j]]
    BY <1>13 DEF ArrivesError, ShowFailure
  <2>4. shown' \in [Tab -> [Job -> Status \union {"absent"}]]
    <3>1. CASE shown' = shown BY <3>1
    <3>2. CASE shown' = [shown EXCEPT ![t][j] = job[t][j]]
      BY <3>2 DEF Status
    <3> QED BY <2>3, <3>1, <3>2
  <2>5. note' = note \/ note' = [note EXCEPT ![t] = note[t] \union {j}]
    BY <1>13 DEF ArrivesError, ShowFailure
  <2>6. note' \in [Tab -> SUBSET Job]
    <3>1. CASE note' = note BY <3>1
    <3>2. CASE note' = [note EXCEPT ![t] = note[t] \union {j}]
      BY <3>2 DEF Status
    <3> QED BY <2>5, <3>1, <3>2
  <2>7. poller' = poller \/ poller' = [poller EXCEPT ![t][j] = 0]
    BY <1>13 DEF ArrivesError
  <2>8. poller' \in [Tab -> [Job -> 0 .. MaxPollers]]
    <3>1. CASE poller' = poller BY <3>1
    <3>2. CASE poller' = [poller EXCEPT ![t][j] = 0]
      BY <3>2, Bounds
    <3> QED BY <2>7, <3>1, <3>2
  <2>9. UNCHANGED <<server, history, open, hidden, loads, made, missing, job, session, saves, adrift>>
    BY <1>13 DEF ArrivesError
  <2> QED BY <2>1, <2>2, <2>3, <2>4, <2>5, <2>6, <2>7, <2>8, <2>9
<1>14. ASSUME NEW t \in Tab, NEW j \in Job, NEW n \in Poller, ArrivesGood(t, j, n) PROVE TypeOK'
  BY <1>14 DEF ArrivesGood, Stale
<1>15. ASSUME NEW t \in Tab, NEW j \in Job, NEW n \in Poller, BodyGarbled(t, j, n) PROVE TypeOK'
  <2>1. /\ at' \in [Tab -> [Job -> [Poller -> {"idle", "sent", "answered", "body", "timer"}]]]
        /\ got' \in [Tab -> [Job -> [Poller -> Answer]]]
    BY <1>15, EndEffect DEF BodyGarbled
  <2>2. /\ shown' \in [Tab -> [Job -> Status \union {"absent"}]]
        /\ note' \in [Tab -> SUBSET Job]
    BY <1>15 DEF BodyGarbled, ShowFailure, Status
  <2>3. poller' \in [Tab -> [Job -> 0 .. MaxPollers]]
    BY <1>15, PollAssumption DEF BodyGarbled
  <2>4. UNCHANGED <<server, history, open, hidden, loads, made, failures, missing, job, session, saves, adrift>>
    BY <1>15 DEF BodyGarbled
  <2> QED BY <2>1, <2>2, <2>3, <2>4
<1>16. ASSUME NEW t \in Tab, NEW j \in Job, NEW n \in Poller, BodyRead(t, j, n) PROVE TypeOK'
  <2>0. got[t][j][n] \in Status
    BY <1>16 DEF BodyRead, Grounded
  <2>1. /\ at' \in [Tab -> [Job -> [Poller -> {"idle", "sent", "answered", "body", "timer"}]]]
        /\ got' \in [Tab -> [Job -> [Poller -> Answer]]]
    BY <1>16, EndEffect DEF BodyRead
  <2>2. /\ failures' \in [Tab -> [Job -> 0 .. MaxFailures]]
        /\ missing' \in [Tab -> [Job -> 0 .. MaxFailures]]
    BY <1>16, PollAssumption DEF BodyRead
  <2>3. /\ job' \in [Tab -> [Job -> Status]]
        /\ shown' \in [Tab -> [Job -> Status \union {"absent"}]]
        /\ note' \in [Tab -> SUBSET Job]
    BY <1>16, <2>0 DEF BodyRead, Status
  <2>4. /\ history' \in [Job -> Status \union {"absent"}]
        /\ adrift' \in [Tab -> SUBSET Job]
    BY <1>16, <2>0 DEF BodyRead, Status
  <2>5. poller' = poller \/ poller' = [poller EXCEPT ![t][j] = 0]
    BY <1>16 DEF BodyRead
  <2>6. poller' \in [Tab -> [Job -> 0 .. MaxPollers]]
    <3>1. CASE poller' = poller BY <3>1
    <3>2. CASE poller' = [poller EXCEPT ![t][j] = 0]
      BY <3>2, Bounds
    <3> QED BY <2>5, <3>1, <3>2
  <2>7. session' \in [Tab -> SUBSET Job]
    BY <1>16 DEF BodyRead, AutoSave
  <2>8. saves' = saves \/ saves' = [saves EXCEPT ![j] = saves[j] + 1]
    BY <1>16 DEF BodyRead, AutoSave
  <2>9. saves' \in [Job -> Nat]
    <3>1. CASE saves' = saves BY <3>1
    <3>2. CASE saves' = [saves EXCEPT ![j] = saves[j] + 1]
      BY <3>2
    <3> QED BY <2>8, <3>1, <3>2
  <2>10. UNCHANGED <<server, open, hidden, loads, made>>
    BY <1>16 DEF BodyRead
  <2> QED BY <2>1, <2>2, <2>3, <2>4, <2>5, <2>6, <2>7, <2>8, <2>9, <2>10
<1>17. ASSUME UNCHANGED vars PROVE TypeOK'
  BY <1>17 DEF vars
<1>18. ASSUME NEW t \in Tab, NEW j \in Job, NEW n \in Poller, Unstored(t, j, n) PROVE TypeOK'
  <2>1. IF at[t][j][n] = "body" THEN got[t][j][n] \in Status ELSE TRUE
    BY <1>18 DEF Grounded
  <2>2. /\ at' \in [Tab -> [Job -> [Poller -> {"idle", "sent", "answered", "body", "timer"}]]]
        /\ got' \in [Tab -> [Job -> [Poller -> Answer]]]
    <3>1. Ends(t, j, n) \/ GoesOn(t, j, n)
      BY <1>18 DEF Unstored
    <3>2. CASE Ends(t, j, n) BY <3>2, EndEffect
    <3>3. CASE GoesOn(t, j, n) BY <3>3, EndEffect
    <3> QED BY <3>1, <3>2, <3>3
  <2>3. \E s \in Status :
          /\ job' = [job EXCEPT ![t][j] = s]
          /\ shown' \in {shown, [shown EXCEPT ![t][j] = s]}
    <3> DEFINE s == IF at[t][j][n] = "body" THEN got[t][j][n] ELSE "expired"
    <3>1. s \in Status
      BY <2>1 DEF Status
    <3>2. job' = [job EXCEPT ![t][j] = s] /\ shown' \in {shown, [shown EXCEPT ![t][j] = s]}
      BY <1>18 DEF Unstored, ShowFailure
    <3> HIDE DEF s
    <3> QED BY <3>1, <3>2
  <2>4. PICK s \in Status :
          /\ job' = [job EXCEPT ![t][j] = s]
          /\ shown' \in {shown, [shown EXCEPT ![t][j] = s]}
    BY <2>3
  <2>12. job' \in [Tab -> [Job -> Status]]
    BY <2>4
  <2>13. shown' \in [Tab -> [Job -> Status \union {"absent"}]]
    <3>1. CASE shown' = shown BY <3>1
    <3>2. CASE shown' = [shown EXCEPT ![t][j] = s]
      BY <3>2
    <3> QED BY <2>4, <3>1, <3>2
  <2>5. /\ note' = note \/ note' = [note EXCEPT ![t] = note[t] \union {j}]
        /\ adrift' = [adrift EXCEPT ![t] = adrift[t] \union {j}]
        /\ poller' = poller \/ poller' = [poller EXCEPT ![t][j] = 0]
        /\ missing' = missing \/ missing' = [missing EXCEPT ![t][j] = 0]
    BY <1>18 DEF Unstored, ShowFailure
  <2>6. note' \in [Tab -> SUBSET Job] /\ adrift' \in [Tab -> SUBSET Job]
    <3>1. adrift' \in [Tab -> SUBSET Job] BY <2>5
    <3>2. CASE note' = note BY <3>1, <3>2
    <3>3. CASE note' = [note EXCEPT ![t] = note[t] \union {j}]
      BY <3>1, <3>3
    <3> QED BY <2>5, <3>2, <3>3
  <2>7. poller' \in [Tab -> [Job -> 0 .. MaxPollers]]
    <3>1. CASE poller' = poller BY <3>1
    <3>2. CASE poller' = [poller EXCEPT ![t][j] = 0]
      BY <3>2, Bounds
    <3> QED BY <2>5, <3>1, <3>2
  <2>9. missing' \in [Tab -> [Job -> 0 .. MaxFailures]]
    <3>1. CASE missing' = missing BY <3>1
    <3>2. CASE missing' = [missing EXCEPT ![t][j] = 0]
      BY <3>2, Bounds
    <3> QED BY <2>5, <3>1, <3>2
  <2>10. failures' \in [Tab -> [Job -> 0 .. MaxFailures]]
    <3>1. CASE Stale(t, j, n)
      BY <1>18, <3>1 DEF Unstored
    <3>2. CASE ~ Stale(t, j, n)
      <4>1. failures[t][j] \in 0 .. MaxFailures /\ failures[t][j] < MaxFailures
        BY <3>2, Bounds DEF Stale, Poller
      <4> DEFINE count == IF at[t][j][n] = "body" THEN 1 ELSE failures[t][j] + 1
      <4>2. count \in 0 .. MaxFailures
        BY <4>1, Bounds
      <4>3. failures' = [failures EXCEPT ![t][j] = count]
        BY <1>18, <3>2 DEF Unstored
      <4> HIDE DEF count
      <4> QED BY <4>2, <4>3
    <3> QED BY <3>1, <3>2
  <2>11. UNCHANGED <<server, history, open, hidden, loads, made, session, saves>>
    BY <1>18 DEF Unstored, ShowFailure, page
  <2> QED BY <2>2, <2>6, <2>7, <2>9, <2>10, <2>11, <2>12, <2>13
<1> QED
  BY <1>1, <1>2, <1>3, <1>4, <1>5, <1>6, <1>7, <1>8, <1>9, <1>10, <1>11, <1>12, <1>13, <1>14, <1>15, <1>16, <1>17, <1>18 DEF Next, Run

-----------------------------------------------------------------------------
(* The steps of a run that end a round, seen from one job of one page.     *)

\* Nothing changes for job i in page u.
Same(u, i) ==
  /\ poller'[u][i] = poller[u][i] /\ failures'[u][i] = failures[u][i]
  /\ missing'[u][i] = missing[u][i]
  /\ job'[u][i] = job[u][i] /\ shown'[u][i] = shown[u][i]
  /\ (i \in note'[u]) <=> (i \in note[u])
  /\ (i \in adrift'[u]) <=> (i \in adrift[u])
  /\ \A m \in Poller : at'[u][i][m] = at[u][i][m] /\ got'[u][i][m] = got[u][i][m]

\* Other jobs and other pages do not notice.
LEMMA Elsewhere ==
  ASSUME TypeOK, NEW t \in Tab, NEW j \in Job, NEW n \in Poller,
         \/ ArrivesMissing(t, j, n) \/ ArrivesError(t, j, n)
         \/ BodyGarbled(t, j, n) \/ BodyRead(t, j, n) \/ Unstored(t, j, n),
         NEW u \in Tab, NEW i \in Job, u # t \/ i # j
  PROVE  Same(u, i)
<1>1. \A m \in Poller : at'[u][i][m] = at[u][i][m] /\ got'[u][i][m] = got[u][i][m]
  <2>1. Ends(t, j, n) \/ GoesOn(t, j, n)
    BY DEF ArrivesMissing, ArrivesError, BodyGarbled, BodyRead, Unstored
  <2> QED BY <2>1, EndEffect DEF Ended
<1>2. /\ poller'[u][i] = poller[u][i] /\ failures'[u][i] = failures[u][i]
      /\ missing'[u][i] = missing[u][i]
      /\ job'[u][i] = job[u][i] /\ shown'[u][i] = shown[u][i]
      /\ (i \in note'[u]) <=> (i \in note[u])
      /\ (i \in adrift'[u]) <=> (i \in adrift[u])
  <2> USE DEF TypeOK, view
  <2>1. CASE ArrivesMissing(t, j, n) BY <2>1 DEF ArrivesMissing
  <2>2. CASE ArrivesError(t, j, n) BY <2>2 DEF ArrivesError, CountFailure, ShowFailure
  <2>3. CASE BodyGarbled(t, j, n) BY <2>3 DEF BodyGarbled, ShowFailure
  <2>4. CASE BodyRead(t, j, n) BY <2>4 DEF BodyRead
  <2>5. CASE Unstored(t, j, n) BY <2>5 DEF Unstored, ShowFailure
  <2> QED BY <2>1, <2>2, <2>3, <2>4, <2>5
<1> QED BY <1>1, <1>2 DEF Same

\* What the job itself sees: a 404,
LEMMA MissingHere ==
  ASSUME TypeOK, NEW t \in Tab, NEW j \in Job, NEW n \in Poller, ArrivesMissing(t, j, n)
  PROVE  /\ poller[t][j] = n /\ failures' = failures
         /\ open' = open /\ hidden' = hidden /\ session' = session /\ saves' = saves
         /\ server' = server
         /\ \/ /\ missing'[t][j] < MaxFailures /\ GoesOn(t, j, n)
               /\ UNCHANGED <<poller, job, shown, note, adrift>>
            \/ poller'[t][j] = 0 /\ shown'[t][j] = "expired" /\ Ends(t, j, n)
BY DEF TypeOK, ArrivesMissing, Stale, page, view

\* an error,
LEMMA ErrorHere ==
  ASSUME TypeOK, NEW t \in Tab, NEW j \in Job, NEW n \in Poller, ArrivesError(t, j, n)
  PROVE  /\ poller[t][j] = n /\ missing' = missing
         /\ open' = open /\ hidden' = hidden /\ session' = session /\ saves' = saves
         /\ server' = server
         /\ job' = job /\ adrift' = adrift
         /\ \/ /\ failures'[t][j] < MaxFailures /\ GoesOn(t, j, n)
               /\ UNCHANGED <<poller, shown, note>>
            \/ poller'[t][j] = 0 /\ j \in note'[t] /\ Ends(t, j, n)
BY DEF TypeOK, ArrivesError, Stale, ShowFailure, CountFailure, page

\* a body that cannot be read,
LEMMA GarbledHere ==
  ASSUME TypeOK, NEW t \in Tab, NEW j \in Job, NEW n \in Poller, BodyGarbled(t, j, n)
  PROVE  /\ poller'[t][j] = 0 /\ j \in note'[t] /\ Ends(t, j, n)
         /\ open' = open /\ hidden' = hidden /\ session' = session /\ saves' = saves
         /\ server' = server
BY DEF TypeOK, BodyGarbled, ShowFailure, page

\* a body,
LEMMA ReadHere ==
  ASSUME TypeOK, NEW t \in Tab, NEW j \in Job, NEW n \in Poller, BodyRead(t, j, n)
  PROVE  /\ open' = open /\ hidden' = hidden /\ server' = server
         /\ shown'[t][j] = got[t][j][n] /\ job'[t][j] = got[t][j][n]
         /\ failures'[t][j] \in {0, failures[t][j]} /\ missing'[t][j] \in {0, missing[t][j]}
         /\ got[t][j][n] = "queued" /\ poller[t][j] # n => j \in adrift'[t]
         /\ \/ GoesOn(t, j, n) /\ poller' = poller /\ got[t][j][n] = "queued"
            \/ Ends(t, j, n) /\ poller'[t][j] = 0 /\ got[t][j][n] # "queued"
<1> USE DEF TypeOK, BodyRead, Stale, page
<1>1. open' = open /\ hidden' = hidden /\ server' = server
  OBVIOUS
<1>2. shown'[t][j] = got[t][j][n] /\ job'[t][j] = got[t][j][n]
  OBVIOUS
<1>3. failures'[t][j] \in {0, failures[t][j]} /\ missing'[t][j] \in {0, missing[t][j]}
  OBVIOUS
<1>4. got[t][j][n] = "queued" /\ poller[t][j] # n => j \in adrift'[t]
  OBVIOUS
<1>5. \/ GoesOn(t, j, n) /\ poller' = poller /\ got[t][j][n] = "queued"
      \/ Ends(t, j, n) /\ poller'[t][j] = 0 /\ got[t][j][n] # "queued"
  OBVIOUS
<1> QED BY <1>1, <1>2, <1>3, <1>4, <1>5

\* and an entry that is not stored.
LEMMA UnstoredHere ==
  ASSUME TypeOK, NEW t \in Tab, NEW j \in Job, NEW n \in Poller, Unstored(t, j, n)
  PROVE  /\ UNCHANGED <<server, history, open, hidden, loads, made, session, saves>>
         /\ at[t][j][n] # "idle" /\ j \in adrift'[t]
         /\ job'[t][j] \in {got[t][j][n], "expired"}
         /\ shown'[t][j] \in {shown[t][j], got[t][j][n], "expired"}
         /\ Ends(t, j, n) \/ GoesOn(t, j, n)
         /\ \/ poller' = poller /\ failures' = failures /\ missing' = missing
            \/ /\ poller' = poller /\ failures'[t][j] < MaxFailures
               /\ missing'[t][j] \in {0, missing[t][j]}
            \/ poller'[t][j] = 0
<1> USE DEF TypeOK, Unstored, ShowFailure, page
<1>1. UNCHANGED <<server, history, open, hidden, loads, made, session, saves>>
  OBVIOUS
<1>2. at[t][j][n] # "idle" /\ j \in adrift'[t]
  OBVIOUS
<1>3. job'[t][j] \in {got[t][j][n], "expired"}
  OBVIOUS
<1>4. shown'[t][j] \in {shown[t][j], got[t][j][n], "expired"}
  OBVIOUS
<1>5. Ends(t, j, n) \/ GoesOn(t, j, n)
  OBVIOUS
<1>6. \/ poller' = poller /\ failures' = failures /\ missing' = missing
      \/ /\ poller' = poller /\ failures'[t][j] < MaxFailures
         /\ missing'[t][j] \in {0, missing[t][j]}
      \/ poller'[t][j] = 0
  OBVIOUS
<1> QED BY <1>1, <1>2, <1>3, <1>4, <1>5, <1>6

-----------------------------------------------------------------------------
(* The steps preserve the rest of the invariant.                           *)

\* Polling ends when the failures are used up; a new poller begins without any.
LEMMA StepPatience ==
  ASSUME TypeOK, Patience, [Next]_vars
  PROVE  Patience'
<1> USE DEF TypeOK, Patience, page, loops, view
<1>1. ASSUME NEW j \in Job, ServerMoves(j) PROVE Patience'
  BY <1>1, PollAssumption DEF ServerMoves, Poller
<1>2. ASSUME NEW t \in Tab, Load(t) PROVE Patience'
  <2> SUFFICES ASSUME NEW u \in Tab, NEW i \in Job PROVE (poller[u][i] # 0 => failures[u][i] < MaxFailures /\ missing[u][i] < MaxFailures)'
    BY DEF Patience
  <2> DEFINE js == {k \in Job : history[k] = "queued"}
  <2>1. js \in SUBSET Job /\ Begun(t, js)
    BY <1>2, BeginEffect DEF Load
  <2> HIDE DEF js
  <2>2. CASE u = t /\ i \in js
    BY <2>1, <2>2, PollAssumption DEF Begun
  <2>3. CASE ~ (u = t /\ i \in js)
    BY <2>1, <2>3 DEF Begun
  <2> QED BY <2>2, <2>3
<1>3. ASSUME NEW t \in Tab, Close(t) PROVE Patience'
  BY <1>3, PollAssumption DEF Close, Poller
<1>4. ASSUME NEW t \in Tab, Hide(t) PROVE Patience'
  BY <1>4, PollAssumption DEF Hide, Poller
<1>5. ASSUME NEW t \in Tab, Show(t) PROVE Patience'
  <2> SUFFICES ASSUME NEW u \in Tab, NEW i \in Job PROVE (poller[u][i] # 0 => failures[u][i] < MaxFailures /\ missing[u][i] < MaxFailures)'
    BY DEF Patience
  <2> DEFINE js == Followed(t)
  <2>1. js \in SUBSET Job /\ Begun(t, js)
    BY <1>5, BeginEffect DEF Show, Followed
  <2> HIDE DEF js
  <2>2. CASE u = t /\ i \in js
    BY <2>1, <2>2, PollAssumption DEF Begun
  <2>3. CASE ~ (u = t /\ i \in js)
    BY <2>1, <2>3 DEF Begun
  <2> QED BY <2>2, <2>3
<1>6. ASSUME NEW t \in Tab, Clear(t) PROVE Patience'
  BY <1>6, PollAssumption DEF Clear, Poller
<1>7. ASSUME NEW t \in Tab, NEW j \in Job, Submit(t, j) PROVE Patience'
  <2> SUFFICES ASSUME NEW u \in Tab, NEW i \in Job PROVE (poller[u][i] # 0 => failures[u][i] < MaxFailures /\ missing[u][i] < MaxFailures)'
    BY DEF Patience
  <2> DEFINE js == {j}
  <2>1. js \in SUBSET Job /\ Begun(t, js)
    BY <1>7, BeginEffect DEF Submit
  <2> HIDE DEF js
  <2>2. CASE u = t /\ i \in js
    BY <2>1, <2>2, PollAssumption DEF Begun
  <2>3. CASE ~ (u = t /\ i \in js)
    BY <2>1, <2>3 DEF Begun
  <2> QED BY <2>2, <2>3
<1>8. ASSUME NEW t \in Tab, NEW j \in Job, MarkExpired(t, j) PROVE Patience'
  BY <1>8, PollAssumption DEF MarkExpired, Poller
<1>9. ASSUME NEW t \in Tab, NEW j \in Job, NEW n \in Poller, Answers(t, j, n) PROVE Patience'
  BY <1>9, PollAssumption DEF Answers, Poller
<1>10. ASSUME NEW t \in Tab, NEW j \in Job, NEW n \in Poller, GivesUp(t, j, n) PROVE Patience'
  BY <1>10, PollAssumption DEF GivesUp, Stale, Poller
<1>11. ASSUME NEW t \in Tab, NEW j \in Job, NEW n \in Poller, Wakes(t, j, n) PROVE Patience'
  BY <1>11, PollAssumption DEF Wakes, Stale, Poller
<1>12. ASSUME NEW t \in Tab, NEW j \in Job, NEW n \in Poller, ArrivesMissing(t, j, n) PROVE Patience'
  <2> SUFFICES ASSUME NEW u \in Tab, NEW i \in Job PROVE (poller[u][i] # 0 => failures[u][i] < MaxFailures /\ missing[u][i] < MaxFailures)'
    BY DEF Patience
  <2>1. CASE u = t /\ i = j
    BY <1>12, <2>1, MissingHere
  <2>2. CASE u # t \/ i # j
    <3>1. Same(u, i)
      BY <1>12, <2>2, Elsewhere
    <3>2. open' = open /\ hidden' = hidden
      BY <1>12, MissingHere
    <3> QED BY <3>1, <3>2 DEF Same
  <2> QED BY <2>1, <2>2
<1>13. ASSUME NEW t \in Tab, NEW j \in Job, NEW n \in Poller, ArrivesError(t, j, n) PROVE Patience'
  <2> SUFFICES ASSUME NEW u \in Tab, NEW i \in Job PROVE (poller[u][i] # 0 => failures[u][i] < MaxFailures /\ missing[u][i] < MaxFailures)'
    BY DEF Patience
  <2>1. CASE u = t /\ i = j
    BY <1>13, <2>1, ErrorHere
  <2>2. CASE u # t \/ i # j
    <3>1. Same(u, i)
      BY <1>13, <2>2, Elsewhere
    <3>2. open' = open /\ hidden' = hidden
      BY <1>13, ErrorHere
    <3> QED BY <3>1, <3>2 DEF Same
  <2> QED BY <2>1, <2>2
<1>14. ASSUME NEW t \in Tab, NEW j \in Job, NEW n \in Poller, ArrivesGood(t, j, n) PROVE Patience'
  BY <1>14, PollAssumption DEF ArrivesGood, Stale, Poller
<1>15. ASSUME NEW t \in Tab, NEW j \in Job, NEW n \in Poller, BodyGarbled(t, j, n) PROVE Patience'
  <2> SUFFICES ASSUME NEW u \in Tab, NEW i \in Job PROVE (poller[u][i] # 0 => failures[u][i] < MaxFailures /\ missing[u][i] < MaxFailures)'
    BY DEF Patience
  <2>1. CASE u = t /\ i = j
    BY <1>15, <2>1, GarbledHere
  <2>2. CASE u # t \/ i # j
    <3>1. Same(u, i)
      BY <1>15, <2>2, Elsewhere
    <3>2. open' = open /\ hidden' = hidden
      BY <1>15, GarbledHere
    <3> QED BY <3>1, <3>2 DEF Same
  <2> QED BY <2>1, <2>2
<1>16. ASSUME NEW t \in Tab, NEW j \in Job, NEW n \in Poller, BodyRead(t, j, n) PROVE Patience'
  <2> SUFFICES ASSUME NEW u \in Tab, NEW i \in Job PROVE (poller[u][i] # 0 => failures[u][i] < MaxFailures /\ missing[u][i] < MaxFailures)'
    BY DEF Patience
  <2>1. CASE u = t /\ i = j
    <3>1. /\ poller'[t][j] = poller[t][j] \/ poller'[t][j] = 0
          /\ failures'[t][j] \in {0, failures[t][j]} /\ missing'[t][j] \in {0, missing[t][j]}
      BY <1>16, ReadHere
    <3> QED BY <2>1, <3>1, Bounds
  <2>2. CASE u # t \/ i # j
    <3>1. Same(u, i)
      BY <1>16, <2>2, Elsewhere
    <3>2. open' = open /\ hidden' = hidden
      BY <1>16, ReadHere
    <3> QED BY <3>1, <3>2 DEF Same
  <2> QED BY <2>1, <2>2
<1>17. ASSUME UNCHANGED vars PROVE Patience'
  BY <1>17 DEF vars, Poller
<1>18. ASSUME NEW t \in Tab, NEW j \in Job, NEW n \in Poller, Unstored(t, j, n) PROVE Patience'
  <2> SUFFICES ASSUME NEW u \in Tab, NEW i \in Job PROVE (poller[u][i] # 0 => failures[u][i] < MaxFailures /\ missing[u][i] < MaxFailures)'
    BY DEF Patience
  <2>1. CASE u = t /\ i = j
    <3>1. \/ poller' = poller /\ failures' = failures /\ missing' = missing
          \/ /\ poller' = poller /\ failures'[t][j] < MaxFailures
             /\ missing'[t][j] \in {0, missing[t][j]}
          \/ poller'[t][j] = 0
      BY <1>18, UnstoredHere
    <3> QED BY <2>1, <3>1, Bounds
  <2>2. CASE u # t \/ i # j
    <3>1. Same(u, i)
      BY <1>18, <2>2, Elsewhere
    <3>2. open' = open /\ hidden' = hidden
      BY <1>18, UnstoredHere
    <3> QED BY <3>1, <3>2 DEF Same
  <2> QED BY <2>1, <2>2
<1> QED
  BY <1>1, <1>2, <1>3, <1>4, <1>5, <1>6, <1>7, <1>8, <1>9, <1>10, <1>11, <1>12, <1>13, <1>14, <1>15, <1>16, <1>17, <1>18 DEF Next, Run

\* A page that is closed loses its entries, and its runs end.
LEMMA StepClosed ==
  ASSUME TypeOK, Closed, [Next]_vars
  PROVE  Closed'
<1> USE DEF Closed, page, loops, view
<1>1. ASSUME NEW j \in Job, ServerMoves(j) PROVE Closed'
  BY <1>1 DEF ServerMoves, TypeOK
<1>2. ASSUME NEW t \in Tab, Load(t) PROVE Closed'
  <2> DEFINE js == {k \in Job : history[k] = "queued"}
  <2>0. open'[t]
    BY <1>2 DEF Load, TypeOK
  <2>1. js \in SUBSET Job /\ Begun(t, js) /\ open'[t]
    BY <1>2, <2>0, BeginEffect DEF Load
  <2> HIDE DEF js
  <2>2. \A u \in Tab : u # t => open'[u] = open[u] /\ \A i \in Job : shown'[u][i] = shown[u][i]
    BY <1>2 DEF Load
  <2>3. \A u \in Tab, i \in Job, m \in Poller : u # t => at'[u][i][m] = at[u][i][m]
    BY <2>1 DEF Begun
  <2> SUFFICES ASSUME NEW u \in Tab, NEW i \in Job, ~ open'[u]
               PROVE  shown'[u][i] = "absent" /\ \A m \in Poller : at'[u][i][m] = "idle"
    OBVIOUS
  <2>4. u # t /\ ~ open[u]
    BY <2>1, <2>2
  <2> QED BY <2>2, <2>3, <2>4
<1>3. ASSUME NEW t \in Tab, Close(t) PROVE Closed'
  BY <1>3 DEF Close, TypeOK
<1>4. ASSUME NEW t \in Tab, Hide(t) PROVE Closed'
  BY <1>4 DEF Hide, TypeOK
<1>5. ASSUME NEW t \in Tab, Show(t) PROVE Closed'
  <2> DEFINE js == Followed(t)
  <2>0. open'[t]
    BY <1>5 DEF Show, TypeOK
  <2>1. js \in SUBSET Job /\ Begun(t, js) /\ open'[t]
    BY <1>5, <2>0, BeginEffect DEF Show, Followed
  <2> HIDE DEF js
  <2>2. \A u \in Tab : u # t => open'[u] = open[u] /\ \A i \in Job : shown'[u][i] = shown[u][i]
    BY <1>5 DEF Show
  <2>3. \A u \in Tab, i \in Job, m \in Poller : u # t => at'[u][i][m] = at[u][i][m]
    BY <2>1 DEF Begun
  <2> SUFFICES ASSUME NEW u \in Tab, NEW i \in Job, ~ open'[u]
               PROVE  shown'[u][i] = "absent" /\ \A m \in Poller : at'[u][i][m] = "idle"
    OBVIOUS
  <2>4. u # t /\ ~ open[u]
    BY <2>1, <2>2
  <2> QED BY <2>2, <2>3, <2>4
<1>6. ASSUME NEW t \in Tab, Clear(t) PROVE Closed'
  BY <1>6 DEF Clear, TypeOK
<1>7. ASSUME NEW t \in Tab, NEW j \in Job, Submit(t, j) PROVE Closed'
  <2> DEFINE js == {j}
  <2>0. open'[t]
    BY <1>7 DEF Submit, TypeOK
  <2>1. js \in SUBSET Job /\ Begun(t, js) /\ open'[t]
    BY <1>7, <2>0, BeginEffect DEF Submit
  <2> HIDE DEF js
  <2>2. \A u \in Tab : u # t => open'[u] = open[u] /\ \A i \in Job : shown'[u][i] = shown[u][i]
    BY <1>7 DEF Submit
  <2>3. \A u \in Tab, i \in Job, m \in Poller : u # t => at'[u][i][m] = at[u][i][m]
    BY <2>1 DEF Begun
  <2> SUFFICES ASSUME NEW u \in Tab, NEW i \in Job, ~ open'[u]
               PROVE  shown'[u][i] = "absent" /\ \A m \in Poller : at'[u][i][m] = "idle"
    OBVIOUS
  <2>4. u # t /\ ~ open[u]
    BY <2>1, <2>2
  <2> QED BY <2>2, <2>3, <2>4
<1>8. ASSUME NEW t \in Tab, NEW j \in Job, MarkExpired(t, j) PROVE Closed'
  BY <1>8 DEF MarkExpired, TypeOK
<1>9. ASSUME NEW t \in Tab, NEW j \in Job, NEW n \in Poller, Answers(t, j, n) PROVE Closed'
  BY <1>9 DEF Answers, TypeOK
<1>10. ASSUME NEW t \in Tab, NEW j \in Job, NEW n \in Poller, GivesUp(t, j, n) PROVE Closed'
  BY <1>10 DEF GivesUp, Stale, Ends, TypeOK
<1>11. ASSUME NEW t \in Tab, NEW j \in Job, NEW n \in Poller, Wakes(t, j, n) PROVE Closed'
  BY <1>11 DEF Wakes, Stale, TypeOK
<1>12. ASSUME NEW t \in Tab, NEW j \in Job, NEW n \in Poller, ArrivesMissing(t, j, n) PROVE Closed'
  <2> SUFFICES ASSUME NEW u \in Tab, NEW i \in Job PROVE (~ open[u] => shown[u][i] = "absent" /\ \A m \in Poller : at[u][i][m] = "idle")'
    BY DEF Closed
  <2>1. CASE u = t /\ i = j
    BY <1>12, <2>1, MissingHere DEF ArrivesMissing
  <2>2. CASE u # t \/ i # j
    <3>1. Same(u, i)
      BY <1>12, <2>2, Elsewhere
    <3>2. open' = open /\ hidden' = hidden
      BY <1>12, MissingHere
    <3> QED BY <3>1, <3>2 DEF Same
  <2> QED BY <2>1, <2>2
<1>13. ASSUME NEW t \in Tab, NEW j \in Job, NEW n \in Poller, ArrivesError(t, j, n) PROVE Closed'
  <2> SUFFICES ASSUME NEW u \in Tab, NEW i \in Job PROVE (~ open[u] => shown[u][i] = "absent" /\ \A m \in Poller : at[u][i][m] = "idle")'
    BY DEF Closed
  <2>1. CASE u = t /\ i = j
    BY <1>13, <2>1, ErrorHere DEF ArrivesError
  <2>2. CASE u # t \/ i # j
    <3>1. Same(u, i)
      BY <1>13, <2>2, Elsewhere
    <3>2. open' = open /\ hidden' = hidden
      BY <1>13, ErrorHere
    <3> QED BY <3>1, <3>2 DEF Same
  <2> QED BY <2>1, <2>2
<1>14. ASSUME NEW t \in Tab, NEW j \in Job, NEW n \in Poller, ArrivesGood(t, j, n) PROVE Closed'
  BY <1>14 DEF ArrivesGood, Stale, TypeOK
<1>15. ASSUME NEW t \in Tab, NEW j \in Job, NEW n \in Poller, BodyGarbled(t, j, n) PROVE Closed'
  <2> SUFFICES ASSUME NEW u \in Tab, NEW i \in Job PROVE (~ open[u] => shown[u][i] = "absent" /\ \A m \in Poller : at[u][i][m] = "idle")'
    BY DEF Closed
  <2>1. CASE u = t /\ i = j
    BY <1>15, <2>1, GarbledHere DEF BodyGarbled
  <2>2. CASE u # t \/ i # j
    <3>1. Same(u, i)
      BY <1>15, <2>2, Elsewhere
    <3>2. open' = open /\ hidden' = hidden
      BY <1>15, GarbledHere
    <3> QED BY <3>1, <3>2 DEF Same
  <2> QED BY <2>1, <2>2
<1>16. ASSUME NEW t \in Tab, NEW j \in Job, NEW n \in Poller, BodyRead(t, j, n) PROVE Closed'
  <2> SUFFICES ASSUME NEW u \in Tab, NEW i \in Job PROVE (~ open[u] => shown[u][i] = "absent" /\ \A m \in Poller : at[u][i][m] = "idle")'
    BY DEF Closed
  <2>1. CASE u = t /\ i = j
    BY <1>16, <2>1, ReadHere DEF BodyRead
  <2>2. CASE u # t \/ i # j
    <3>1. Same(u, i)
      BY <1>16, <2>2, Elsewhere
    <3>2. open' = open /\ hidden' = hidden
      BY <1>16, ReadHere
    <3> QED BY <3>1, <3>2 DEF Same
  <2> QED BY <2>1, <2>2
<1>17. ASSUME UNCHANGED vars PROVE Closed'
  BY <1>17 DEF vars, TypeOK
<1>18. ASSUME NEW t \in Tab, NEW j \in Job, NEW n \in Poller, Unstored(t, j, n) PROVE Closed'
  <2> SUFFICES ASSUME NEW u \in Tab, NEW i \in Job PROVE (~ open[u] => shown[u][i] = "absent" /\ \A m \in Poller : at[u][i][m] = "idle")'
    BY DEF Closed
  <2>1. CASE u = t /\ i = j
    BY <1>18, <2>1, UnstoredHere
  <2>2. CASE u # t \/ i # j
    <3>1. Same(u, i)
      BY <1>18, <2>2, Elsewhere
    <3>2. open' = open /\ hidden' = hidden
      BY <1>18, UnstoredHere
    <3> QED BY <3>1, <3>2 DEF Same
  <2> QED BY <2>1, <2>2
<1> QED
  BY <1>1, <1>2, <1>3, <1>4, <1>5, <1>6, <1>7, <1>8, <1>9, <1>10, <1>11, <1>12, <1>13, <1>14, <1>15, <1>16, <1>17, <1>18 DEF Next, Run

\* A job gets its mark when it is created and loses it when it is saved.
LEMMA StepSessions ==
  ASSUME TypeOK, Sessions, SavedOnce, [Next]_vars
  PROVE  Sessions'
<1> USE DEF Sessions, page, loops, view
<1>1. ASSUME NEW j \in Job, ServerMoves(j) PROVE Sessions'
  BY <1>1, ServerStep DEF ServerMoves, TypeOK
<1>2. ASSUME NEW t \in Tab, Load(t) PROVE Sessions'
  BY <1>2 DEF Load, TypeOK
<1>3. ASSUME NEW t \in Tab, Close(t) PROVE Sessions'
  BY <1>3 DEF Close, TypeOK
<1>4. ASSUME NEW t \in Tab, Hide(t) PROVE Sessions'
  BY <1>4 DEF Hide, TypeOK
<1>5. ASSUME NEW t \in Tab, Show(t) PROVE Sessions'
  BY <1>5 DEF Show, Followed, TypeOK
<1>6. ASSUME NEW t \in Tab, Clear(t) PROVE Sessions'
  BY <1>6 DEF Clear, TypeOK
<1>7. ASSUME NEW t \in Tab, NEW j \in Job, Submit(t, j) PROVE Sessions'
  <2>1. server[j] = "none" /\ saves' = saves
    BY <1>7 DEF Submit
  <2>2. saves[j] = 0
    <3>1. saves[j] \in Nat BY DEF TypeOK
    <3> QED BY <2>1, <3>1 DEF SavedOnce
  <2>4. \A u \in Tab : j \notin session[u]
    BY <2>1
  <2>3. /\ \A u \in Tab, i \in Job : i \in session'[u] => i \in session[u] \/ (u = t /\ i = j)
        /\ \A i \in Job : server'[i] = IF i = j THEN "queued" ELSE server[i]
    BY <1>7 DEF Submit, TypeOK
  <2>5. \A u \in Tab, i \in Job :
          i \in session'[u] => server'[i] # "none" /\ saves'[i] = 0
    <3> SUFFICES ASSUME NEW u \in Tab, NEW i \in Job, i \in session'[u]
                 PROVE  server'[i] # "none" /\ saves'[i] = 0
      OBVIOUS
    <3>1. CASE i = j BY <2>1, <2>2, <2>3, <3>1
    <3>2. CASE i # j
      <4>1. i \in session[u] /\ server'[i] = server[i] BY <2>3, <3>2
      <4> QED BY <2>1, <4>1
    <3> QED BY <3>1, <3>2
  <2>6. ASSUME NEW u \in Tab, NEW v \in Tab, NEW i \in Job,
               i \in session'[u], i \in session'[v]
        PROVE  u = v
    <3>1. CASE i = j
      <4>1. i \notin session[u] /\ i \notin session[v] BY <2>4, <3>1
      <4> QED BY <2>3, <2>6, <4>1
    <3>2. CASE i # j
      <4>1. i \in session[u] /\ i \in session[v] BY <2>3, <2>6, <3>2
      <4> QED BY <4>1
    <3> QED BY <3>1, <3>2
  <2> QED BY <2>5, <2>6
<1>8. ASSUME NEW t \in Tab, NEW j \in Job, MarkExpired(t, j) PROVE Sessions'
  BY <1>8 DEF MarkExpired, TypeOK
<1>9. ASSUME NEW t \in Tab, NEW j \in Job, NEW n \in Poller, Answers(t, j, n) PROVE Sessions'
  BY <1>9 DEF Answers, TypeOK
<1>10. ASSUME NEW t \in Tab, NEW j \in Job, NEW n \in Poller, GivesUp(t, j, n) PROVE Sessions'
  BY <1>10 DEF GivesUp, Stale, TypeOK
<1>11. ASSUME NEW t \in Tab, NEW j \in Job, NEW n \in Poller, Wakes(t, j, n) PROVE Sessions'
  BY <1>11 DEF Wakes, Stale, TypeOK
<1>12. ASSUME NEW t \in Tab, NEW j \in Job, NEW n \in Poller, ArrivesMissing(t, j, n) PROVE Sessions'
  <2>1. server' = server /\ saves' = saves /\ session' = session
    BY <1>12, MissingHere
  <2> QED BY <2>1
<1>13. ASSUME NEW t \in Tab, NEW j \in Job, NEW n \in Poller, ArrivesError(t, j, n) PROVE Sessions'
  <2>1. server' = server /\ saves' = saves /\ session' = session
    BY <1>13, ErrorHere
  <2> QED BY <2>1
<1>14. ASSUME NEW t \in Tab, NEW j \in Job, NEW n \in Poller, ArrivesGood(t, j, n) PROVE Sessions'
  BY <1>14 DEF ArrivesGood, Stale, TypeOK
<1>15. ASSUME NEW t \in Tab, NEW j \in Job, NEW n \in Poller, BodyGarbled(t, j, n) PROVE Sessions'
  <2>1. server' = server /\ saves' = saves /\ session' = session
    BY <1>15, GarbledHere
  <2> QED BY <2>1
<1>16. ASSUME NEW t \in Tab, NEW j \in Job, NEW n \in Poller, BodyRead(t, j, n) PROVE Sessions'
  <2>1. /\ \A u \in Tab : session'[u] \subseteq session[u]
        /\ server' = server
    BY <1>16, ReadHere DEF BodyRead, AutoSave, TypeOK
  <2>2. \/ saves' = saves
        \/ /\ j \in session[t] /\ j \notin session'[t] /\ got[t][j][n] = "completed"
           /\ saves' = [saves EXCEPT ![j] = saves[j] + 1]
    BY <1>16 DEF BodyRead, AutoSave, TypeOK
  <2> QED BY <2>1, <2>2 DEF TypeOK
<1>17. ASSUME UNCHANGED vars PROVE Sessions'
  BY <1>17 DEF vars, TypeOK
<1>18. ASSUME NEW t \in Tab, NEW j \in Job, NEW n \in Poller, Unstored(t, j, n) PROVE Sessions'
  <2>1. server' = server /\ saves' = saves /\ session' = session
    BY <1>18, UnstoredHere
  <2> QED BY <2>1
<1> QED
  BY <1>1, <1>2, <1>3, <1>4, <1>5, <1>6, <1>7, <1>8, <1>9, <1>10, <1>11, <1>12, <1>13, <1>14, <1>15, <1>16, <1>17, <1>18 DEF Next, Run

\* A save needs the mark, and takes it away.
LEMMA StepSaved ==
  ASSUME TypeOK, Sessions, Truthful, SavedOnce, [Next]_vars
  PROVE  SavedOnce'
<1> USE DEF SavedOnce, page, loops, view
<1>1. ASSUME NEW j \in Job, ServerMoves(j) PROVE SavedOnce'
  BY <1>1, ServerStep DEF ServerMoves, TypeOK
<1>2. ASSUME NEW t \in Tab, Load(t) PROVE SavedOnce'
  BY <1>2 DEF Load, TypeOK
<1>3. ASSUME NEW t \in Tab, Close(t) PROVE SavedOnce'
  BY <1>3 DEF Close, TypeOK
<1>4. ASSUME NEW t \in Tab, Hide(t) PROVE SavedOnce'
  BY <1>4 DEF Hide, TypeOK
<1>5. ASSUME NEW t \in Tab, Show(t) PROVE SavedOnce'
  BY <1>5 DEF Show, Followed, TypeOK
<1>6. ASSUME NEW t \in Tab, Clear(t) PROVE SavedOnce'
  BY <1>6 DEF Clear, TypeOK
<1>7. ASSUME NEW t \in Tab, NEW j \in Job, Submit(t, j) PROVE SavedOnce'
  <2>1. server[j] = "none" /\ saves' = saves
    BY <1>7 DEF Submit
  <2>2. \A i \in Job : server'[i] = IF i = j THEN "queued" ELSE server[i]
    BY <1>7 DEF Submit, TypeOK
  <2> QED BY <2>1, <2>2
<1>8. ASSUME NEW t \in Tab, NEW j \in Job, MarkExpired(t, j) PROVE SavedOnce'
  BY <1>8 DEF MarkExpired, TypeOK
<1>9. ASSUME NEW t \in Tab, NEW j \in Job, NEW n \in Poller, Answers(t, j, n) PROVE SavedOnce'
  BY <1>9 DEF Answers, TypeOK
<1>10. ASSUME NEW t \in Tab, NEW j \in Job, NEW n \in Poller, GivesUp(t, j, n) PROVE SavedOnce'
  BY <1>10 DEF GivesUp, Stale, TypeOK
<1>11. ASSUME NEW t \in Tab, NEW j \in Job, NEW n \in Poller, Wakes(t, j, n) PROVE SavedOnce'
  BY <1>11 DEF Wakes, Stale, TypeOK
<1>12. ASSUME NEW t \in Tab, NEW j \in Job, NEW n \in Poller, ArrivesMissing(t, j, n) PROVE SavedOnce'
  <2>1. server' = server /\ saves' = saves /\ session' = session
    BY <1>12, MissingHere
  <2> QED BY <2>1
<1>13. ASSUME NEW t \in Tab, NEW j \in Job, NEW n \in Poller, ArrivesError(t, j, n) PROVE SavedOnce'
  <2>1. server' = server /\ saves' = saves /\ session' = session
    BY <1>13, ErrorHere
  <2> QED BY <2>1
<1>14. ASSUME NEW t \in Tab, NEW j \in Job, NEW n \in Poller, ArrivesGood(t, j, n) PROVE SavedOnce'
  BY <1>14 DEF ArrivesGood, Stale, TypeOK
<1>15. ASSUME NEW t \in Tab, NEW j \in Job, NEW n \in Poller, BodyGarbled(t, j, n) PROVE SavedOnce'
  <2>1. server' = server /\ saves' = saves /\ session' = session
    BY <1>15, GarbledHere
  <2> QED BY <2>1
<1>16. ASSUME NEW t \in Tab, NEW j \in Job, NEW n \in Poller, BodyRead(t, j, n) PROVE SavedOnce'
  <2>1. /\ \A u \in Tab : session'[u] \subseteq session[u]
        /\ server' = server
    BY <1>16, ReadHere DEF BodyRead, AutoSave, TypeOK
  <2>2. \/ saves' = saves
        \/ /\ j \in session[t] /\ j \notin session'[t] /\ got[t][j][n] = "completed"
           /\ saves' = [saves EXCEPT ![j] = saves[j] + 1]
    BY <1>16 DEF BodyRead, AutoSave, TypeOK
  <2>3. got[t][j][n] = "completed" => server[j] \in {"completed", "gone"}
    BY DEF Truthful
  <2>4. j \in session[t] => saves[j] = 0
    BY DEF Sessions
  <2>5. saves \in [Job -> Nat]
    BY DEF TypeOK
  <2>6. CASE saves' = saves
    BY <2>1, <2>6
  <2>7. CASE saves' # saves
    BY <2>1, <2>2, <2>3, <2>4, <2>5, <2>7
  <2> QED BY <2>6, <2>7
<1>17. ASSUME UNCHANGED vars PROVE SavedOnce'
  BY <1>17 DEF vars, TypeOK
<1>18. ASSUME NEW t \in Tab, NEW j \in Job, NEW n \in Poller, Unstored(t, j, n) PROVE SavedOnce'
  <2>1. server' = server /\ saves' = saves /\ session' = session
    BY <1>18, UnstoredHere
  <2> QED BY <2>1
<1> QED
  BY <1>1, <1>2, <1>3, <1>4, <1>5, <1>6, <1>7, <1>8, <1>9, <1>10, <1>11, <1>12, <1>13, <1>14, <1>15, <1>16, <1>17, <1>18 DEF Next, Run

\* The server goes on from completed to gone only.
LEMMA StepTruthful ==
  ASSUME TypeOK, Truthful, [Next]_vars
  PROVE  Truthful'
<1> USE DEF Truthful, page, loops, view
<1>1. ASSUME NEW j \in Job, ServerMoves(j) PROVE Truthful'
  <2>1. got' = got
    BY <1>1 DEF ServerMoves, loops
  <2>2. \A i \in Job : server[i] \in {"completed", "gone"} => server'[i] \in {"completed", "gone"}
    BY <1>1, ServerStep
  <2> QED BY <2>1, <2>2
<1>2. ASSUME NEW t \in Tab, Load(t) PROVE Truthful'
  <2>1. got' = got
    BY <1>2 DEF Load, BeginPolls
  <2>2. \A i \in Job : server[i] # "none" => server'[i] = server[i]
    BY <1>2 DEF Load, TypeOK
  <2> QED BY <2>1, <2>2
<1>3. ASSUME NEW t \in Tab, Close(t) PROVE Truthful'
  BY <1>3 DEF Close, TypeOK
<1>4. ASSUME NEW t \in Tab, Hide(t) PROVE Truthful'
  BY <1>4 DEF Hide, TypeOK
<1>5. ASSUME NEW t \in Tab, Show(t) PROVE Truthful'
  <2>1. got' = got
    BY <1>5 DEF Show, BeginPolls
  <2>2. \A i \in Job : server[i] # "none" => server'[i] = server[i]
    BY <1>5 DEF Show, TypeOK
  <2> QED BY <2>1, <2>2
<1>6. ASSUME NEW t \in Tab, Clear(t) PROVE Truthful'
  BY <1>6 DEF Clear, TypeOK
<1>7. ASSUME NEW t \in Tab, NEW j \in Job, Submit(t, j) PROVE Truthful'
  <2>1. got' = got
    BY <1>7 DEF Submit, BeginPolls
  <2>2. \A i \in Job : server[i] # "none" => server'[i] = server[i]
    BY <1>7 DEF Submit, TypeOK
  <2> QED BY <2>1, <2>2
<1>8. ASSUME NEW t \in Tab, NEW j \in Job, MarkExpired(t, j) PROVE Truthful'
  BY <1>8 DEF MarkExpired, TypeOK
<1>9. ASSUME NEW t \in Tab, NEW j \in Job, NEW n \in Poller, Answers(t, j, n) PROVE Truthful'
  <2>1. server' = server
    BY <1>9 DEF Answers
  <2>2. \A u \in Tab, i \in Job, m \in Poller : IF u = t /\ i = j /\ m = n
          THEN got'[u][i][m] \in {"error", "missing", server[j]} ELSE got'[u][i][m] = got[u][i][m]
    BY <1>9, RepliesAre DEF Answers, TypeOK
  <2> QED BY <2>1, <2>2
<1>10. ASSUME NEW t \in Tab, NEW j \in Job, NEW n \in Poller, GivesUp(t, j, n) PROVE Truthful'
  <2>1. server' = server /\ (Ends(t, j, n) \/ GoesOn(t, j, n))
    BY <1>10 DEF GivesUp
  <2>2. \A u \in Tab, i \in Job, m \in Poller :
          got'[u][i][m] = "error" \/ got'[u][i][m] = got[u][i][m]
    BY <2>1, EndEffect DEF Ended
  <2> QED BY <2>1, <2>2
<1>11. ASSUME NEW t \in Tab, NEW j \in Job, NEW n \in Poller, Wakes(t, j, n) PROVE Truthful'
  BY <1>11 DEF Wakes, Stale, TypeOK
<1>12. ASSUME NEW t \in Tab, NEW j \in Job, NEW n \in Poller, ArrivesMissing(t, j, n) PROVE Truthful'
  <2>1. server' = server /\ (Ends(t, j, n) \/ GoesOn(t, j, n))
    BY <1>12, MissingHere
  <2>2. \A u \in Tab, i \in Job, m \in Poller :
          got'[u][i][m] = "error" \/ got'[u][i][m] = got[u][i][m]
    BY <2>1, EndEffect DEF Ended
  <2> QED BY <2>1, <2>2
<1>13. ASSUME NEW t \in Tab, NEW j \in Job, NEW n \in Poller, ArrivesError(t, j, n) PROVE Truthful'
  <2>1. server' = server /\ (Ends(t, j, n) \/ GoesOn(t, j, n))
    BY <1>13, ErrorHere
  <2>2. \A u \in Tab, i \in Job, m \in Poller :
          got'[u][i][m] = "error" \/ got'[u][i][m] = got[u][i][m]
    BY <2>1, EndEffect DEF Ended
  <2> QED BY <2>1, <2>2
<1>14. ASSUME NEW t \in Tab, NEW j \in Job, NEW n \in Poller, ArrivesGood(t, j, n) PROVE Truthful'
  BY <1>14 DEF ArrivesGood, Stale, TypeOK
<1>15. ASSUME NEW t \in Tab, NEW j \in Job, NEW n \in Poller, BodyGarbled(t, j, n) PROVE Truthful'
  <2>1. server' = server /\ (Ends(t, j, n) \/ GoesOn(t, j, n))
    BY <1>15, GarbledHere
  <2>2. \A u \in Tab, i \in Job, m \in Poller :
          got'[u][i][m] = "error" \/ got'[u][i][m] = got[u][i][m]
    BY <2>1, EndEffect DEF Ended
  <2> QED BY <2>1, <2>2
<1>16. ASSUME NEW t \in Tab, NEW j \in Job, NEW n \in Poller, BodyRead(t, j, n) PROVE Truthful'
  <2>1. server' = server /\ (Ends(t, j, n) \/ GoesOn(t, j, n))
    BY <1>16, ReadHere
  <2>2. \A u \in Tab, i \in Job, m \in Poller :
          got'[u][i][m] = "error" \/ got'[u][i][m] = got[u][i][m]
    BY <2>1, EndEffect DEF Ended
  <2> QED BY <2>1, <2>2
<1>17. ASSUME UNCHANGED vars PROVE Truthful'
  BY <1>17 DEF vars, TypeOK
<1>18. ASSUME NEW t \in Tab, NEW j \in Job, NEW n \in Poller, Unstored(t, j, n) PROVE Truthful'
  <2>1. server' = server /\ (Ends(t, j, n) \/ GoesOn(t, j, n))
    BY <1>18, UnstoredHere
  <2>2. \A u \in Tab, i \in Job, m \in Poller :
          got'[u][i][m] = "error" \/ got'[u][i][m] = got[u][i][m]
    BY <2>1, EndEffect DEF Ended
  <2> QED BY <2>1, <2>2
<1> QED
  BY <1>1, <1>2, <1>3, <1>4, <1>5, <1>6, <1>7, <1>8, <1>9, <1>10, <1>11, <1>12, <1>13, <1>14, <1>15, <1>16, <1>17, <1>18 DEF Next, Run

\* Only a run that reads a good answer comes to a body.
LEMMA StepGrounded ==
  ASSUME TypeOK, Grounded, [Next]_vars
  PROVE  Grounded'
<1> USE DEF Grounded, page, loops, view
<1>1. ASSUME NEW j \in Job, ServerMoves(j) PROVE Grounded'
  BY <1>1 DEF ServerMoves, TypeOK
<1>2. ASSUME NEW t \in Tab, Load(t) PROVE Grounded'
  <2>1. BeginPolls(t, {k \in Job : history[k] = "queued"})
    BY <1>2 DEF Load
  <2>2. got' = got
    BY <2>1 DEF BeginPolls
  <2>3. \A u \in Tab, i \in Job, m \in Poller :
          at'[u][i][m] # "body" \/ at'[u][i][m] = at[u][i][m]
    BY <2>1 DEF BeginPolls
  <2> QED BY <2>2, <2>3
<1>3. ASSUME NEW t \in Tab, Close(t) PROVE Grounded'
  BY <1>3 DEF Close, TypeOK
<1>4. ASSUME NEW t \in Tab, Hide(t) PROVE Grounded'
  BY <1>4 DEF Hide, TypeOK
<1>5. ASSUME NEW t \in Tab, Show(t) PROVE Grounded'
  <2>1. BeginPolls(t, Followed(t))
    BY <1>5 DEF Show
  <2>2. got' = got
    BY <2>1 DEF BeginPolls
  <2>3. \A u \in Tab, i \in Job, m \in Poller :
          at'[u][i][m] # "body" \/ at'[u][i][m] = at[u][i][m]
    BY <2>1 DEF BeginPolls
  <2> QED BY <2>2, <2>3
<1>6. ASSUME NEW t \in Tab, Clear(t) PROVE Grounded'
  BY <1>6 DEF Clear, TypeOK
<1>7. ASSUME NEW t \in Tab, NEW j \in Job, Submit(t, j) PROVE Grounded'
  <2>1. BeginPolls(t, {j})
    BY <1>7 DEF Submit
  <2>2. got' = got
    BY <2>1 DEF BeginPolls
  <2>3. \A u \in Tab, i \in Job, m \in Poller :
          at'[u][i][m] # "body" \/ at'[u][i][m] = at[u][i][m]
    BY <2>1 DEF BeginPolls
  <2> QED BY <2>2, <2>3
<1>8. ASSUME NEW t \in Tab, NEW j \in Job, MarkExpired(t, j) PROVE Grounded'
  BY <1>8 DEF MarkExpired, TypeOK
<1>9. ASSUME NEW t \in Tab, NEW j \in Job, NEW n \in Poller, Answers(t, j, n) PROVE Grounded'
  <2> SUFFICES ASSUME NEW u \in Tab, NEW i \in Job, NEW m \in Poller, at'[u][i][m] = "body"
               PROVE  got'[u][i][m] \in Status
    OBVIOUS
  <2>1. at[u][i][m] = "body" /\ (u # t \/ i # j \/ m # n)
    BY <1>9 DEF Answers, TypeOK
  <2>2. got'[u][i][m] = got[u][i][m]
    BY <1>9, <2>1 DEF Answers, TypeOK
  <2> QED BY <2>1, <2>2
<1>10. ASSUME NEW t \in Tab, NEW j \in Job, NEW n \in Poller, GivesUp(t, j, n) PROVE Grounded'
  <2>1. Ends(t, j, n) \/ GoesOn(t, j, n)
    BY <1>10 DEF GivesUp
  <2>2. \A u \in Tab, i \in Job, m \in Poller :
          \/ at'[u][i][m] # "body"
          \/ at'[u][i][m] = at[u][i][m] /\ got'[u][i][m] = got[u][i][m]
    BY <2>1, EndEffect DEF Ended
  <2> QED BY <2>2
<1>11. ASSUME NEW t \in Tab, NEW j \in Job, NEW n \in Poller, Wakes(t, j, n) PROVE Grounded'
  BY <1>11 DEF Wakes, Stale, TypeOK
<1>12. ASSUME NEW t \in Tab, NEW j \in Job, NEW n \in Poller, ArrivesMissing(t, j, n) PROVE Grounded'
  <2>1. Ends(t, j, n) \/ GoesOn(t, j, n)
    BY <1>12, MissingHere
  <2>2. \A u \in Tab, i \in Job, m \in Poller :
          \/ at'[u][i][m] # "body"
          \/ at'[u][i][m] = at[u][i][m] /\ got'[u][i][m] = got[u][i][m]
    BY <2>1, EndEffect DEF Ended
  <2> QED BY <2>2
<1>13. ASSUME NEW t \in Tab, NEW j \in Job, NEW n \in Poller, ArrivesError(t, j, n) PROVE Grounded'
  <2>1. Ends(t, j, n) \/ GoesOn(t, j, n)
    BY <1>13, ErrorHere
  <2>2. \A u \in Tab, i \in Job, m \in Poller :
          \/ at'[u][i][m] # "body"
          \/ at'[u][i][m] = at[u][i][m] /\ got'[u][i][m] = got[u][i][m]
    BY <2>1, EndEffect DEF Ended
  <2> QED BY <2>2
<1>14. ASSUME NEW t \in Tab, NEW j \in Job, NEW n \in Poller, ArrivesGood(t, j, n) PROVE Grounded'
  BY <1>14 DEF ArrivesGood, Stale, TypeOK
<1>15. ASSUME NEW t \in Tab, NEW j \in Job, NEW n \in Poller, BodyGarbled(t, j, n) PROVE Grounded'
  <2>1. Ends(t, j, n) \/ GoesOn(t, j, n)
    BY <1>15, GarbledHere
  <2>2. \A u \in Tab, i \in Job, m \in Poller :
          \/ at'[u][i][m] # "body"
          \/ at'[u][i][m] = at[u][i][m] /\ got'[u][i][m] = got[u][i][m]
    BY <2>1, EndEffect DEF Ended
  <2> QED BY <2>2
<1>16. ASSUME NEW t \in Tab, NEW j \in Job, NEW n \in Poller, BodyRead(t, j, n) PROVE Grounded'
  <2>1. Ends(t, j, n) \/ GoesOn(t, j, n)
    BY <1>16, ReadHere
  <2>2. \A u \in Tab, i \in Job, m \in Poller :
          \/ at'[u][i][m] # "body"
          \/ at'[u][i][m] = at[u][i][m] /\ got'[u][i][m] = got[u][i][m]
    BY <2>1, EndEffect DEF Ended
  <2> QED BY <2>2
<1>17. ASSUME UNCHANGED vars PROVE Grounded'
  BY <1>17 DEF vars, TypeOK
<1>18. ASSUME NEW t \in Tab, NEW j \in Job, NEW n \in Poller, Unstored(t, j, n) PROVE Grounded'
  <2>1. Ends(t, j, n) \/ GoesOn(t, j, n)
    BY <1>18, UnstoredHere
  <2>2. \A u \in Tab, i \in Job, m \in Poller :
          \/ at'[u][i][m] # "body"
          \/ at'[u][i][m] = at[u][i][m] /\ got'[u][i][m] = got[u][i][m]
    BY <2>1, EndEffect DEF Ended
  <2> QED BY <2>2
<1> QED
  BY <1>1, <1>2, <1>3, <1>4, <1>5, <1>6, <1>7, <1>8, <1>9, <1>10, <1>11, <1>12, <1>13, <1>14, <1>15, <1>16, <1>17, <1>18 DEF Next, Run

\* A poller that is paused, replaced or removed in whatever phase of a round
\* leaves an entry behind that is not in flight, is noted, or has another poller.
LEMMA StepFollowers ==
  ASSUME TypeOK, Closed, Followers, [Next]_vars
  PROVE  Followers'
<1> USE DEF Followers, page, loops, view
<1>1. ASSUME NEW j \in Job, ServerMoves(j) PROVE Followers'
  BY <1>1 DEF ServerMoves, TypeOK
<1>2. ASSUME NEW t \in Tab, Load(t) PROVE Followers'
  <2> SUFFICES ASSUME NEW u \in Tab, NEW i \in Job,
                      open'[u], shown'[u][i] = "queued", i \notin note'[u], i \notin adrift'[u]
               PROVE  /\ poller'[u][i] # 0 /\ job'[u][i] = "queued"
                      /\ hidden'[u] \/ at'[u][i][poller'[u][i]] # "idle"
    OBVIOUS
  <2> DEFINE js == {k \in Job : history[k] = "queued"}
  <2>1. js \in SUBSET Job /\ Begun(t, js)
    BY <1>2, BeginEffect DEF Load
  <2>2. /\ ~ open[t] /\ UNCHANGED <<note, adrift>>
        /\ \A v \in Tab : v # t => hidden'[v] = hidden[v] /\ open'[v] = open[v]
        /\ \A v \in Tab, k \in Job :
             IF v = t /\ k \in js THEN job'[v][k] = "queued"
             ELSE job'[v][k] = job[v][k] /\ shown'[v][k] = shown[v][k]
    BY <1>2 DEF Load, TypeOK
  <2> HIDE DEF js
  <2>3. CASE u = t /\ i \in js
    <3>1. poller'[u][i] # 0 /\ at'[u][i][poller'[u][i]] = "sent"
      BY <2>1, <2>3, Bounds DEF Begun, Poller
    <3>2. job'[u][i] = "queued"
      BY <2>2, <2>3
    <3> QED BY <3>1, <3>2
  <2>4. CASE u # t \/ i \notin js
    <3>1. poller'[u][i] = poller[u][i] /\ \A m \in Poller : at'[u][i][m] = at[u][i][m]
      BY <2>1, <2>4 DEF Begun
    <3>2. poller[u][i] # 0 => poller[u][i] \in Poller
      BY PollerInUse
    <3>3. u # t
      BY <2>2, <2>4 DEF Closed
    <3> QED BY <2>2, <3>1, <3>2, <3>3
  <2> QED BY <2>3, <2>4
<1>3. ASSUME NEW t \in Tab, Close(t) PROVE Followers'
  <2> SUFFICES ASSUME NEW u \in Tab, NEW i \in Job,
                      open'[u], shown'[u][i] = "queued", i \notin note'[u], i \notin adrift'[u]
               PROVE  /\ poller'[u][i] # 0 /\ job'[u][i] = "queued"
                      /\ hidden'[u] \/ at'[u][i][poller'[u][i]] # "idle"
    OBVIOUS
  <2>1. u # t
    BY <1>3 DEF Close, TypeOK
  <2>2. /\ open'[u] = open[u] /\ hidden'[u] = hidden[u] /\ poller'[u] = poller[u]
        /\ at'[u] = at[u] /\ job'[u] = job[u] /\ shown'[u] = shown[u]
        /\ note'[u] = note[u] /\ adrift'[u] = adrift[u]
    BY <1>3, <2>1 DEF Close, TypeOK
  <2> QED BY <2>2
<1>4. ASSUME NEW t \in Tab, Hide(t) PROVE Followers'
  <2> SUFFICES ASSUME NEW u \in Tab, NEW i \in Job,
                      open'[u], shown'[u][i] = "queued", i \notin note'[u], i \notin adrift'[u]
               PROVE  /\ poller'[u][i] # 0 /\ job'[u][i] = "queued"
                      /\ hidden'[u] \/ at'[u][i][poller'[u][i]] # "idle"
    OBVIOUS
  <2>1. UNCHANGED <<open, poller, job, shown, note, adrift>>
    BY <1>4 DEF Hide
  <2>2. CASE u = t
    BY <1>4, <2>1, <2>2 DEF Hide, TypeOK
  <2>3. CASE u # t
    BY <1>4, <2>1, <2>3 DEF Hide, TypeOK
  <2> QED BY <2>2, <2>3
<1>5. ASSUME NEW t \in Tab, Show(t) PROVE Followers'
  <2> SUFFICES ASSUME NEW u \in Tab, NEW i \in Job,
                      open'[u], shown'[u][i] = "queued", i \notin note'[u], i \notin adrift'[u]
               PROVE  /\ poller'[u][i] # 0 /\ job'[u][i] = "queued"
                      /\ hidden'[u] \/ at'[u][i][poller'[u][i]] # "idle"
    OBVIOUS
  <2> DEFINE js == Followed(t)
  <2>1. js \in SUBSET Job /\ Begun(t, js)
    BY <1>5, BeginEffect DEF Show, Followed
  <2>2. /\ UNCHANGED <<open, note, adrift, job, shown>>
        /\ \A v \in Tab : v # t => hidden'[v] = hidden[v]
    BY <1>5 DEF Show, TypeOK
  <2>5. \A k \in Job : k \in js <=> poller[t][k] # 0 /\ job[t][k] = "queued"
    BY DEF Followed
  <2> HIDE DEF js
  <2>3. CASE u = t /\ i \in js
    <3>1. poller'[u][i] # 0 /\ at'[u][i][poller'[u][i]] = "sent"
      BY <2>1, <2>3, Bounds DEF Begun, Poller
    <3>2. job'[u][i] = "queued"
      BY <2>2, <2>3, <2>5
    <3> QED BY <3>1, <3>2
  <2>4. CASE u # t \/ i \notin js
    <3>1. poller'[u][i] = poller[u][i] /\ \A m \in Poller : at'[u][i][m] = at[u][i][m]
      BY <2>1, <2>4 DEF Begun
    <3>2. poller[u][i] # 0 => poller[u][i] \in Poller
      BY PollerInUse
    <3>3. u # t
      BY <2>2, <2>4, <2>5
    <3> QED BY <2>2, <3>1, <3>2, <3>3
  <2> QED BY <2>3, <2>4
<1>6. ASSUME NEW t \in Tab, Clear(t) PROVE Followers'
  BY <1>6 DEF Clear, TypeOK
<1>7. ASSUME NEW t \in Tab, NEW j \in Job, Submit(t, j) PROVE Followers'
  <2> SUFFICES ASSUME NEW u \in Tab, NEW i \in Job,
                      open'[u], shown'[u][i] = "queued", i \notin note'[u], i \notin adrift'[u]
               PROVE  /\ poller'[u][i] # 0 /\ job'[u][i] = "queued"
                      /\ hidden'[u] \/ at'[u][i][poller'[u][i]] # "idle"
    OBVIOUS
  <2> DEFINE js == {j}
  <2>1. js \in SUBSET Job /\ Begun(t, js)
    BY <1>7, BeginEffect DEF Submit
  <2>2. /\ UNCHANGED <<open, hidden, note, adrift>>
        /\ \A v \in Tab, k \in Job :
             IF v = t /\ k \in js THEN job'[v][k] = "queued"
             ELSE job'[v][k] = job[v][k] /\ shown'[v][k] = shown[v][k]
    BY <1>7 DEF Submit, TypeOK
  <2> HIDE DEF js
  <2>3. CASE u = t /\ i \in js
    <3>1. poller'[u][i] # 0 /\ at'[u][i][poller'[u][i]] = "sent"
      BY <2>1, <2>3, Bounds DEF Begun, Poller
    <3>2. job'[u][i] = "queued"
      BY <2>2, <2>3
    <3> QED BY <3>1, <3>2
  <2>4. CASE u # t \/ i \notin js
    <3>1. poller'[u][i] = poller[u][i] /\ \A m \in Poller : at'[u][i][m] = at[u][i][m]
      BY <2>1, <2>4 DEF Begun
    <3>2. poller[u][i] # 0 => poller[u][i] \in Poller
      BY PollerInUse
    <3> QED BY <2>2, <2>4, <3>1, <3>2
  <2> QED BY <2>3, <2>4
<1>8. ASSUME NEW t \in Tab, NEW j \in Job, MarkExpired(t, j) PROVE Followers'
  <2> SUFFICES ASSUME NEW u \in Tab, NEW i \in Job,
                      open'[u], shown'[u][i] = "queued", i \notin note'[u], i \notin adrift'[u]
               PROVE  /\ poller'[u][i] # 0 /\ job'[u][i] = "queued"
                      /\ hidden'[u] \/ at'[u][i][poller'[u][i]] # "idle"
    OBVIOUS
  <2>1. UNCHANGED <<open, hidden, poller, at, job, note, adrift>>
    BY <1>8 DEF MarkExpired
  <2>2. shown[u][i] = "queued"
    BY <1>8 DEF MarkExpired, TypeOK
  <2> QED BY <2>1, <2>2
<1>9. ASSUME NEW t \in Tab, NEW j \in Job, NEW n \in Poller, Answers(t, j, n) PROVE Followers'
  <2> SUFFICES ASSUME NEW u \in Tab, NEW i \in Job,
                      open'[u], shown'[u][i] = "queued", i \notin note'[u], i \notin adrift'[u]
               PROVE  /\ poller'[u][i] # 0 /\ job'[u][i] = "queued"
                      /\ hidden'[u] \/ at'[u][i][poller'[u][i]] # "idle"
    OBVIOUS
  <2>1. UNCHANGED <<open, hidden, poller, job, shown, note, adrift>>
    BY <1>9 DEF Answers
  <2>2. \A m \in Poller : at'[u][i][m] = at[u][i][m] \/ at'[u][i][m] # "idle"
    BY <1>9 DEF Answers, TypeOK
  <2>3. poller[u][i] # 0 => poller[u][i] \in Poller
    BY PollerInUse
  <2> QED BY <2>1, <2>2, <2>3
<1>10. ASSUME NEW t \in Tab, NEW j \in Job, NEW n \in Poller, GivesUp(t, j, n) PROVE Followers'
  <2> SUFFICES ASSUME NEW u \in Tab, NEW i \in Job,
                      open'[u], shown'[u][i] = "queued", i \notin note'[u], i \notin adrift'[u]
               PROVE  /\ poller'[u][i] # 0 /\ job'[u][i] = "queued"
                      /\ hidden'[u] \/ at'[u][i][poller'[u][i]] # "idle"
    OBVIOUS
  <2>1. /\ Ends(t, j, n) /\ poller[t][j] # n
        /\ UNCHANGED <<open, hidden, poller, job, shown, note, adrift>>
    BY <1>10 DEF GivesUp, Stale
  <2>2. poller[u][i] # 0 => poller[u][i] \in Poller
    BY PollerInUse
  <2>3. poller[u][i] # 0 => at'[u][i][poller[u][i]] = at[u][i][poller[u][i]]
    <3>1. Ended(t, j, n) BY <2>1, EndEffect
    <3> QED BY <2>1, <2>2, <3>1 DEF Ended
  <2> QED BY <2>1, <2>3
<1>11. ASSUME NEW t \in Tab, NEW j \in Job, NEW n \in Poller, Wakes(t, j, n) PROVE Followers'
  <2> SUFFICES ASSUME NEW u \in Tab, NEW i \in Job,
                      open'[u], shown'[u][i] = "queued", i \notin note'[u], i \notin adrift'[u]
               PROVE  /\ poller'[u][i] # 0 /\ job'[u][i] = "queued"
                      /\ hidden'[u] \/ at'[u][i][poller'[u][i]] # "idle"
    OBVIOUS
  <2>1. UNCHANGED <<open, hidden, poller, job, shown, note, adrift>>
    BY <1>11 DEF Wakes
  <2>2. \A m \in Poller : at'[u][i][m] = at[u][i][m] \/ at'[u][i][m] # "idle"
    BY <1>11 DEF Wakes, TypeOK
  <2>3. poller[u][i] # 0 => poller[u][i] \in Poller
    BY PollerInUse
  <2> QED BY <2>1, <2>2, <2>3
<1>12. ASSUME NEW t \in Tab, NEW j \in Job, NEW n \in Poller, ArrivesMissing(t, j, n) PROVE Followers'
  <2> SUFFICES ASSUME NEW u \in Tab, NEW i \in Job,
                      open'[u], shown'[u][i] = "queued", i \notin note'[u], i \notin adrift'[u]
               PROVE  /\ poller'[u][i] # 0 /\ job'[u][i] = "queued"
                      /\ hidden'[u] \/ at'[u][i][poller'[u][i]] # "idle"
    OBVIOUS
  <2>1. CASE u = t /\ i = j
    <3>1. poller' = poller /\ GoesOn(t, j, n) /\ job' = job /\ poller[t][j] = n
      BY <1>12, <2>1, MissingHere
    <3>2. open' = open /\ hidden' = hidden /\ shown' = shown /\ note' = note /\ adrift' = adrift
      BY <1>12, <2>1, MissingHere
    <3>3. ~ hidden[t] => at'[t][j][n] = "timer"
      BY <3>1, EndEffect DEF Ended
    <3> QED BY <2>1, <3>1, <3>2, <3>3
  <2>2. CASE u # t \/ i # j
    <3>1. Same(u, i)
      BY <1>12, <2>2, Elsewhere
    <3>2. open' = open /\ hidden' = hidden
      BY <1>12, MissingHere
    <3>3. poller[u][i] \in 0 .. MaxPollers
      BY DEF TypeOK
    <3> QED BY <3>1, <3>2, <3>3, Bounds DEF Same, Poller
  <2> QED BY <2>1, <2>2
<1>13. ASSUME NEW t \in Tab, NEW j \in Job, NEW n \in Poller, ArrivesError(t, j, n) PROVE Followers'
  <2> SUFFICES ASSUME NEW u \in Tab, NEW i \in Job,
                      open'[u], shown'[u][i] = "queued", i \notin note'[u], i \notin adrift'[u]
               PROVE  /\ poller'[u][i] # 0 /\ job'[u][i] = "queued"
                      /\ hidden'[u] \/ at'[u][i][poller'[u][i]] # "idle"
    OBVIOUS
  <2>1. CASE u = t /\ i = j
    <3>1. poller' = poller /\ GoesOn(t, j, n) /\ job' = job /\ poller[t][j] = n
      BY <1>13, <2>1, ErrorHere
    <3>2. open' = open /\ hidden' = hidden /\ shown' = shown /\ note' = note /\ adrift' = adrift
      BY <1>13, <2>1, ErrorHere
    <3>3. ~ hidden[t] => at'[t][j][n] = "timer"
      BY <3>1, EndEffect DEF Ended
    <3> QED BY <2>1, <3>1, <3>2, <3>3
  <2>2. CASE u # t \/ i # j
    <3>1. Same(u, i)
      BY <1>13, <2>2, Elsewhere
    <3>2. open' = open /\ hidden' = hidden
      BY <1>13, ErrorHere
    <3>3. poller[u][i] \in 0 .. MaxPollers
      BY DEF TypeOK
    <3> QED BY <3>1, <3>2, <3>3, Bounds DEF Same, Poller
  <2> QED BY <2>1, <2>2
<1>14. ASSUME NEW t \in Tab, NEW j \in Job, NEW n \in Poller, ArrivesGood(t, j, n) PROVE Followers'
  <2> SUFFICES ASSUME NEW u \in Tab, NEW i \in Job,
                      open'[u], shown'[u][i] = "queued", i \notin note'[u], i \notin adrift'[u]
               PROVE  /\ poller'[u][i] # 0 /\ job'[u][i] = "queued"
                      /\ hidden'[u] \/ at'[u][i][poller'[u][i]] # "idle"
    OBVIOUS
  <2>1. UNCHANGED <<open, hidden, poller, job, shown, note, adrift>>
    BY <1>14 DEF ArrivesGood
  <2>2. \A m \in Poller : at'[u][i][m] = at[u][i][m] \/ at'[u][i][m] # "idle"
    BY <1>14 DEF ArrivesGood, TypeOK
  <2>3. poller[u][i] # 0 => poller[u][i] \in Poller
    BY PollerInUse
  <2> QED BY <2>1, <2>2, <2>3
<1>15. ASSUME NEW t \in Tab, NEW j \in Job, NEW n \in Poller, BodyGarbled(t, j, n) PROVE Followers'
  <2> SUFFICES ASSUME NEW u \in Tab, NEW i \in Job,
                      open'[u], shown'[u][i] = "queued", i \notin note'[u], i \notin adrift'[u]
               PROVE  /\ poller'[u][i] # 0 /\ job'[u][i] = "queued"
                      /\ hidden'[u] \/ at'[u][i][poller'[u][i]] # "idle"
    OBVIOUS
  <2>1. CASE u = t /\ i = j
    BY <1>15, <2>1, GarbledHere
  <2>2. CASE u # t \/ i # j
    <3>1. Same(u, i)
      BY <1>15, <2>2, Elsewhere
    <3>2. open' = open /\ hidden' = hidden
      BY <1>15, GarbledHere
    <3>3. poller[u][i] \in 0 .. MaxPollers
      BY DEF TypeOK
    <3> QED BY <3>1, <3>2, <3>3, Bounds DEF Same, Poller
  <2> QED BY <2>1, <2>2
<1>16. ASSUME NEW t \in Tab, NEW j \in Job, NEW n \in Poller, BodyRead(t, j, n) PROVE Followers'
  <2> SUFFICES ASSUME NEW u \in Tab, NEW i \in Job,
                      open'[u], shown'[u][i] = "queued", i \notin note'[u], i \notin adrift'[u]
               PROVE  /\ poller'[u][i] # 0 /\ job'[u][i] = "queued"
                      /\ hidden'[u] \/ at'[u][i][poller'[u][i]] # "idle"
    OBVIOUS
  <2>1. CASE u = t /\ i = j
    <3>1. /\ got[t][j][n] = "queued" /\ poller[t][j] = n /\ job'[t][j] = "queued"
          /\ poller' = poller /\ GoesOn(t, j, n) /\ hidden' = hidden
      BY <1>16, <2>1, ReadHere
    <3>2. ~ hidden[t] => at'[t][j][n] = "timer"
      BY <3>1, EndEffect DEF Ended
    <3>3. n # 0
      BY Bounds DEF Poller
    <3> QED BY <2>1, <3>1, <3>2, <3>3
  <2>2. CASE u # t \/ i # j
    <3>1. Same(u, i)
      BY <1>16, <2>2, Elsewhere
    <3>2. open' = open /\ hidden' = hidden
      BY <1>16, ReadHere
    <3>3. poller[u][i] \in 0 .. MaxPollers
      BY DEF TypeOK
    <3> QED BY <3>1, <3>2, <3>3, Bounds DEF Same, Poller
  <2> QED BY <2>1, <2>2
<1>17. ASSUME UNCHANGED vars PROVE Followers'
  BY <1>17 DEF vars, TypeOK
<1>18. ASSUME NEW t \in Tab, NEW j \in Job, NEW n \in Poller, Unstored(t, j, n) PROVE Followers'
  <2> SUFFICES ASSUME NEW u \in Tab, NEW i \in Job,
                      open'[u], shown'[u][i] = "queued", i \notin note'[u], i \notin adrift'[u]
               PROVE  /\ poller'[u][i] # 0 /\ job'[u][i] = "queued"
                      /\ hidden'[u] \/ at'[u][i][poller'[u][i]] # "idle"
    OBVIOUS
  <2>1. u # t \/ i # j
    BY <1>18, UnstoredHere
  <2>2. Same(u, i)
    BY <1>18, <2>1, Elsewhere
  <2>3. open' = open /\ hidden' = hidden
    BY <1>18, UnstoredHere
  <2>4. poller[u][i] \in 0 .. MaxPollers
    BY DEF TypeOK
  <2> QED BY <2>2, <2>3, <2>4, Bounds DEF Same, Poller
<1> QED
  BY <1>1, <1>2, <1>3, <1>4, <1>5, <1>6, <1>7, <1>8, <1>9, <1>10, <1>11, <1>12, <1>13, <1>14, <1>15, <1>16, <1>17, <1>18 DEF Next, Run

-----------------------------------------------------------------------------
LEMMA InvNext == Inv /\ [Next]_vars => Inv'
BY StepTypes, StepPatience, StepClosed, StepSessions, StepSaved, StepTruthful,
   StepGrounded, StepFollowers DEF Inv

LEMMA Invariance == Spec => []Inv
<1>1. Init => Inv BY InvInit
<1>2. Inv /\ [Next]_vars => Inv' BY InvNext
<1> QED BY <1>1, <1>2, PTL DEF Spec

-----------------------------------------------------------------------------
(* What a page, and the history all pages share, say of a job.             *)

\* What has to be true of a job of which a is said.  "expired" is not among
\* it: a page says so after MAX_POLL_FAILURES answers 404, which the server
\* also gives for a transient error.
Warrants(a, s) ==
  /\ a = "completed" => s \in {"completed", "gone"}
  /\ a = "failed" => s \in {"failed", "gone"}
  /\ a = "queued" => s # "none"

\* Nothing is shown or remembered that the job did not do,
Told ==
  \A t \in Tab, j \in Job :
    Warrants(shown[t][j], server[j]) /\ Warrants(history[j], server[j])

\* as nothing was heard that it did not do: the answer a run still holds was
\* true when it was sent, and the job only goes on from there.
Heard ==
  \A t \in Tab, j \in Job :
    Warrants(job[t][j], server[j]) /\ \A n \in Poller : Warrants(got[t][j][n], server[j])

\* What was said of a job stays warranted as it goes on; it may be submitted.
Onward ==
  \A j \in Job, a \in Answer \union Status \union {"absent"} :
    Warrants(a, server[j]) => Warrants(a, server'[j])

LEMMA ServerOnward ==
  ASSUME TypeOK, NEW j \in Job, ServerMoves(j)
  PROVE  Onward
<1>1. PICK s \in Becomes(server[j]) : server' = [server EXCEPT ![j] = s]
  BY DEF ServerMoves
<1>2. \/ server[j] = "queued" /\ s \in {"completed", "failed"}
      \/ server[j] \in {"completed", "failed"} /\ s = "gone"
  BY <1>1 DEF Becomes, Terminal, TypeOK, State
<1>3. server'[j] = s /\ \A i \in Job : i # j => server'[i] = server[i]
  BY <1>1 DEF TypeOK
<1> QED BY <1>2, <1>3 DEF Onward, Warrants

\* Where everything that is said or heard after a step comes from.
Sources(t, j) ==
  /\ \/ shown'[t][j] \in {shown[t][j], "absent", "expired", job[t][j]}
     \/ shown'[t][j] = "queued" /\ server'[j] # "none"
     \/ \E n \in Poller : shown'[t][j] = got[t][j][n]
  /\ \/ history'[j] \in {history[j], "absent", "expired"}
     \/ history'[j] = "queued" /\ server'[j] # "none"
     \/ \E u \in Tab, n \in Poller : history'[j] = got[u][j][n]
  /\ \/ job'[t][j] \in {job[t][j], "expired"}
     \/ job'[t][j] = "queued" /\ server'[j] # "none"
     \/ \E n \in Poller : job'[t][j] = got[t][j][n]
  /\ \A n \in Poller : got'[t][j][n] \in {got[t][j][n], "error", "missing", server[j]}

\* What comes from such sources is warranted.
LEMMA SourcesSuffice ==
  ASSUME TypeOK, Heard, Told, Onward, \A t \in Tab, j \in Job : Sources(t, j)
  PROVE  (Heard /\ Told)'
<1>1. /\ shown \in [Tab -> [Job -> Status \union {"absent"}]]
      /\ history \in [Job -> Status \union {"absent"}]
      /\ job \in [Tab -> [Job -> Status]] /\ got \in [Tab -> [Job -> [Poller -> Answer]]]
      /\ server \in [Job -> State]
  BY DEF TypeOK
<1>2. ASSUME NEW t \in Tab, NEW j \in Job
      PROVE  /\ Warrants(shown[t][j], server'[j]) /\ Warrants(history[j], server'[j])
             /\ Warrants(job[t][j], server'[j])
             /\ \A u \in Tab, n \in Poller : Warrants(got[u][j][n], server'[j])
  <2>1. /\ shown[t][j] \in Status \union {"absent"} /\ history[j] \in Status \union {"absent"}
        /\ job[t][j] \in Status /\ \A u \in Tab, n \in Poller : got[u][j][n] \in Answer
    BY <1>1
  <2> QED BY <2>1 DEF Heard, Told, Onward
<1>3. ASSUME NEW j \in Job PROVE Warrants(server[j], server'[j])
  <2>1. Warrants(server[j], server[j]) BY DEF Warrants
  <2>2. CASE server[j] \in Answer BY <2>1, <2>2 DEF Onward
  <2>3. CASE server[j] \notin Answer BY <1>1, <2>3 DEF State, Answer, Warrants
  <2> QED BY <2>2, <2>3
<1>4. \A s : /\ Warrants("absent", s) /\ Warrants("expired", s) /\ Warrants("error", s)
             /\ Warrants("missing", s) /\ (s # "none" => Warrants("queued", s))
  BY DEF Warrants
<1>5. ASSUME NEW t \in Tab, NEW j \in Job
      PROVE  /\ Warrants(shown'[t][j], server'[j]) /\ Warrants(history'[j], server'[j])
             /\ Warrants(job'[t][j], server'[j])
             /\ \A n \in Poller : Warrants(got'[t][j][n], server'[j])
  <2>1. Sources(t, j) OBVIOUS
  <2>2. Warrants(shown'[t][j], server'[j]) BY <1>2, <1>4, <2>1 DEF Sources
  <2>3. Warrants(history'[j], server'[j]) BY <1>2, <1>4, <2>1 DEF Sources
  <2>4. Warrants(job'[t][j], server'[j]) BY <1>2, <1>4, <2>1 DEF Sources
  <2>5. \A n \in Poller : Warrants(got'[t][j][n], server'[j])
    BY <1>2, <1>3, <1>4, <2>1 DEF Sources
  <2> QED BY <2>2, <2>3, <2>4, <2>5
<1> QED BY <1>5 DEF Heard, Told

\* The steps of a run: the entry is written from its own answer.
LEMMA RunSources ==
  ASSUME TypeOK, NEW t \in Tab, NEW j \in Job, NEW n \in Poller, Run(t, j, n),
         NEW u \in Tab, NEW i \in Job
  PROVE  server' = server /\ Sources(u, i)
<1>1. CASE Answers(t, j, n)
  <2>1. PICK a \in Replies(server[j]) : got' = [got EXCEPT ![t][j][n] = a]
    BY <1>1 DEF Answers
  <2>2. a \in {"error", "missing", server[j]}
    BY <2>1, RepliesAre DEF TypeOK
  <2>3. \A m \in Poller : got'[u][i][m] \in {got[u][i][m], "error", "missing", server[i]}
    BY <2>1, <2>2 DEF TypeOK
  <2> QED BY <1>1, <2>3 DEF Answers, view, Sources
<1>2. CASE GivesUp(t, j, n)
  <2>1. Ended(t, j, n) BY <1>2, EndEffect DEF GivesUp
  <2>2. \A m \in Poller : got'[u][i][m] \in {got[u][i][m], "error"} BY <2>1 DEF Ended
  <2> QED BY <1>2, <2>2 DEF GivesUp, view, Sources
<1>3. CASE Wakes(t, j, n) BY <1>3 DEF Wakes, view, Sources
<1>4. CASE ArrivesGood(t, j, n) BY <1>4 DEF ArrivesGood, view, Sources
<1>5. CASE ArrivesMissing(t, j, n)
  <2>1. server' = server /\ Ended(t, j, n) BY <1>5, MissingHere, EndEffect
  <2>2. \A m \in Poller : got'[u][i][m] \in {got[u][i][m], "error"} BY <2>1 DEF Ended
  <2>3. /\ shown'[u][i] \in {shown[u][i], "expired"} /\ job'[u][i] \in {job[u][i], "expired"}
        /\ history'[i] \in {history[i], "expired"}
    BY <1>5 DEF ArrivesMissing, view, TypeOK
  <2> QED BY <2>1, <2>2, <2>3 DEF Sources
<1>6. CASE ArrivesError(t, j, n)
  <2>1. server' = server /\ job' = job /\ Ended(t, j, n) BY <1>6, ErrorHere, EndEffect
  <2>2. \A m \in Poller : got'[u][i][m] \in {got[u][i][m], "error"} BY <2>1 DEF Ended
  <2>3. history' = history /\ (shown' = shown \/ ShowFailure(t, j, job[t][j]))
    BY <1>6 DEF ArrivesError
  <2>4. shown'[u][i] \in {shown[u][i], job[u][i]}
    <3>1. CASE shown' = shown BY <3>1
    <3>2. CASE ShowFailure(t, j, job[t][j])
      <4>1. shown \in [Tab -> [Job -> Status \union {"absent"}]] BY DEF TypeOK
      <4>2. shown' = [shown EXCEPT ![t][j] = job[t][j]] BY <3>2 DEF ShowFailure
      <4> QED BY <4>1, <4>2
    <3> QED BY <2>3, <3>1, <3>2
  <2> QED BY <2>1, <2>2, <2>3, <2>4 DEF Sources
<1>7. CASE BodyGarbled(t, j, n)
  <2>1. server' = server /\ Ended(t, j, n) BY <1>7, GarbledHere, EndEffect
  <2>2. \A m \in Poller : got'[u][i][m] \in {got[u][i][m], "error"} BY <2>1 DEF Ended
  <2>3. shown'[u][i] \in {shown[u][i], job[u][i]} /\ history' = history /\ job' = job
    BY <1>7 DEF BodyGarbled, ShowFailure, TypeOK
  <2> QED BY <2>1, <2>2, <2>3 DEF Sources
<1>8. CASE BodyRead(t, j, n)
  <2>1. server' = server /\ Ended(t, j, n) BY <1>8, ReadHere, EndEffect
  <2>2. \A m \in Poller : got'[u][i][m] \in {got[u][i][m], "error"} BY <2>1 DEF Ended
  <2>3. IF u = t /\ i = j THEN shown'[u][i] = got[t][j][n] /\ job'[u][i] = got[t][j][n]
        ELSE shown'[u][i] = shown[u][i] /\ job'[u][i] = job[u][i]
    BY <1>8 DEF BodyRead, TypeOK
  <2>4. IF i = j THEN history'[i] = got[t][j][n] ELSE history'[i] = history[i]
    BY <1>8 DEF BodyRead, TypeOK
  <2> QED BY <2>1, <2>2, <2>3, <2>4 DEF Sources
<1>9. CASE Unstored(t, j, n)
  <2>1. server' = server /\ history' = history /\ Ended(t, j, n) BY <1>9, UnstoredHere, EndEffect
  <2>2. \A m \in Poller : got'[u][i][m] \in {got[u][i][m], "error"} BY <2>1 DEF Ended
  <2>3. CASE u = t /\ i = j
    <3>1. /\ job'[t][j] \in {got[t][j][n], "expired"}
          /\ shown'[t][j] \in {shown[t][j], got[t][j][n], "expired"}
      BY <1>9, UnstoredHere
    <3> QED BY <2>1, <2>2, <2>3, <3>1 DEF Sources
  <2>4. CASE u # t \/ i # j
    <3>1. Same(u, i)
      BY <1>9, <2>4, Elsewhere
    <3> QED BY <2>1, <2>2, <3>1 DEF Same, Sources
  <2> QED BY <2>3, <2>4
<1> QED BY <1>1, <1>2, <1>3, <1>4, <1>5, <1>6, <1>7, <1>8, <1>9 DEF Run

LEMMA StepHeard ==
  ASSUME TypeOK, Heard, Told, [Next]_vars
  PROVE  (Heard /\ Told)'
<1> USE DEF page, loops, view
<1>0. server' = server => Onward
  BY DEF Onward
<1> SUFFICES ASSUME TRUE PROVE Onward /\ \A u \in Tab, i \in Job : Sources(u, i)
  BY SourcesSuffice
<1>1. ASSUME NEW j \in Job, ServerMoves(j)
      PROVE  Onward /\ \A u \in Tab, i \in Job : Sources(u, i)
  BY <1>1, ServerOnward DEF ServerMoves, Sources
<1>2. ASSUME NEW t \in Tab, Load(t)
      PROVE  Onward /\ \A u \in Tab, i \in Job : Sources(u, i)
  <2>1. server' = server /\ history' = history /\ got' = got
    BY <1>2 DEF Load, BeginPolls
  <2>2. \A u \in Tab, i \in Job :
          \/ shown'[u][i] = shown[u][i] /\ job'[u][i] = job[u][i]
          \/ /\ history[i] = "queued"
             /\ shown'[u][i] = "queued" /\ job'[u][i] = "queued"
    BY <1>2 DEF Load, TypeOK
  <2>3. \A i \in Job : history[i] = "queued" => server'[i] # "none"
    BY <1>2, <2>1 DEF Told, Warrants
  <2> QED BY <1>0, <2>1, <2>2, <2>3 DEF Sources
<1>3. ASSUME NEW t \in Tab, Close(t)
      PROVE  Onward /\ \A u \in Tab, i \in Job : Sources(u, i)
  <2>1. server' = server /\ history' = history
    BY <1>3 DEF Close
  <2>2. \A u \in Tab, i \in Job :
          /\ shown'[u][i] \in {shown[u][i], "absent"} /\ job'[u][i] \in {job[u][i], "expired"}
          /\ \A n \in Poller : got'[u][i][n] \in {got[u][i][n], "error"}
    BY <1>3 DEF Close, TypeOK
  <2> QED BY <1>0, <2>1, <2>2 DEF Sources
<1>4. ASSUME NEW t \in Tab, Hide(t) \/ Show(t) \/ Clear(t)
      PROVE  Onward /\ \A u \in Tab, i \in Job : Sources(u, i)
  <2>1. /\ server' = server /\ shown' = shown /\ job' = job /\ got' = got
        /\ \A i \in Job : history'[i] \in {history[i], "absent"}
    BY <1>4 DEF Hide, Show, Clear, BeginPolls
  <2> QED BY <1>0, <2>1 DEF Sources
<1>5. ASSUME NEW t \in Tab, NEW j \in Job, Submit(t, j)
      PROVE  Onward /\ \A u \in Tab, i \in Job : Sources(u, i)
  <2>1. /\ server[j] = "none" /\ server'[j] = "queued" /\ got' = got
        /\ \A i \in Job : i # j => server'[i] = server[i] /\ history'[i] = history[i]
        /\ history'[j] = "queued"
    BY <1>5 DEF Submit, BeginPolls, TypeOK
  <2>2. \A u \in Tab, i \in Job :
          \/ shown'[u][i] = shown[u][i] /\ job'[u][i] = job[u][i]
          \/ i = j /\ shown'[u][i] = "queued" /\ job'[u][i] = "queued"
    BY <1>5 DEF Submit, TypeOK
  <2>3. Onward BY <2>1 DEF Onward, Warrants
  <2> QED BY <2>1, <2>2, <2>3 DEF Sources
<1>6. ASSUME NEW t \in Tab, NEW j \in Job, MarkExpired(t, j)
      PROVE  Onward /\ \A u \in Tab, i \in Job : Sources(u, i)
  <2>1. server' = server /\ job' = job /\ got' = got
    BY <1>6 DEF MarkExpired
  <2>2. /\ \A i \in Job : history'[i] \in {history[i], "expired"}
        /\ \A u \in Tab, i \in Job : shown'[u][i] \in {shown[u][i], "absent", "expired"}
    BY <1>6 DEF MarkExpired, TypeOK
  <2> QED BY <1>0, <2>1, <2>2 DEF Sources
<1>7. ASSUME NEW t \in Tab, NEW j \in Job, NEW n \in Poller, Run(t, j, n)
      PROVE  Onward /\ \A u \in Tab, i \in Job : Sources(u, i)
  BY <1>0, <1>7, RunSources
<1>8. ASSUME UNCHANGED vars
      PROVE  Onward /\ \A u \in Tab, i \in Job : Sources(u, i)
  BY <1>0, <1>8 DEF vars, Sources
<1> QED BY <1>1, <1>2, <1>3, <1>4, <1>5, <1>6, <1>7, <1>8 DEF Next

-----------------------------------------------------------------------------
(* The theorems.                                                           *)

\* Every variable stays in its type; the counts of failures never exceed
\* MAX_POLL_FAILURES.
THEOREM TypeCorrectness == Spec => []TypeOK
<1>1. Inv => TypeOK BY DEF Inv
<1> QED BY <1>1, Invariance, PTL

\* A visible page polls every job it shows as in flight, unless it shows that
\* polling failed, the run of a replaced poller wrote the entry, or the browser
\* refused to store it
\* (convert.svelte.ts: poll and the listener of visibilitychange).
THEOREM VisiblePagesPoll == Spec => []Watched
<1>1. Inv => Watched BY DEF Inv, Followers, Watched, Polls
<1> QED BY <1>1, Invariance, PTL

\* A job is saved automatically at most once, and only after it was complete
\* (convert.svelte.ts: maybeAutoSave).
THEOREM JobsAreSavedOnce == Spec => []SavedOnce
<1>1. Inv => SavedOnce BY DEF Inv
<1> QED BY <1>1, Invariance, PTL

\* No page and no history says of a job that it was accepted, completed or
\* failed unless it was: neither answers read late, after their poller was
\* replaced, nor pages loaded from the shared history, nor the history cleared
\* meanwhile make up an outcome (convert.svelte.ts: poll; jobs.svelte.ts).
THEOREM OutcomesAreTrue == Spec => []Told
<1>1. Init => Heard /\ Told BY DEF Init, Heard, Told, Warrants
<1>2. TypeOK /\ (Heard /\ Told) /\ [Next]_vars => (Heard /\ Told)' BY StepHeard
<1>3. Spec => []TypeOK BY TypeCorrectness
<1> QED BY <1>1, <1>2, <1>3, PTL DEF Spec
=============================================================================
