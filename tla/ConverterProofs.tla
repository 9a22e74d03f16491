-------------------------- MODULE ConverterProofs ---------------------------
(***************************************************************************)
(* What Converter's run checks of the slots, the budgets and the drain,    *)
(* proved for any number of jobs and attempts and for every limit.         *)
(***************************************************************************)
EXTENDS Converter, FiniteSetTheorems, TLAPS

-----------------------------------------------------------------------------
(* The inductive invariant.                                                *)

\* A fetching job is in one of its attempts, and no thread of a later attempt
\* exists.
Numbered ==
  /\ \A j \in Job : step[j] = "fetching" => attempt[j] \in 1 .. MaxAttempts
  /\ \A r \in Request : r[2] > attempt[r[1]] => thread[r] = "none"

\* A process that is down runs no thread.
DownIsIdle == process = "down" => \A r \in Request : ~Live(r)

\* The types, in two parts.
WorkerTypes ==
  /\ step \in [Job -> {"idle", "fetching", "failing", "done", "failed"}]
  /\ attempt \in [Job -> 0 .. MaxAttempts]
  /\ left \in [Job -> 0 .. FetchBudget]
ThreadTypes ==
  /\ thread \in [Request -> Labels]
  /\ outcome \in [Request -> {"none", "ok", "rejected", "error", "timeout", "busy"}]
  /\ budget \in [Request -> 0 .. LongestBudget]
  /\ gaveUp \subseteq Request
  /\ late \subseteq Request
  /\ underway \subseteq Request
ProcessTypes ==
  /\ process \in {"up", "draining", "closing", "down"}
  /\ drain \in 0 .. DrainWindow
  /\ stops \in 0 .. MaxStops

\* The budget never outlasts a fetch that has spent no more than the margin, nor
\* the drain.
LEMMA Bounds ==
  /\ MaxAttempts \in Nat /\ MaxAttempts >= 1
  /\ FetchBudget \in Nat /\ FetchBudget >= 1
  /\ LongestBudget \in Nat /\ DrainWindow \in Nat
  /\ Slots \in Nat /\ UploadSlots \in Nat /\ MaxStops \in Nat
  /\ Margin \in Nat /\ Margin < FetchBudget
  /\ \A r \in Request : /\ Budget(r) \in 0 .. LongestBudget
                        /\ Budget(r) <= FetchBudget - Margin
                        /\ Budget(r) < DrainWindow
<1>1. /\ MaxAttempts \in Nat \ {0} /\ FetchBudget \in Nat \ {0} /\ Ceiling \in Nat \ {0}
      /\ UploadCeiling \in Nat \ {0} /\ DrainSlack \in Nat \ {0}
      /\ Slots \in Nat \ {0} /\ UploadSlots \in Nat \ {0}
      /\ MaxStops \in Nat /\ Margin \in 0 .. FetchBudget - 1
  BY BudgetAssumption
<1>2. FetchBudget - Margin < Ceiling + DrainSlack
  BY WindowAssumption
<1> QED
  BY <1>1, <1>2 DEF Budget, LongestBudget, DrainWindow, Smaller, Larger

\* A request is a job and one of its attempts.
LEMMA Requests ==
  /\ \A r \in Request : r[1] \in Job /\ r[2] \in 1 .. MaxAttempts /\ r = <<r[1], r[2]>>
  /\ \A j \in Job, n \in 1 .. MaxAttempts : <<j, n>> \in Request
  BY DEF Request

\* Every step keeps the types of the workflow steps.
LEMMA WorkerTyped ==
  ASSUME WorkerTypes, [Next]_vars
  PROVE  WorkerTypes'
<1> USE DEF WorkerTypes, worker, handlers, semaphores, container, history
<1>1. ASSUME NEW j \in Job, Fetch(j) PROVE WorkerTypes'
  BY <1>1, Bounds DEF Fetch
<1>2. ASSUME NEW j \in Job, FetchRefused(j) PROVE WorkerTypes'
  BY <1>2, Bounds DEF FetchRefused
<1>3. ASSUME NEW j \in Job, FetchBreaks(j) PROVE WorkerTypes'
  BY <1>3, Bounds DEF FetchBreaks, AttemptFails, ResponseGone
<1>4. ASSUME NEW j \in Job, Respond(j) PROVE WorkerTypes'
  BY <1>4, Bounds DEF Respond, AttemptFails, ResponseGone
<1>5. ASSUME NEW j \in Job, FetchTimesOut(j) PROVE WorkerTypes'
  BY <1>5, Bounds DEF FetchTimesOut, AttemptFails, ResponseGone
<1>6. ASSUME NEW r \in Request, Finish(r) PROVE WorkerTypes'
  BY <1>6, Bounds DEF Finish, Become, End, Release
<1>7. ASSUME NEW r \in Request, Enter(r) PROVE WorkerTypes'
  BY <1>7, Bounds DEF Enter, Become, End
<1>8. ASSUME NEW r \in Request, ReadBody(r) PROVE WorkerTypes'
  BY <1>8, Bounds DEF ReadBody, Become, End
<1>9. ASSUME NEW r \in Request, Opened(r) PROVE WorkerTypes'
  BY <1>9, Bounds DEF Opened, Become, StartBudget
<1>10. ASSUME NEW r \in Request, Detected(r) PROVE WorkerTypes'
  BY <1>10, Bounds DEF Detected, Become, BudgetLeft
<1>11. ASSUME NEW r \in Request, TryUploadSlot(r) PROVE WorkerTypes'
  BY <1>11, Bounds DEF TryUploadSlot, Become, End
<1>12. ASSUME NEW r \in Request, Received(r) PROVE WorkerTypes'
  BY <1>12, Bounds DEF Received, Become, End, Release, StartBudget
<1>13. ASSUME NEW r \in Request, TimeOut(r) PROVE WorkerTypes'
  BY <1>13, Bounds DEF TimeOut, Become, End, Release
<1>14. ASSUME NEW r \in Request, GetSlot(r) PROVE WorkerTypes'
  BY <1>14, Bounds DEF GetSlot, Become
<1>15. ASSUME Tick PROVE WorkerTypes'
  BY <1>15, Bounds DEF Tick, Less, Larger
<1>16. ASSUME Drained PROVE WorkerTypes'
  BY <1>16, Bounds DEF Drained
<1>21. ASSUME MainReturns PROVE WorkerTypes'
  BY <1>21, Bounds DEF MainReturns, Exit
<1>17. ASSUME Crash PROVE WorkerTypes'
  BY <1>17, Bounds DEF Crash, Exit
<1>18. ASSUME Sigterm PROVE WorkerTypes'
  BY <1>18, Bounds DEF Sigterm
<1>19. ASSUME Restart PROVE WorkerTypes'
  BY <1>19, Bounds DEF Restart
<1>20. ASSUME UNCHANGED vars PROVE WorkerTypes'
  BY <1>20 DEF vars
<1> QED
  BY <1>1, <1>2, <1>3, <1>4, <1>5, <1>6, <1>7, <1>8, <1>9, <1>10, <1>11, <1>12, <1>13, <1>14, <1>15, <1>16, <1>21, <1>17, <1>18, <1>19, <1>20 DEF Next, Threads, Thread, Timers

\* Every step keeps the types of the handler threads.
LEMMA ThreadsTyped ==
  ASSUME WorkerTypes, ThreadTypes, Numbered, [Next]_vars
  PROVE  ThreadTypes'
<1> USE DEF WorkerTypes, ThreadTypes, Numbered, Labels, worker, handlers, semaphores, container, history
<1>1. ASSUME NEW j \in Job, Fetch(j) PROVE ThreadTypes'
  BY <1>1, Bounds, Requests DEF Fetch
<1>2. ASSUME NEW j \in Job, FetchRefused(j) PROVE ThreadTypes'
  BY <1>2, Bounds, Requests DEF FetchRefused
<1>3. ASSUME NEW j \in Job, FetchBreaks(j) PROVE ThreadTypes'
  BY <1>3, Bounds, Requests DEF FetchBreaks, AttemptFails, ResponseGone
<1>4. ASSUME NEW j \in Job, Respond(j) PROVE ThreadTypes'
  BY <1>4, Bounds, Requests DEF Respond, AttemptFails, ResponseGone
<1>5. ASSUME NEW j \in Job, FetchTimesOut(j) PROVE ThreadTypes'
  BY <1>5, Bounds, Requests DEF FetchTimesOut, AttemptFails, ResponseGone
<1>6. ASSUME NEW r \in Request, Finish(r) PROVE ThreadTypes'
  BY <1>6, Bounds, Requests DEF Finish, Become, End, Release
<1>7. ASSUME NEW r \in Request, Enter(r) PROVE ThreadTypes'
  BY <1>7, Bounds, Requests DEF Enter, Become, End
<1>8. ASSUME NEW r \in Request, ReadBody(r) PROVE ThreadTypes'
  <2>1. CASE End(r, "error")
    <3>1. UNCHANGED gaveUp
      BY <1>8 DEF ReadBody
    <3> QED
      BY <2>1, <3>1, Bounds DEF End, Become
  <2>2. CASE Become(r, "queued") /\ UNCHANGED <<outcome, budget, late, underway>>
    BY <1>8, <2>2 DEF ReadBody, Become
  <2> QED
    BY <1>8, <2>1, <2>2 DEF ReadBody
<1>9. ASSUME NEW r \in Request, Opened(r) PROVE ThreadTypes'
  BY <1>9, Bounds, Requests DEF Opened, Become, StartBudget
<1>10. ASSUME NEW r \in Request, Detected(r) PROVE ThreadTypes'
  BY <1>10, Bounds, Requests DEF Detected, Become, BudgetLeft
<1>11. ASSUME NEW r \in Request, TryUploadSlot(r) PROVE ThreadTypes'
  BY <1>11, Bounds, Requests DEF TryUploadSlot, Become, End
<1>12. ASSUME NEW r \in Request, Received(r) PROVE ThreadTypes'
  <2>1. CASE \E result \in {"rejected", "error"} : End(r, result)
    <3>1. UNCHANGED gaveUp
      BY <1>12 DEF Received
    <3> QED
      BY <2>1, <3>1, Bounds DEF End, Become
  <2>2. CASE Become(r, "converting") /\ StartBudget(r) /\ UNCHANGED <<outcome, underway>>
    <3>1. late' \subseteq Request /\ UNCHANGED <<gaveUp, underway>>
      BY <1>12, <2>2 DEF Received, StartBudget
    <3>2. budget' \in [Request -> 0 .. LongestBudget]
      BY <2>2, Bounds DEF StartBudget
    <3>3. thread' \in [Request -> Labels]
      BY <2>2 DEF Become, Labels
    <3> QED
      BY <2>2, <3>1, <3>2, <3>3 DEF Labels
  <2> QED
    BY <1>12, <2>1, <2>2 DEF Received
<1>13. ASSUME NEW r \in Request, TimeOut(r) PROVE ThreadTypes'
  BY <1>13, Bounds, Requests DEF TimeOut, Become, End, Release
<1>14. ASSUME NEW r \in Request, GetSlot(r) PROVE ThreadTypes'
  BY <1>14, Bounds, Requests DEF GetSlot, Become
<1>15. ASSUME Tick PROVE ThreadTypes'
  <2>1. \A r \in Request : budget[r] \in 0 .. LongestBudget /\ Less(budget[r]) \in 0 .. LongestBudget
    BY Bounds DEF Less, Larger
  <2> QED
    BY <1>15, <2>1 DEF Tick
<1>16. ASSUME Drained PROVE ThreadTypes'
  BY <1>16, Bounds, Requests DEF Drained
<1>21. ASSUME MainReturns PROVE ThreadTypes'
  BY <1>21, Bounds, Requests DEF MainReturns, Exit
<1>17. ASSUME Crash PROVE ThreadTypes'
  BY <1>17, Bounds, Requests DEF Crash, Exit
<1>18. ASSUME Sigterm PROVE ThreadTypes'
  BY <1>18, Bounds, Requests DEF Sigterm
<1>19. ASSUME Restart PROVE ThreadTypes'
  BY <1>19, Bounds, Requests DEF Restart
<1>20. ASSUME UNCHANGED vars PROVE ThreadTypes'
  BY <1>20 DEF vars
<1> QED
  BY <1>1, <1>2, <1>3, <1>4, <1>5, <1>6, <1>7, <1>8, <1>9, <1>10, <1>11, <1>12, <1>13, <1>14, <1>15, <1>16, <1>21, <1>17, <1>18, <1>19, <1>20 DEF Next, Threads, Thread, Timers

\* Every step keeps the types of the process.
LEMMA ProcessTyped ==
  ASSUME ProcessTypes, [Next]_vars
  PROVE  ProcessTypes'
<1> USE DEF ProcessTypes, worker, handlers, semaphores, container, history
<1>1. ASSUME NEW j \in Job, Fetch(j) PROVE ProcessTypes'
  BY <1>1, Bounds DEF Fetch
<1>2. ASSUME NEW j \in Job, FetchRefused(j) PROVE ProcessTypes'
  BY <1>2, Bounds DEF FetchRefused
<1>3. ASSUME NEW j \in Job, FetchBreaks(j) PROVE ProcessTypes'
  BY <1>3, Bounds DEF FetchBreaks, AttemptFails, ResponseGone
<1>4. ASSUME NEW j \in Job, Respond(j) PROVE ProcessTypes'
  BY <1>4, Bounds DEF Respond, AttemptFails, ResponseGone
<1>5. ASSUME NEW j \in Job, FetchTimesOut(j) PROVE ProcessTypes'
  BY <1>5, Bounds DEF FetchTimesOut, AttemptFails, ResponseGone
<1>6. ASSUME NEW r \in Request, Finish(r) PROVE ProcessTypes'
  BY <1>6, Bounds DEF Finish, Become, End, Release
<1>7. ASSUME NEW r \in Request, Enter(r) PROVE ProcessTypes'
  BY <1>7, Bounds DEF Enter, Become, End
<1>8. ASSUME NEW r \in Request, ReadBody(r) PROVE ProcessTypes'
  BY <1>8, Bounds DEF ReadBody, Become, End
<1>9. ASSUME NEW r \in Request, Opened(r) PROVE ProcessTypes'
  BY <1>9, Bounds DEF Opened, Become, StartBudget
<1>10. ASSUME NEW r \in Request, Detected(r) PROVE ProcessTypes'
  BY <1>10, Bounds DEF Detected, Become, BudgetLeft
<1>11. ASSUME NEW r \in Request, TryUploadSlot(r) PROVE ProcessTypes'
  BY <1>11, Bounds DEF TryUploadSlot, Become, End
<1>12. ASSUME NEW r \in Request, Received(r) PROVE ProcessTypes'
  BY <1>12, Bounds DEF Received, Become, End, Release, StartBudget
<1>13. ASSUME NEW r \in Request, TimeOut(r) PROVE ProcessTypes'
  BY <1>13, Bounds DEF TimeOut, Become, End, Release
<1>14. ASSUME NEW r \in Request, GetSlot(r) PROVE ProcessTypes'
  BY <1>14, Bounds DEF GetSlot, Become
<1>15. ASSUME Tick PROVE ProcessTypes'
  BY <1>15, Bounds DEF Tick, Less, Larger
<1>16. ASSUME Drained PROVE ProcessTypes'
  BY <1>16, Bounds DEF Drained
<1>21. ASSUME MainReturns PROVE ProcessTypes'
  BY <1>21, Bounds DEF MainReturns, Exit
<1>17. ASSUME Crash PROVE ProcessTypes'
  BY <1>17, Bounds DEF Crash, Exit
<1>18. ASSUME Sigterm PROVE ProcessTypes'
  BY <1>18, Bounds DEF Sigterm
<1>19. ASSUME Restart PROVE ProcessTypes'
  BY <1>19, Bounds DEF Restart
<1>20. ASSUME UNCHANGED vars PROVE ProcessTypes'
  BY <1>20 DEF vars
<1> QED
  BY <1>1, <1>2, <1>3, <1>4, <1>5, <1>6, <1>7, <1>8, <1>9, <1>10, <1>11, <1>12, <1>13, <1>14, <1>15, <1>16, <1>21, <1>17, <1>18, <1>19, <1>20 DEF Next, Threads, Thread, Timers

\* An attempt is the first to use its number.
LEMMA NumberedStep ==
  ASSUME WorkerTypes, ThreadTypes, Numbered, [Next]_vars
  PROVE  Numbered'
<1> USE DEF WorkerTypes, ThreadTypes, Numbered, worker, handlers, semaphores, container, history
<1>1. ASSUME NEW j \in Job, Fetch(j) PROVE Numbered'
  BY <1>1, Bounds, Requests DEF Fetch
<1>2. ASSUME NEW j \in Job, FetchRefused(j) PROVE Numbered'
  BY <1>2, Bounds, Requests DEF FetchRefused
<1>3. ASSUME NEW j \in Job, FetchBreaks(j) PROVE Numbered'
  BY <1>3, Bounds, Requests DEF FetchBreaks, AttemptFails, ResponseGone
<1>4. ASSUME NEW j \in Job, Respond(j) PROVE Numbered'
  BY <1>4, Bounds, Requests DEF Respond, AttemptFails, ResponseGone
<1>5. ASSUME NEW j \in Job, FetchTimesOut(j) PROVE Numbered'
  BY <1>5, Bounds, Requests DEF FetchTimesOut, AttemptFails, ResponseGone
<1>6. ASSUME NEW r \in Request, Finish(r) PROVE Numbered'
  BY <1>6, Bounds, Requests DEF Finish, Become, End, Release
<1>7. ASSUME NEW r \in Request, Enter(r) PROVE Numbered'
  BY <1>7, Bounds, Requests DEF Enter, Become, End
<1>8. ASSUME NEW r \in Request, ReadBody(r) PROVE Numbered'
  BY <1>8, Bounds, Requests DEF ReadBody, Become, End
<1>9. ASSUME NEW r \in Request, Opened(r) PROVE Numbered'
  BY <1>9, Bounds, Requests DEF Opened, Become, StartBudget
<1>10. ASSUME NEW r \in Request, Detected(r) PROVE Numbered'
  BY <1>10, Bounds, Requests DEF Detected, Become, BudgetLeft
<1>11. ASSUME NEW r \in Request, TryUploadSlot(r) PROVE Numbered'
  BY <1>11, Bounds, Requests DEF TryUploadSlot, Become, End
<1>12. ASSUME NEW r \in Request, Received(r) PROVE Numbered'
  BY <1>12, Bounds, Requests DEF Received, Become, End, Release, StartBudget
<1>13. ASSUME NEW r \in Request, TimeOut(r) PROVE Numbered'
  BY <1>13, Bounds, Requests DEF TimeOut, Become, End, Release
<1>14. ASSUME NEW r \in Request, GetSlot(r) PROVE Numbered'
  BY <1>14, Bounds, Requests DEF GetSlot, Become
<1>15. ASSUME Tick PROVE Numbered'
  BY <1>15, Bounds, Requests DEF Tick, Less, Larger
<1>16. ASSUME Drained PROVE Numbered'
  BY <1>16, Bounds, Requests DEF Drained
<1>21. ASSUME MainReturns PROVE Numbered'
  <2>1. UNCHANGED <<step, attempt>> /\ thread' = [r \in Request |-> IF Live(r) THEN "ended" ELSE thread[r]]
    BY <1>21 DEF MainReturns, Exit
  <2>2. \A r \in Request : thread[r] = "none" => thread'[r] = "none"
    BY <2>1 DEF Live
  <2> QED
    BY <2>1, <2>2
<1>17. ASSUME Crash PROVE Numbered'
  <2>1. UNCHANGED <<step, attempt>> /\ thread' = [r \in Request |-> IF Live(r) THEN "ended" ELSE thread[r]]
    BY <1>17 DEF Crash, Exit
  <2>2. \A r \in Request : thread[r] = "none" => thread'[r] = "none"
    BY <2>1 DEF Live
  <2> QED
    BY <2>1, <2>2
<1>18. ASSUME Sigterm PROVE Numbered'
  BY <1>18, Bounds, Requests DEF Sigterm
<1>19. ASSUME Restart PROVE Numbered'
  BY <1>19, Bounds, Requests DEF Restart
<1>20. ASSUME UNCHANGED vars PROVE Numbered'
  BY <1>20 DEF vars
<1> QED
  BY <1>1, <1>2, <1>3, <1>4, <1>5, <1>6, <1>7, <1>8, <1>9, <1>10, <1>11, <1>12, <1>13, <1>14, <1>15, <1>16, <1>21, <1>17, <1>18, <1>19, <1>20 DEF Next, Threads, Thread, Timers

\* A process that ends takes its threads along.
LEMMA DownStep ==
  ASSUME WorkerTypes, ThreadTypes, ProcessTypes, Numbered, DownIsIdle, [Next]_vars
  PROVE  DownIsIdle'
<1> USE DEF WorkerTypes, ThreadTypes, ProcessTypes, Numbered, DownIsIdle, Live, worker, handlers, semaphores, container, history
<1>1. ASSUME NEW j \in Job, Fetch(j) PROVE DownIsIdle'
  BY <1>1, Bounds, Requests DEF Fetch
<1>2. ASSUME NEW j \in Job, FetchRefused(j) PROVE DownIsIdle'
  BY <1>2, Bounds, Requests DEF FetchRefused
<1>3. ASSUME NEW j \in Job, FetchBreaks(j) PROVE DownIsIdle'
  BY <1>3, Bounds, Requests DEF FetchBreaks, AttemptFails, ResponseGone
<1>4. ASSUME NEW j \in Job, Respond(j) PROVE DownIsIdle'
  BY <1>4, Bounds, Requests DEF Respond, AttemptFails, ResponseGone
<1>5. ASSUME NEW j \in Job, FetchTimesOut(j) PROVE DownIsIdle'
  BY <1>5, Bounds, Requests DEF FetchTimesOut, AttemptFails, ResponseGone
<1>6. ASSUME NEW r \in Request, Finish(r) PROVE DownIsIdle'
  BY <1>6, Bounds, Requests DEF Finish, Become, End, Release
<1>7. ASSUME NEW r \in Request, Enter(r) PROVE DownIsIdle'
  BY <1>7, Bounds, Requests DEF Enter, Become, End
<1>8. ASSUME NEW r \in Request, ReadBody(r) PROVE DownIsIdle'
  BY <1>8, Bounds, Requests DEF ReadBody, Become, End
<1>9. ASSUME NEW r \in Request, Opened(r) PROVE DownIsIdle'
  BY <1>9, Bounds, Requests DEF Opened, Become, StartBudget
<1>10. ASSUME NEW r \in Request, Detected(r) PROVE DownIsIdle'
  BY <1>10, Bounds, Requests DEF Detected, Become, BudgetLeft
<1>11. ASSUME NEW r \in Request, TryUploadSlot(r) PROVE DownIsIdle'
  BY <1>11, Bounds, Requests DEF TryUploadSlot, Become, End
<1>12. ASSUME NEW r \in Request, Received(r) PROVE DownIsIdle'
  BY <1>12, Bounds, Requests DEF Received, Become, End, Release, StartBudget
<1>13. ASSUME NEW r \in Request, TimeOut(r) PROVE DownIsIdle'
  BY <1>13, Bounds, Requests DEF TimeOut, Become, End, Release
<1>14. ASSUME NEW r \in Request, GetSlot(r) PROVE DownIsIdle'
  BY <1>14, Bounds, Requests DEF GetSlot, Become
<1>15. ASSUME Tick PROVE DownIsIdle'
  BY <1>15, Bounds, Requests DEF Tick, Less, Larger
<1>16. ASSUME Drained PROVE DownIsIdle'
  BY <1>16, Bounds, Requests DEF Drained
<1>21. ASSUME MainReturns PROVE DownIsIdle'
  BY <1>21, Bounds, Requests DEF MainReturns, Exit
<1>17. ASSUME Crash PROVE DownIsIdle'
  BY <1>17, Bounds, Requests DEF Crash, Exit
<1>18. ASSUME Sigterm PROVE DownIsIdle'
  BY <1>18, Bounds, Requests DEF Sigterm
<1>19. ASSUME Restart PROVE DownIsIdle'
  BY <1>19, Bounds, Requests DEF Restart
<1>20. ASSUME UNCHANGED vars PROVE DownIsIdle'
  BY <1>20 DEF vars
<1> QED
  BY <1>1, <1>2, <1>3, <1>4, <1>5, <1>6, <1>7, <1>8, <1>9, <1>10, <1>11, <1>12, <1>13, <1>14, <1>15, <1>16, <1>21, <1>17, <1>18, <1>19, <1>20 DEF Next, Threads, Thread, Timers

CInv == WorkerTypes /\ ThreadTypes /\ ProcessTypes /\ Numbered /\ DownIsIdle

\* The inductive invariant holds in every reachable state.
THEOREM Invariance == Spec => []CInv
<1>1. Init => CInv
  BY Bounds, Requests DEF Init, CInv, WorkerTypes, ThreadTypes, ProcessTypes, Numbered, DownIsIdle, Labels
<1>2. CInv /\ [Next]_vars => CInv'
  BY WorkerTyped, ThreadsTyped, ProcessTyped, NumberedStep, DownStep DEF CInv
<1> QED
  BY <1>1, <1>2, PTL DEF Spec

-----------------------------------------------------------------------------
(* The slots.                                                              *)

\* A set of requests is finite.
LEMMA FiniteRequests == \A S \in SUBSET Request : IsFiniteSet(S) /\ Cardinality(S) \in Nat
<1>1. IsFiniteSet(1 .. MaxAttempts)
  BY Bounds, FS_Interval
<1>2. IsFiniteSet(Request)
  BY <1>1, JobAssumption, FS_Product DEF Request
<1> QED
  BY <1>2, FS_Subset, FS_CardinalityType

\* The threads that hold a slot of either kind.
HeldPages == {r \in Request : Holding(r) /\ ~IsUpload(r)}
HeldUploads == {r \in Request : Holding(r) /\ IsUpload(r)}

Agree ==
  process # "down" =>
    /\ free = Slots - Cardinality(HeldPages)
    /\ uploadFree = UploadSlots - Cardinality(HeldUploads)
Kinds ==
  \A r \in Request :
    /\ thread[r] \in {"queued", "opening", "detecting"} => ~IsUpload(r)
    /\ thread[r] = "receiving" => IsUpload(r)
SlotInv == Agree /\ Kinds

\* A slot is taken by, or returned by, one thread.
Takes(r) ==
  /\ r \in Request
  /\ UNCHANGED process
  /\ \/ /\ HeldPages' = HeldPages \union {r} /\ r \notin HeldPages /\ HeldUploads' = HeldUploads
        /\ free > 0 /\ free' = free - 1 /\ uploadFree' = uploadFree
     \/ /\ HeldUploads' = HeldUploads \union {r} /\ r \notin HeldUploads /\ HeldPages' = HeldPages
        /\ uploadFree > 0 /\ uploadFree' = uploadFree - 1 /\ free' = free
Returns(r) ==
  /\ r \in Request
  /\ UNCHANGED process
  /\ \/ /\ HeldPages' = HeldPages \ {r} /\ r \in HeldPages /\ HeldUploads' = HeldUploads
        /\ free' = free + 1 /\ uploadFree' = uploadFree
     \/ /\ HeldUploads' = HeldUploads \ {r} /\ r \in HeldUploads /\ HeldPages' = HeldPages
        /\ uploadFree' = uploadFree + 1 /\ free' = free
Leaves ==
  /\ UNCHANGED semaphores
  /\ process' # "down" =>
       process # "down" /\ HeldPages' = HeldPages /\ HeldUploads' = HeldUploads
Balanced == Leaves \/ (\E r \in Request : Takes(r) \/ Returns(r)) \/ Restart

\* Only an upload receives while it holds a slot, only a rendered page is queued.
LEMMA KindsStep ==
  ASSUME CInv, Kinds, [Next]_vars
  PROVE  Kinds'
<1> USE DEF CInv, WorkerTypes, ThreadTypes, Kinds, Numbered, IsUpload, worker, handlers, semaphores, container, history
<1>1. ASSUME NEW j \in Job, Fetch(j) PROVE Kinds'
  BY <1>1, Bounds, Requests DEF Fetch
<1>2. ASSUME NEW j \in Job, FetchRefused(j) PROVE Kinds'
  BY <1>2, Bounds, Requests DEF FetchRefused
<1>3. ASSUME NEW j \in Job, FetchBreaks(j) PROVE Kinds'
  BY <1>3, Bounds, Requests DEF FetchBreaks, AttemptFails, ResponseGone
<1>4. ASSUME NEW j \in Job, Respond(j) PROVE Kinds'
  BY <1>4, Bounds, Requests DEF Respond, AttemptFails, ResponseGone
<1>5. ASSUME NEW j \in Job, FetchTimesOut(j) PROVE Kinds'
  BY <1>5, Bounds, Requests DEF FetchTimesOut, AttemptFails, ResponseGone
<1>6. ASSUME NEW r \in Request, Finish(r) PROVE Kinds'
  BY <1>6, Bounds, Requests DEF Finish, Become, End, Release
<1>7. ASSUME NEW r \in Request, Enter(r) PROVE Kinds'
  BY <1>7, Bounds, Requests DEF Enter, Become, End
<1>8. ASSUME NEW r \in Request, ReadBody(r) PROVE Kinds'
  BY <1>8, Bounds, Requests DEF ReadBody, Become, End
<1>9. ASSUME NEW r \in Request, Opened(r) PROVE Kinds'
  BY <1>9, Bounds, Requests DEF Opened, Become, StartBudget
<1>10. ASSUME NEW r \in Request, Detected(r) PROVE Kinds'
  BY <1>10, Bounds, Requests DEF Detected, Become, BudgetLeft
<1>11. ASSUME NEW r \in Request, TryUploadSlot(r) PROVE Kinds'
  BY <1>11, Bounds, Requests DEF TryUploadSlot, Become, End
<1>12. ASSUME NEW r \in Request, Received(r) PROVE Kinds'
  BY <1>12, Bounds, Requests DEF Received, Become, End, Release, StartBudget
<1>13. ASSUME NEW r \in Request, TimeOut(r) PROVE Kinds'
  BY <1>13, Bounds, Requests DEF TimeOut, Become, End, Release
<1>14. ASSUME NEW r \in Request, GetSlot(r) PROVE Kinds'
  BY <1>14, Bounds, Requests DEF GetSlot, Become
<1>15. ASSUME Tick PROVE Kinds'
  BY <1>15, Bounds, Requests DEF Tick, Less, Larger
<1>16. ASSUME Drained PROVE Kinds'
  BY <1>16, Bounds, Requests DEF Drained
<1>21. ASSUME MainReturns PROVE Kinds'
  BY <1>21, Bounds, Requests DEF MainReturns, Exit
<1>17. ASSUME Crash PROVE Kinds'
  BY <1>17, Bounds, Requests DEF Crash, Exit
<1>18. ASSUME Sigterm PROVE Kinds'
  BY <1>18, Bounds, Requests DEF Sigterm
<1>19. ASSUME Restart PROVE Kinds'
  BY <1>19, Bounds, Requests DEF Restart
<1>20. ASSUME UNCHANGED vars PROVE Kinds'
  BY <1>20 DEF vars
<1> QED
  BY <1>1, <1>2, <1>3, <1>4, <1>5, <1>6, <1>7, <1>8, <1>9, <1>10, <1>11, <1>12, <1>13, <1>14, <1>15, <1>16, <1>21, <1>17, <1>18, <1>19, <1>20 DEF Next, Threads, Thread, Timers

\* A thread that ends and releases returns its slot.
LEMMA ReturnsSlot ==
  ASSUME CInv, NEW r \in Request, Holding(r), UNCHANGED process,
         thread' = [thread EXCEPT ![r] = "ended"], Release(r)
  PROVE  Returns(r)
<1>1. CASE IsUpload(r)
  <2>1. HeldUploads' = HeldUploads \ {r} /\ r \in HeldUploads
    BY <1>1 DEF HeldUploads, Holding, IsUpload, CInv, ThreadTypes
  <2>2. HeldPages' = HeldPages
    BY <1>1 DEF HeldPages, Holding, IsUpload, CInv, ThreadTypes
  <2> QED
    BY <1>1, <2>1, <2>2 DEF Release, Returns
<1>2. CASE ~IsUpload(r)
  <2>1. HeldPages' = HeldPages \ {r} /\ r \in HeldPages
    BY <1>2 DEF HeldPages, Holding, IsUpload, CInv, ThreadTypes
  <2>2. HeldUploads' = HeldUploads
    BY <1>2 DEF HeldUploads, Holding, IsUpload, CInv, ThreadTypes
  <2> QED
    BY <1>2, <2>1, <2>2 DEF Release, Returns
<1> QED
  BY <1>1, <1>2

\* Whatever changes the threads that hold a slot changes the semaphore of their kind
\* by as much.
LEMMA BalancedStep ==
  ASSUME CInv, Kinds, [Next]_vars
  PROVE  Balanced
<1> USE DEF Balanced, Leaves, HeldPages, HeldUploads, Holding, CInv, WorkerTypes, ThreadTypes, Kinds, Numbered, worker, handlers, semaphores, container, history
<1>1. ASSUME NEW j \in Job, Fetch(j) PROVE Balanced
  <2> DEFINE q == <<j, attempt[j] + 1>>
  <2>1. q \in Request /\ attempt[j] \in Nat
    BY <1>1, Bounds, Requests DEF Fetch
  <2>2. thread[q] = "none" /\ thread' = [thread EXCEPT ![q] = "accepted"]
    BY <1>1, <2>1 DEF Fetch
  <2> HIDE DEF q
  <2>3. HeldPages' = HeldPages /\ HeldUploads' = HeldUploads
    BY <2>1, <2>2 DEF IsUpload
  <2>4. UNCHANGED <<semaphores, process>> /\ process # "down"
    BY <1>1 DEF Fetch
  <2> QED
    BY <2>3, <2>4
<1>2. ASSUME NEW j \in Job, FetchRefused(j) PROVE Balanced
  BY <1>2, Bounds, Requests DEF FetchRefused
<1>3. ASSUME NEW j \in Job, FetchBreaks(j) PROVE Balanced
  BY <1>3, Bounds, Requests DEF FetchBreaks, AttemptFails, ResponseGone
<1>4. ASSUME NEW j \in Job, Respond(j) PROVE Balanced
  BY <1>4, Bounds, Requests DEF Respond, AttemptFails, ResponseGone
<1>5. ASSUME NEW j \in Job, FetchTimesOut(j) PROVE Balanced
  BY <1>5, Bounds, Requests DEF FetchTimesOut, AttemptFails, ResponseGone
<1>6. ASSUME NEW r \in Request, Finish(r) PROVE Balanced
  <2>1. /\ Holding(r) /\ UNCHANGED process
        /\ thread' = [thread EXCEPT ![r] = "ended"] /\ Release(r)
    BY <1>6 DEF Finish, End, Become
  <2> QED
    BY <2>1, ReturnsSlot
<1>7. ASSUME NEW r \in Request, Enter(r) PROVE Balanced
  BY <1>7, Bounds, Requests DEF Enter, Become, End
<1>8. ASSUME NEW r \in Request, ReadBody(r) PROVE Balanced
  BY <1>8, Bounds, Requests DEF ReadBody, Become, End
<1>9. ASSUME NEW r \in Request, Opened(r) PROVE Balanced
  BY <1>9, Bounds, Requests DEF Opened, Become, StartBudget
<1>10. ASSUME NEW r \in Request, Detected(r) PROVE Balanced
  BY <1>10, Bounds, Requests DEF Detected, Become, BudgetLeft
<1>11. ASSUME NEW r \in Request, TryUploadSlot(r) PROVE Balanced
  <2>1. thread[r] = "reading" /\ IsUpload(r) /\ UNCHANGED process
    BY <1>11 DEF TryUploadSlot
  <2>2. CASE Become(r, "receiving") /\ uploadFree > 0 /\ uploadFree' = uploadFree - 1 /\ free' = free
    <3>1. HeldUploads' = HeldUploads \union {r} /\ r \notin HeldUploads
      BY <2>1, <2>2 DEF Become, IsUpload
    <3>2. HeldPages' = HeldPages
      BY <2>1, <2>2 DEF Become, IsUpload
    <3> QED
      BY <2>1, <2>2, <3>1, <3>2 DEF Takes
  <2>3. CASE End(r, "busy") /\ UNCHANGED semaphores
    <3>1. HeldUploads' = HeldUploads /\ HeldPages' = HeldPages
      BY <2>1, <2>3 DEF End, Become, IsUpload
    <3> QED
      BY <2>1, <2>3, <3>1
  <2> QED
    BY <1>11, <2>2, <2>3 DEF TryUploadSlot
<1>12. ASSUME NEW r \in Request, Received(r) PROVE Balanced
  <2>1. CASE (\E result \in {"rejected", "error"} : End(r, result)) /\ Release(r)
    <3>1. Holding(r) /\ UNCHANGED process /\ thread' = [thread EXCEPT ![r] = "ended"]
      BY <1>12, <2>1 DEF Received, End, Become
    <3> QED
      BY <2>1, <3>1, ReturnsSlot
  <2>2. CASE Become(r, "converting") /\ UNCHANGED semaphores
    <3>1. thread[r] = "receiving" /\ UNCHANGED process
      BY <1>12 DEF Received
    <3>2. \A q \in Request : Holding(q)' = Holding(q)
      BY <2>2, <3>1 DEF Become
    <3>3. HeldPages' = HeldPages /\ HeldUploads' = HeldUploads
      BY <3>2 DEF IsUpload
    <3> QED
      BY <2>2, <3>1, <3>3
  <2> QED
    BY <1>12, <2>1, <2>2 DEF Received
<1>13. ASSUME NEW r \in Request, TimeOut(r) PROVE Balanced
  <2>1. /\ Holding(r) /\ UNCHANGED process
        /\ thread' = [thread EXCEPT ![r] = "ended"] /\ Release(r)
    BY <1>13 DEF TimeOut, End, Become
  <2> QED
    BY <2>1, ReturnsSlot
<1>14. ASSUME NEW r \in Request, GetSlot(r) PROVE Balanced
  <2>1. /\ thread[r] = "queued" /\ ~IsUpload(r) /\ UNCHANGED process
        /\ thread' = [thread EXCEPT ![r] = "opening"]
        /\ free > 0 /\ free' = free - 1 /\ uploadFree' = uploadFree
    BY <1>14 DEF GetSlot, Become
  <2>2. HeldPages' = HeldPages \union {r} /\ r \notin HeldPages
    BY <2>1 DEF IsUpload
  <2>3. HeldUploads' = HeldUploads
    BY <2>1 DEF IsUpload
  <2> QED
    BY <2>1, <2>2, <2>3 DEF Takes
<1>15. ASSUME Tick PROVE Balanced
  BY <1>15, Bounds, Requests DEF Tick, Less, Larger
<1>16. ASSUME Drained PROVE Balanced
  BY <1>16, Bounds, Requests DEF Drained
<1>21. ASSUME MainReturns PROVE Balanced
  BY <1>21, Bounds, Requests DEF MainReturns, Exit
<1>17. ASSUME Crash PROVE Balanced
  BY <1>17, Bounds, Requests DEF Crash, Exit
<1>18. ASSUME Sigterm PROVE Balanced
  BY <1>18, Bounds, Requests DEF Sigterm
<1>19. ASSUME Restart PROVE Balanced
  BY <1>19, Bounds, Requests DEF Restart
<1>20. ASSUME UNCHANGED vars PROVE Balanced
  BY <1>20 DEF vars
<1> QED
  BY <1>1, <1>2, <1>3, <1>4, <1>5, <1>6, <1>7, <1>8, <1>9, <1>10, <1>11, <1>12, <1>13, <1>14, <1>15, <1>16, <1>21, <1>17, <1>18, <1>19, <1>20 DEF Next, Threads, Thread, Timers

\* Every step keeps the semaphores in agreement with the threads.
LEMMA SlotStep ==
  ASSUME CInv, SlotInv, [Next]_vars
  PROVE  SlotInv'
<1>1. Kinds'
  BY KindsStep DEF SlotInv
<1>2. HeldPages \in SUBSET Request /\ HeldUploads \in SUBSET Request
  BY DEF HeldPages, HeldUploads
<1>3. /\ IsFiniteSet(HeldPages) /\ Cardinality(HeldPages) \in Nat
      /\ IsFiniteSet(HeldUploads) /\ Cardinality(HeldUploads) \in Nat
  BY <1>2, FiniteRequests
<1>a. (process' # "down" => /\ free' = Slots - Cardinality(HeldPages')
                            /\ uploadFree' = UploadSlots - Cardinality(HeldUploads')) => Agree'
  BY DEF Agree
<1>b. process # "down" => /\ free = Slots - Cardinality(HeldPages)
                          /\ uploadFree = UploadSlots - Cardinality(HeldUploads)
  BY DEF SlotInv, Agree
<1>4. ASSUME Leaves PROVE Agree'
  BY <1>4, <1>a, <1>b DEF Leaves, semaphores
<1>5. ASSUME \E r \in Request : Takes(r) PROVE Agree'
  <2>0. SUFFICES ASSUME process' # "down" PROVE Agree'
    BY DEF Agree
  <2>1. PICK r \in Request : Takes(r)
    BY <1>5
  <2>2. /\ free = Slots - Cardinality(HeldPages)
        /\ uploadFree = UploadSlots - Cardinality(HeldUploads)
    BY <1>b, <2>0, <2>1 DEF Takes
  <2>3. /\ r \notin HeldPages => Cardinality(HeldPages \union {r}) = Cardinality(HeldPages) + 1
        /\ r \notin HeldUploads => Cardinality(HeldUploads \union {r}) = Cardinality(HeldUploads) + 1
    BY <1>3, FS_AddElement
  <2> QED
    <3>1. CASE HeldPages' = HeldPages
      <4>1. HeldUploads' = HeldUploads \union {r} /\ uploadFree' = uploadFree - 1 /\ free' = free
        BY <2>1, <3>1 DEF Takes
      <4>2. Cardinality(HeldUploads') = Cardinality(HeldUploads) + 1
        BY <2>1, <2>3, <3>1, <4>1 DEF Takes
      <4>3. uploadFree' = UploadSlots - Cardinality(HeldUploads')
        BY <1>3, <2>2, <4>1, <4>2, Bounds
      <4>4. free' = Slots - Cardinality(HeldPages')
        BY <2>2, <3>1, <4>1
      <4> QED
        BY <1>a, <4>3, <4>4
    <3>2. CASE HeldPages' # HeldPages
      <4>1. /\ HeldPages' = HeldPages \union {r} /\ HeldUploads' = HeldUploads
            /\ uploadFree' = uploadFree /\ free' = free - 1
        BY <2>1, <3>2 DEF Takes
      <4>2. Cardinality(HeldPages') = Cardinality(HeldPages) + 1
        BY <2>1, <2>3, <3>2, <4>1 DEF Takes
      <4>3. free' = Slots - Cardinality(HeldPages')
        BY <1>3, <2>2, <4>1, <4>2, Bounds
      <4>4. uploadFree' = UploadSlots - Cardinality(HeldUploads')
        BY <2>2, <4>1
      <4> QED
        BY <1>a, <4>3, <4>4
    <3> QED
      BY <3>1, <3>2
<1>6. ASSUME \E r \in Request : Returns(r) PROVE Agree'
  <2>0. SUFFICES ASSUME process' # "down" PROVE Agree'
    BY DEF Agree
  <2>1. PICK r \in Request : Returns(r)
    BY <1>6
  <2>2. /\ free = Slots - Cardinality(HeldPages)
        /\ uploadFree = UploadSlots - Cardinality(HeldUploads)
    BY <1>b, <2>0, <2>1 DEF Returns
  <2>3. /\ r \in HeldPages => Cardinality(HeldPages \ {r}) = Cardinality(HeldPages) - 1
        /\ r \in HeldUploads => Cardinality(HeldUploads \ {r}) = Cardinality(HeldUploads) - 1
    BY <1>3, FS_RemoveElement
  <2> QED
    <3>1. CASE HeldPages' = HeldPages
      <4>1. HeldUploads' = HeldUploads \ {r} /\ uploadFree' = uploadFree + 1 /\ free' = free
        BY <2>1, <3>1 DEF Returns
      <4>2. Cardinality(HeldUploads') = Cardinality(HeldUploads) - 1
        BY <2>1, <2>3, <3>1, <4>1 DEF Returns
      <4>3. uploadFree' = UploadSlots - Cardinality(HeldUploads')
        BY <1>3, <2>2, <4>1, <4>2, Bounds
      <4>4. free' = Slots - Cardinality(HeldPages')
        BY <2>2, <3>1, <4>1
      <4> QED
        BY <1>a, <4>3, <4>4
    <3>2. CASE HeldPages' # HeldPages
      <4>1. /\ HeldPages' = HeldPages \ {r} /\ HeldUploads' = HeldUploads
            /\ uploadFree' = uploadFree /\ free' = free + 1
        BY <2>1, <3>2 DEF Returns
      <4>2. Cardinality(HeldPages') = Cardinality(HeldPages) - 1
        BY <2>1, <2>3, <3>2, <4>1 DEF Returns
      <4>3. free' = Slots - Cardinality(HeldPages')
        BY <1>3, <2>2, <4>1, <4>2, Bounds
      <4>4. uploadFree' = UploadSlots - Cardinality(HeldUploads')
        BY <2>2, <4>1
      <4> QED
        BY <1>a, <4>3, <4>4
    <3> QED
      BY <3>1, <3>2
<1>7. ASSUME Restart PROVE Agree'
  <2>1. \A r \in Request : ~Holding(r)'
    BY <1>7 DEF Restart, CInv, DownIsIdle, Live, Holding, handlers
  <2>2. HeldPages' = {} /\ HeldUploads' = {}
    BY <2>1 DEF HeldPages, HeldUploads
  <2>3. free' = Slots /\ uploadFree' = UploadSlots
    BY <1>7 DEF Restart
  <2>4. Cardinality(HeldPages') = 0 /\ Cardinality(HeldUploads') = 0
    BY <2>2, FS_EmptySet
  <2> QED
    BY <1>a, <2>3, <2>4, Bounds
<1> QED
  BY <1>1, <1>4, <1>5, <1>6, <1>7, BalancedStep DEF Balanced, SlotInv

\* Both semaphores agree with the threads that hold a slot, however a conversion
\* ends (app.py's "with CONVERSION_SLOTS", pdf_upload.py's finally).
THEOREM SlotsNeverLeak == Spec => []NoSlotLeak
<1>1. Init => SlotInv
  <2> SUFFICES ASSUME Init PROVE SlotInv
    OBVIOUS
  <2>1. HeldPages = {} /\ HeldUploads = {}
    BY DEF Init, HeldPages, HeldUploads, Holding
  <2> QED
    BY <2>1, FS_EmptySet, Bounds DEF Init, SlotInv, Agree, Kinds
<1>2. CInv /\ SlotInv /\ [Next]_vars => SlotInv'
  BY SlotStep
<1>3. SlotInv => NoSlotLeak
  BY DEF SlotInv, Agree, NoSlotLeak, HeldPages, HeldUploads
<1> QED
  BY <1>1, <1>2, <1>3, Invariance, PTL DEF Spec

\* A semaphore stays between nothing and its limit.
SemaphoreTypes == free \in 0 .. Slots /\ uploadFree \in 0 .. UploadSlots

\* A semaphore is taken only when it is free and returned only by a holder.
LEMMA SemaphoreStep ==
  ASSUME CInv, SlotInv, SemaphoreTypes, [Next]_vars
  PROVE  SemaphoreTypes'
<1>1. CASE Leaves
  BY <1>1 DEF Leaves, SemaphoreTypes, semaphores
<1>2. CASE \E r \in Request : Takes(r)
  BY <1>2, Bounds DEF Takes, SemaphoreTypes
<1>3. CASE \E r \in Request : Returns(r)
  <2>1. PICK r \in Request : Returns(r)
    BY <1>3
  <2>2. HeldPages \in SUBSET Request /\ HeldUploads \in SUBSET Request
    BY DEF HeldPages, HeldUploads
  <2>3. /\ Cardinality(HeldPages) \in Nat /\ Cardinality(HeldUploads) \in Nat
        /\ r \in HeldPages => Cardinality(HeldPages) # 0
        /\ r \in HeldUploads => Cardinality(HeldUploads) # 0
    BY <2>2, FiniteRequests, FS_EmptySet
  <2>4. process # "down"
    BY <2>1 DEF Returns, HeldPages, HeldUploads, Holding, Live, CInv, DownIsIdle
  <2> QED
    BY <2>1, <2>3, <2>4, Bounds DEF Returns, SlotInv, Agree, SemaphoreTypes
<1>4. CASE Restart
  BY <1>4, Bounds DEF Restart, SemaphoreTypes
<1> QED
  BY <1>1, <1>2, <1>3, <1>4, BalancedStep DEF Balanced, SlotInv

\* The semaphores keep their limits, the steps and the threads their types.
THEOREM TypeCorrectness == Spec => []TypeOK
<1>1. Init => SlotInv /\ SemaphoreTypes
  <2> SUFFICES ASSUME Init PROVE SlotInv /\ SemaphoreTypes
    OBVIOUS
  <2>1. HeldPages = {} /\ HeldUploads = {}
    BY DEF Init, HeldPages, HeldUploads, Holding
  <2> QED
    BY <2>1, FS_EmptySet, Bounds DEF Init, SlotInv, Agree, Kinds, SemaphoreTypes
<1>2. CInv /\ SlotInv /\ SemaphoreTypes /\ [Next]_vars => SlotInv' /\ SemaphoreTypes'
  BY SlotStep, SemaphoreStep
<1>3. CInv /\ SemaphoreTypes => TypeOK
  BY DEF CInv, SemaphoreTypes, WorkerTypes, ThreadTypes, ProcessTypes, TypeOK
<1> QED
  BY <1>1, <1>2, <1>3, Invariance, PTL DEF Spec

-----------------------------------------------------------------------------
(* The budgets and the drain.                                              *)

\* Of a conversion whose fetch is open, the budget is the shorter, unless it
\* began late.
BudgetInv ==
  \A r \in Request :
    /\ Open(r) /\ thread[r] \in {"detecting", "converting"} /\ budget[r] > left[r[1]] => r \in late
    /\ step[r[1]] = "fetching" => left[r[1]] \in Nat

\* The budget and the fetch run down together.
LEMMA BudgetStep ==
  ASSUME CInv, BudgetInv, [Next]_vars
  PROVE  BudgetInv'
<1> USE DEF BudgetInv, Open, CInv, WorkerTypes, ThreadTypes, Numbered, worker, handlers, semaphores, container, history
<1>1. ASSUME NEW j \in Job, Fetch(j) PROVE BudgetInv'
  BY <1>1, Bounds, Requests DEF Fetch
<1>2. ASSUME NEW j \in Job, FetchRefused(j) PROVE BudgetInv'
  BY <1>2, Bounds, Requests DEF FetchRefused
<1>3. ASSUME NEW j \in Job, FetchBreaks(j) PROVE BudgetInv'
  BY <1>3, Bounds, Requests DEF FetchBreaks, AttemptFails, ResponseGone
<1>4. ASSUME NEW j \in Job, Respond(j) PROVE BudgetInv'
  BY <1>4, Bounds, Requests DEF Respond, AttemptFails, ResponseGone
<1>5. ASSUME NEW j \in Job, FetchTimesOut(j) PROVE BudgetInv'
  BY <1>5, Bounds, Requests DEF FetchTimesOut, AttemptFails, ResponseGone
<1>6. ASSUME NEW r \in Request, Finish(r) PROVE BudgetInv'
  BY <1>6, Bounds, Requests DEF Finish, Become, End, Release
<1>7. ASSUME NEW r \in Request, Enter(r) PROVE BudgetInv'
  BY <1>7, Bounds, Requests DEF Enter, Become, End
<1>8. ASSUME NEW r \in Request, ReadBody(r) PROVE BudgetInv'
  BY <1>8, Bounds, Requests DEF ReadBody, Become, End
<1>9. ASSUME NEW r \in Request, Opened(r) PROVE BudgetInv'
  BY <1>9, Bounds, Requests DEF Opened, Become, StartBudget
<1>10. ASSUME NEW r \in Request, Detected(r) PROVE BudgetInv'
  BY <1>10, Bounds, Requests DEF Detected, Become, BudgetLeft
<1>11. ASSUME NEW r \in Request, TryUploadSlot(r) PROVE BudgetInv'
  BY <1>11, Bounds, Requests DEF TryUploadSlot, Become, End
<1>12. ASSUME NEW r \in Request, Received(r) PROVE BudgetInv'
  BY <1>12, Bounds, Requests DEF Received, Become, End, Release, StartBudget
<1>13. ASSUME NEW r \in Request, TimeOut(r) PROVE BudgetInv'
  BY <1>13, Bounds, Requests DEF TimeOut, Become, End, Release
<1>14. ASSUME NEW r \in Request, GetSlot(r) PROVE BudgetInv'
  BY <1>14, Bounds, Requests DEF GetSlot, Become
<1>15. ASSUME Tick PROVE BudgetInv'
  BY <1>15, Bounds, Requests DEF Tick, Less, Larger
<1>16. ASSUME Drained PROVE BudgetInv'
  BY <1>16, Bounds, Requests DEF Drained
<1>21. ASSUME MainReturns PROVE BudgetInv'
  BY <1>21, Bounds, Requests DEF MainReturns, Exit
<1>17. ASSUME Crash PROVE BudgetInv'
  BY <1>17, Bounds, Requests DEF Crash, Exit
<1>18. ASSUME Sigterm PROVE BudgetInv'
  BY <1>18, Bounds, Requests DEF Sigterm
<1>19. ASSUME Restart PROVE BudgetInv'
  BY <1>19, Bounds, Requests DEF Restart
<1>20. ASSUME UNCHANGED vars PROVE BudgetInv'
  BY <1>20 DEF vars
<1> QED
  BY <1>1, <1>2, <1>3, <1>4, <1>5, <1>6, <1>7, <1>8, <1>9, <1>10, <1>11, <1>12, <1>13, <1>14, <1>15, <1>16, <1>21, <1>17, <1>18, <1>19, <1>20 DEF Next, Threads, Thread, Timers


\* A conversion outlives its fetch's rest only if it began late: the margin of
\* src/src/container.ts leaves every other one the shorter time.
THEOREM OverrunsAreLate == Spec => []OverrunHasCause
<1>1. Init => BudgetInv
  BY Requests DEF Init, BudgetInv, Open
<1>2. CInv /\ BudgetInv /\ [Next]_vars => BudgetInv'
  BY BudgetStep
<1>3. BudgetInv => OverrunHasCause
  BY DEF BudgetInv, OverrunHasCause
<1> QED
  BY <1>1, <1>2, <1>3, Invariance, PTL DEF Spec

\* A conversion under way at SIGTERM has less of its budget left than the drain
\* has of its window, and none is left when wait_idle returns.
DrainInv ==
  /\ \A r \in Request : thread[r] \in {"detecting", "converting"} => budget[r] < DrainWindow
  /\ \A r \in underway : /\ thread[r] = "converting"
                         /\ process = "draining"
                         /\ budget[r] < drain

\* The budgets and the drain run down together, and no conversion is left alone
\* with an expired budget while time passes.
LEMMA DrainStep ==
  ASSUME CInv, DrainInv, [Next]_vars
  PROVE  DrainInv'
<1> USE DEF DrainInv, CInv, WorkerTypes, ThreadTypes, ProcessTypes, Numbered, worker, handlers, semaphores, container, history
<1>1. ASSUME NEW j \in Job, Fetch(j) PROVE DrainInv'
  BY <1>1, Bounds, Requests DEF Fetch
<1>2. ASSUME NEW j \in Job, FetchRefused(j) PROVE DrainInv'
  BY <1>2, Bounds, Requests DEF FetchRefused
<1>3. ASSUME NEW j \in Job, FetchBreaks(j) PROVE DrainInv'
  BY <1>3, Bounds, Requests DEF FetchBreaks, AttemptFails, ResponseGone
<1>4. ASSUME NEW j \in Job, Respond(j) PROVE DrainInv'
  BY <1>4, Bounds, Requests DEF Respond, AttemptFails, ResponseGone
<1>5. ASSUME NEW j \in Job, FetchTimesOut(j) PROVE DrainInv'
  BY <1>5, Bounds, Requests DEF FetchTimesOut, AttemptFails, ResponseGone
<1>6. ASSUME NEW r \in Request, Finish(r) PROVE DrainInv'
  BY <1>6, Bounds, Requests DEF Finish, Become, End, Release
<1>7. ASSUME NEW r \in Request, Enter(r) PROVE DrainInv'
  BY <1>7, Bounds, Requests DEF Enter, Become, End
<1>8. ASSUME NEW r \in Request, ReadBody(r) PROVE DrainInv'
  BY <1>8, Bounds, Requests DEF ReadBody, Become, End
<1>9. ASSUME NEW r \in Request, Opened(r) PROVE DrainInv'
  BY <1>9, Bounds, Requests DEF Opened, Become, StartBudget
<1>10. ASSUME NEW r \in Request, Detected(r) PROVE DrainInv'
  BY <1>10, Bounds, Requests DEF Detected, Become, BudgetLeft
<1>11. ASSUME NEW r \in Request, TryUploadSlot(r) PROVE DrainInv'
  BY <1>11, Bounds, Requests DEF TryUploadSlot, Become, End
<1>12. ASSUME NEW r \in Request, Received(r) PROVE DrainInv'
  BY <1>12, Bounds, Requests DEF Received, Become, End, Release, StartBudget
<1>13. ASSUME NEW r \in Request, TimeOut(r) PROVE DrainInv'
  BY <1>13, Bounds, Requests DEF TimeOut, Become, End, Release
<1>14. ASSUME NEW r \in Request, GetSlot(r) PROVE DrainInv'
  BY <1>14, Bounds, Requests DEF GetSlot, Become
<1>15. ASSUME Tick PROVE DrainInv'
  BY <1>15, Bounds, Requests DEF Tick, Less, Larger, Expired
<1>16. ASSUME Drained PROVE DrainInv'
  BY <1>16, Bounds, Requests DEF Drained, Counted, Live
<1>17. ASSUME MainReturns PROVE DrainInv'
  BY <1>17, Bounds, Requests DEF MainReturns, Exit
<1>18. ASSUME Crash PROVE DrainInv'
  BY <1>18, Bounds, Requests DEF Crash, Exit
<1>19. ASSUME Sigterm PROVE DrainInv'
  BY <1>19, Bounds, Requests DEF Sigterm
<1>20. ASSUME Restart PROVE DrainInv'
  BY <1>20, Bounds, Requests DEF Restart
<1>21. ASSUME UNCHANGED vars PROVE DrainInv'
  BY <1>21, Bounds, Requests DEF vars
<1> QED
  BY <1>1, <1>2, <1>3, <1>4, <1>5, <1>6, <1>7, <1>8, <1>9, <1>10, <1>11, <1>12, <1>13, <1>14, <1>15, <1>16, <1>17, <1>18, <1>19, <1>20, <1>21 DEF Next, Threads, Thread, Timers

\* When main returns, no conversion that was under way at SIGTERM is left to be
\* ended with it: whatever its kind, its budget ends before wait_idle's timeout
\* (app.py), because the Worker never asks for more than the window
\* (WindowAssumption).
THEOREM DrainsOutlastConversions == Spec => []DrainSparesConversions
<1>1. Init => DrainInv
  BY Requests DEF Init, DrainInv
<1>2. CInv /\ DrainInv /\ [Next]_vars => DrainInv'
  BY DrainStep
<1>3. DrainInv => DrainSparesConversions
  BY DEF DrainInv, DrainSparesConversions
<1> QED
  BY <1>1, <1>2, <1>3, Invariance, PTL DEF Spec

-----------------------------------------------------------------------------
(* The way to the end of a thread.                                         *)

\* The steps a thread has before it at most, the ticks of its budget included.
Ahead ==
  [l \in Labels |->
     CASE l = "none"                    -> LongestBudget + 7
       [] l = "accepted"                -> LongestBudget + 6
       [] l = "reading"                 -> LongestBudget + 5
       [] l \in {"queued", "receiving"} -> LongestBudget + 4
       [] l = "opening"                 -> LongestBudget + 3
       [] l = "detecting"               -> LongestBudget + 2
       [] OTHER                         -> 0]

StepsLeft(r) == IF thread[r] = "converting" THEN budget[r] + 1 ELSE Ahead[thread[r]]

LEMMA Aheads ==
  /\ Ahead["none"] = LongestBudget + 7 /\ Ahead["accepted"] = LongestBudget + 6
  /\ Ahead["reading"] = LongestBudget + 5 /\ Ahead["queued"] = LongestBudget + 4
  /\ Ahead["receiving"] = LongestBudget + 4 /\ Ahead["opening"] = LongestBudget + 3
  /\ Ahead["detecting"] = LongestBudget + 2 /\ Ahead["ended"] = 0
BY DEF Ahead, Labels

\* The steps that spend it.
Spends(r) == Thread(r) \/ GetSlot(r) \/ Finish(r) \/ (Tick /\ thread[r] = "converting")

LEMMA StepsLeftType ==
  ASSUME ThreadTypes, NEW r \in Request
  PROVE  StepsLeft(r) \in 0 .. LongestBudget + 7
BY Bounds, Aheads DEF ThreadTypes, Labels, StepsLeft

\* What does not touch a thread or its budget leaves its steps alone.
LEMMA Untouched ==
  ASSUME NEW r \in Request, thread'[r] = thread[r], budget'[r] = budget[r]
  PROVE  StepsLeft(r)' = StepsLeft(r)
BY DEF StepsLeft

\* A thread that goes on has less before it, and the others are left alone.
LEMMA SpendingLowers ==
  ASSUME CInv, NEW r \in Request, Thread(r) \/ GetSlot(r) \/ Finish(r)
  PROVE  /\ StepsLeft(r)' < StepsLeft(r)
         /\ \A o \in Request \ {r} : StepsLeft(o)' = StepsLeft(o)
<1> DEFINE Goes(from, to) == thread[r] \in from /\ thread'[r] \in to
<1>1. /\ thread \in [Request -> Labels] /\ budget \in [Request -> 0 .. LongestBudget]
  BY DEF CInv, ThreadTypes
<1>2. /\ \/ Goes({"accepted"}, {"reading", "ended"})
         \/ Goes({"reading"}, {"queued", "receiving", "ended"})
         \/ Goes({"queued"}, {"opening"})
         \/ Goes({"opening"}, {"detecting"})
         \/ Goes({"detecting", "receiving"}, {"converting", "ended"})
         \/ Goes({"converting"}, {"ended"})
      /\ \A o \in Request \ {r} : thread'[o] = thread[o] /\ budget'[o] = budget[o]
      /\ thread'[r] = "converting" => budget'[r] \in 0 .. LongestBudget
  <2> USE <1>1 DEF Become, End
  <2>1. CASE Enter(r) BY <2>1 DEF Enter
  <2>2. CASE ReadBody(r) BY <2>2 DEF ReadBody
  <2>3. CASE Opened(r) BY <2>3 DEF Opened, StartBudget
  <2>4. CASE Detected(r) BY <2>4 DEF Detected, BudgetLeft
  <2>5. CASE TryUploadSlot(r) BY <2>5 DEF TryUploadSlot
  <2>6. CASE Received(r) BY <2>6, Bounds DEF Received, StartBudget
  <2>7. CASE TimeOut(r) BY <2>7 DEF TimeOut
  <2>8. CASE GetSlot(r) BY <2>8 DEF GetSlot
  <2>9. CASE Finish(r) BY <2>9 DEF Finish
  <2> QED
    BY <2>1, <2>2, <2>3, <2>4, <2>5, <2>6, <2>7, <2>8, <2>9 DEF Thread
<1>3. StepsLeft(r)' < StepsLeft(r)
  BY <1>1, <1>2, Aheads, Bounds DEF StepsLeft
<1> QED
  BY <1>2, <1>3, Untouched

\* What the process, the clock and the workflow steps do to the threads.
LEMMA OthersLower ==
  ASSUME CInv, NEW r \in Request,
         \/ \E j \in Job : \/ Fetch(j) \/ FetchRefused(j) \/ FetchBreaks(j)
                           \/ Respond(j) \/ FetchTimesOut(j)
         \/ Tick \/ Drained \/ MainReturns \/ Crash \/ Sigterm \/ Restart \/ UNCHANGED vars
  PROVE  /\ StepsLeft(r)' = StepsLeft(r) \/ StepsLeft(r)' < StepsLeft(r)
         /\ Tick /\ thread[r] = "converting" => StepsLeft(r)' < StepsLeft(r)
<1>1. /\ thread \in [Request -> Labels] /\ budget[r] \in 0 .. LongestBudget
      /\ attempt \in [Job -> 0 .. MaxAttempts] /\ StepsLeft(r) \in Nat
  BY StepsLeftType, Bounds DEF CInv, ThreadTypes, WorkerTypes
<1>2. Tick /\ thread[r] = "converting" => StepsLeft(r)' < StepsLeft(r)
  <2> SUFFICES ASSUME Tick, thread[r] = "converting"
               PROVE  StepsLeft(r)' < StepsLeft(r)
    OBVIOUS
  <2>1. thread' = thread /\ budget'[r] = Less(budget[r]) /\ budget[r] > 0
    BY <1>1 DEF Tick, Expired
  <2> QED BY <1>1, <2>1, Bounds DEF Less, Larger, StepsLeft
<1>3. ASSUME NEW j \in Job, Fetch(j)
      PROVE  StepsLeft(r)' = StepsLeft(r) \/ StepsLeft(r)' < StepsLeft(r)
  <2>1. /\ attempt[j] < MaxAttempts /\ attempt'[j] = attempt[j] + 1
        /\ thread' = [thread EXCEPT ![<<j, attempt'[j]>>] = "accepted"]
        /\ budget' = budget
    BY <1>1, <1>3 DEF Fetch
  <2>2. CASE r = <<j, attempt'[j]>>
    <3>1. thread[r] = "none"
      BY <1>1, <2>1, <2>2, Bounds DEF CInv, Numbered
    <3>2. thread'[r] = "accepted" BY <1>1, <2>1, <2>2
    <3> QED BY <3>1, <3>2, Aheads, Bounds DEF StepsLeft
  <2>3. CASE r # <<j, attempt'[j]>>
    BY <1>1, <2>1, <2>3, Untouched
  <2> QED BY <2>2, <2>3
<1>4. CASE MainReturns \/ Crash
  <2>1. thread'[r] = IF Live(r) THEN "ended" ELSE thread[r]
    BY <1>4 DEF MainReturns, Crash, Exit
  <2>2. CASE Live(r)
    BY <1>1, <2>1, <2>2, Aheads, Bounds DEF StepsLeft, Live, Labels
  <2>3. CASE ~ Live(r)
    BY <2>1, <2>3 DEF StepsLeft, Live
  <2> QED BY <2>2, <2>3
<1>5. ASSUME \/ \E j \in Job : \/ FetchRefused(j) \/ FetchBreaks(j)
                               \/ Respond(j) \/ FetchTimesOut(j)
             \/ Drained \/ Sigterm \/ Restart \/ UNCHANGED vars
      PROVE  StepsLeft(r)' = StepsLeft(r)
  <2>1. UNCHANGED <<thread, budget>>
    BY <1>5 DEF FetchRefused, FetchBreaks, Respond, FetchTimesOut, Drained,
                Sigterm, Restart, vars, handlers
  <2> QED BY <2>1, Untouched
<1>6. CASE Tick /\ thread[r] # "converting"
  BY <1>6 DEF Tick, StepsLeft
<1> QED
  BY <1>2, <1>3, <1>4, <1>5, <1>6

\* A thread runs out, whatever its conversion does and whether or not anybody
\* still waits for it: it has at most LongestBudget + 7 steps before it, counting the
\* ticks of its budget; every step it takes and every tick while it converts is
\* one less, and nothing adds to them (the deadlines of app.py and
\* pdf_upload.py).  Opening the document and finding its chapters, which have no
\* deadline, are one step each.  What is left of SlotsComeBack is that threads
\* run, time passes and a free slot goes to somebody (Fairness).
THEOREM ThreadsRunOut ==
  Spec => [][\A r \in Request :
               /\ StepsLeft(r) \in 0 .. LongestBudget + 7
               /\ Spends(r) => StepsLeft(r)' < StepsLeft(r)
               /\ StepsLeft(r)' # StepsLeft(r) => StepsLeft(r)' < StepsLeft(r)]_vars
<1>1. ASSUME CInv, [Next]_vars, NEW r \in Request
      PROVE  /\ StepsLeft(r) \in 0 .. LongestBudget + 7
             /\ Spends(r) => StepsLeft(r)' < StepsLeft(r)
             /\ StepsLeft(r)' # StepsLeft(r) => StepsLeft(r)' < StepsLeft(r)
  <2>1. StepsLeft(r) \in 0 .. LongestBudget + 7 BY <1>1, StepsLeftType DEF CInv
  <2>2. Spends(r) => StepsLeft(r)' < StepsLeft(r)
    BY <1>1, SpendingLowers, OthersLower DEF Spends
  <2>3. ASSUME NEW o \in Request, Thread(o) \/ GetSlot(o) \/ Finish(o)
        PROVE  StepsLeft(r)' = StepsLeft(r) \/ StepsLeft(r)' < StepsLeft(r)
    BY <1>1, <2>3, SpendingLowers
  <2>4. StepsLeft(r)' # StepsLeft(r) => StepsLeft(r)' < StepsLeft(r)
    BY <1>1, <2>3, OthersLower DEF Next, Threads, Timers
  <2> QED BY <2>1, <2>2, <2>4
<1>2. CInv /\ [Next]_vars
        => \A r \in Request :
             /\ StepsLeft(r) \in 0 .. LongestBudget + 7
             /\ Spends(r) => StepsLeft(r)' < StepsLeft(r)
             /\ StepsLeft(r)' # StepsLeft(r) => StepsLeft(r)' < StepsLeft(r)
  BY <1>1
<1> QED
  BY <1>2, Invariance, PTL DEF Spec

\* While a thread is queued and no slot is free, some thread holds one.
NobodyWaitsInVain ==
  \A r \in Request :
    thread[r] = "queued" /\ free = 0
      => \E o \in Request : Holding(o) /\ ~IsUpload(o)

\* Nobody waits in vain: the slots a queued request waits for are with threads,
\* which run out (ThreadsRunOut), and not lost ("with CONVERSION_SLOTS").
THEOREM WaitersHaveHolders == Spec => []NobodyWaitsInVain
<1>1. CInv /\ NoSlotLeak => NobodyWaitsInVain
  <2> SUFFICES ASSUME CInv, NoSlotLeak, NEW r \in Request, thread[r] = "queued",
                      free = 0, \A o \in Request : ~(Holding(o) /\ ~IsUpload(o))
               PROVE  FALSE
    BY DEF NobodyWaitsInVain
  <2>1. process # "down" BY DEF CInv, DownIsIdle, Live
  <2>2. {o \in Request : Holding(o) /\ ~IsUpload(o)} = {} OBVIOUS
  <2>3. free = Slots - 0 BY <2>1, <2>2, FS_EmptySet DEF NoSlotLeak
  <2>4. Slots \in Nat \ {0} BY BudgetAssumption
  <2> QED BY <2>3, <2>4
<1> QED
  BY <1>1, Invariance, SlotsNeverLeak, PTL
=============================================================================
