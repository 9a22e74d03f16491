------------------------- MODULE CatalogSyncProofs -------------------------
(***************************************************************************)
(* Proofs about CatalogSync, for any number of runs, any catalogs and any  *)
(* retry limit, whether or not runs overlap.                               *)
(***************************************************************************)
EXTENDS CatalogSync, Ranks, FiniteSetTheorems, TLAPS

-----------------------------------------------------------------------------
(***************************************************************************)
(* The inductive invariant, in the parts that the theorems rest on.        *)
(***************************************************************************)

\* Labels of a run that has no fetch-source result yet.
Unfetched == {"idle", "acquire", "beginRun", "readState", "fetch"}

\* Labels at which the parsed rows and the result of fetch-source are used.
Loading == {"parse", "loadBooks", "loadContributors", "countBooks",
            "countContributors", "countCards", "activate", "confirmActive"}

TablesFinite ==
  \A r \in Run : IsFiniteSet(books[r]) /\ IsFiniteSet(contribs[r])

\* The holder made the latest acquisition, after that of the active run.
Fence ==
  /\ \A r \in Run : grant[r] <= epoch
  /\ lockOwner # NoRun =>
       /\ grant[lockOwner] = epoch
       /\ activeGeneration # NoRun => grant[activeGeneration] < epoch

\* A run that has fetched nothing has published nothing and parsed nothing.
Fresh ==
  \A r \in Run :
    /\ pc[r] \in Unfetched => activeGeneration # r /\ chunks[r] = NoSha
    /\ pc[r] \in {"idle", "acquire"} => status[r] = "none"

\* Past its activation, or after a skip, a run does not hold the lock.
Released ==
  \A r \in Run :
    pc[r] \in Tail \union {"markSkipped", "done"} => lockOwner # r

\* The version a run loads is the one it fetched, and the ZIP holds it.
Source ==
  /\ GenerationNamesItsSource
  /\ \A r \in Run :
       /\ pc[r] \in Loading => got[r] \in Sha
       /\ pc[r] = "parse" => zip[r] = got[r]

\* What makes RunHistoryIsTrue inductive.
Recorded ==
  /\ RunHistoryIsTrue
  /\ sourceSha # NoSha => activeGeneration # NoRun
  /\ \A r \in Run :
       /\ pc[r] \in Tail => /\ activeGeneration # NoRun
                            /\ grant[activeGeneration] >= grant[r]
       /\ snap[r].sha # NoSha => activeGeneration # NoRun
       /\ pc[r] \in {"markUnchanged", "releaseUnchanged"}
            => activeGeneration # NoRun

\* While a run holds the lock, its snapshot of the book count is current.
SnapshotCurrent ==
  \A r \in Run :
    /\ lockOwner = r /\ pc[r] \in Loading \union {"fetch"}
         => snap[r].book = activeBookCount
    /\ pc[r] \in {"activate", "confirmActive"}
         => 10 * Size[got[r]] >= 8 * snap[r].book

IInv == /\ TypeOK /\ TablesFinite /\ Fence /\ Fresh /\ Released /\ Source
        /\ Recorded /\ SnapshotCurrent

-----------------------------------------------------------------------------
(***************************************************************************)
(* The control flow of a run, which every part of the proof uses.          *)
(***************************************************************************)
Flows(l, m) ==
  \/ l = "idle"               /\ m = "acquire"
  \/ l = "acquire"            /\ m \in {"beginRun", "markSkipped"}
  \/ l = "markSkipped"        /\ m = "done"
  \/ l = "beginRun"           /\ m = "readState"
  \/ l = "readState"          /\ m = "fetch"
  \/ l = "fetch"              /\ m \in {"markUnchanged", "parse"}
  \/ l = "markUnchanged"      /\ m = "releaseUnchanged"
  \/ l = "releaseUnchanged"   /\ m = "done"
  \/ l = "parse"              /\ m = "loadBooks"
  \/ l = "loadBooks"          /\ m \in {"loadBooks", "loadContributors"}
  \/ l = "loadContributors"   /\ m \in {"loadContributors", "countBooks"}
  \/ l = "countBooks"         /\ m = "countContributors"
  \/ l = "countContributors"  /\ m = "countCards"
  \/ l = "countCards"         /\ m = "activate"
  \/ l = "activate"           /\ m \in {"finalize", "confirmActive"}
  \/ l = "confirmActive"      /\ m = "finalize"
  \/ l = "finalize"           /\ m = "deleteContributors"
  \/ l = "deleteContributors" /\ m \in {"deleteBooks", "cleanupR2"}
  \/ l = "deleteBooks"        /\ m = "cleanupR2"
  \/ l = "cleanupR2"          /\ m = "done"
  \/ l = "markFailed"         /\ m = "releaseFailed"
  \/ l = "releaseFailed"      /\ m = "errored"
  \/ l \in Active             /\ m \in {StepStart(l), ThrowTarget(l), "errored"}

\* One run moves along its flow; the others stay.
Moves(r) ==
  /\ pc' = [pc EXCEPT ![r] = pc'[r]]
  /\ Flows(pc[r], pc'[r])
  /\ tries' \in [Run -> 0 .. Retries]

LEMMA AttemptFailsMoves ==
  ASSUME TypeOK, NEW r \in Run, pc[r] \in Active, AttemptFails(r)
  PROVE  Moves(r)
BY BoundAssumption DEF TypeOK, AttemptFails, Goto, Moves, Flows

LEMMA SucceedsMoves ==
  ASSUME TypeOK, NEW r \in Run, NEW l, Flows(pc[r], l), StepSucceeds(r, l)
  PROVE  Moves(r)
BY BoundAssumption DEF TypeOK, StepSucceeds, Goto, Moves

LEMMA StepEndsMoves ==
  ASSUME TypeOK, NEW r \in Run, pc[r] \in Active, NEW l, Flows(pc[r], l),
         StepEnds(r, l)
  PROVE  Moves(r)
BY AttemptFailsMoves, SucceedsMoves DEF StepEnds

LEMMA ContinueMoves ==
  ASSUME TypeOK, NEW r \in Run, NEW l, Flows(pc[r], l), Continue(r, l)
  PROVE  Moves(r)
BY DEF TypeOK, Continue, Goto, Moves

LEMMA ThrowMoves ==
  ASSUME TypeOK, NEW r \in Run, pc[r] \in Locked, ThrowNonRetryable(r)
  PROVE  Moves(r)
BY SucceedsMoves
   DEF ThrowNonRetryable, Flows, ThrowTarget, Active, Locked, Outer

LEMMA RunMoves ==
  ASSUME TypeOK, NEW r \in Run, Start(r) \/ RunStep(r) \/ Kill(r)
  PROVE  Moves(r)
<1> USE DEF At, Active, Locked, Tail, Outer
<1>1. CASE Start(r)
  BY <1>1, ContinueMoves DEF Start, Flows
<1>2. CASE Kill(r)
  BY <1>2, BoundAssumption DEF Kill, Goto, Moves, TypeOK, Flows
<1>3. CASE Acquire(r)
  BY <1>3, StepEndsMoves DEF Acquire, Flows
<1>4. CASE MarkSkipped(r)
  BY <1>4, StepEndsMoves DEF MarkSkipped, Flows
<1>5. CASE FetchSource(r)
  BY <1>5, StepEndsMoves, ThrowMoves DEF FetchSource, Flows
<1>6. CASE LoadBooks(r)
  BY <1>6, AttemptFailsMoves, SucceedsMoves, ContinueMoves DEF LoadBooks, Flows
<1>7. CASE LoadContributors(r)
  BY <1>7, AttemptFailsMoves, SucceedsMoves, ContinueMoves
     DEF LoadContributors, Flows
<1>8. CASE BeginRun(r) \/ MarkUnchanged(r) \/ CountBooks(r)
           \/ CountContributors(r) \/ DeleteContributors(r) \/ MarkFailed(r)
  BY <1>8, ContinueMoves
     DEF BeginRun, MarkUnchanged, CountBooks, CountContributors,
         DeleteContributors, MarkFailed, Flows
<1>9. CASE ReadState(r) \/ ReleaseUnchanged(r) \/ FinalizeRun(r)
           \/ DeleteBooks(r) \/ DeleteErrorCaught(r) \/ CleanupR2(r)
           \/ ReleaseFailed(r)
  BY <1>9, StepEndsMoves
     DEF ReadState, ReleaseUnchanged, FinalizeRun, DeleteBooks,
         DeleteErrorCaught, CleanupR2, ReleaseFailed, Flows
<1>10. CASE ParseSource(r) \/ CountCards(r) \/ ConfirmActive(r)
  BY <1>10, StepEndsMoves, ThrowMoves
     DEF ParseSource, CountCards, ConfirmActive, Flows
<1>11. CASE ActivateGeneration(r)
  BY <1>11, StepEndsMoves, ContinueMoves DEF ActivateGeneration, Flows
<1>12. CASE StepFails(r)
  BY <1>12, AttemptFailsMoves DEF StepFails
<1> QED
  BY <1>1, <1>2, <1>3, <1>4, <1>5, <1>6, <1>7, <1>8, <1>9, <1>10, <1>11,
     <1>12 DEF RunStep
LEMMA MovesTypes ==
  ASSUME TypeOK, NEW r \in Run, Moves(r)
  PROVE  /\ pc' \in [Run -> Labels] /\ tries' \in [Run -> 0 .. Retries]
         /\ \A o \in Run \ {r} : pc'[o] = pc[o]
<1>1. pc'[r] \in Labels
  BY DEF TypeOK, Moves, Flows, Labels, Active, Over, Locked, Tail, Outer,
         StepStart, ThrowTarget
<1> QED
  BY <1>1 DEF TypeOK, Moves

-----------------------------------------------------------------------------
(***************************************************************************)
(* Types.  The activation stores Size[got[r]], so they need Source.        *)
(***************************************************************************)
LEMMA TypeRunStep ==
  ASSUME TypeOK, TablesFinite, Source, NEW r \in Run,
         Start(r) \/ RunStep(r) \/ Kill(r)
  PROVE  TypeOK' /\ TablesFinite'
<1>1. pc' \in [Run -> Labels] /\ tries' \in [Run -> 0 .. Retries]
  BY RunMoves, MovesTypes
<1> USE <1>1 DEF stores, state, catalog, lock, objects, results, counts,
                history
<1>2. CASE Start(r)
  BY <1>2 DEF Start, TypeOK, TablesFinite
<1>3. CASE Acquire(r)
  BY <1>3 DEF Acquire, TypeOK, TablesFinite
<1>4. CASE MarkSkipped(r)
  BY <1>4 DEF MarkSkipped, TypeOK, TablesFinite, Statuses
<1>5. CASE BeginRun(r)
  BY <1>5 DEF BeginRun, TypeOK, TablesFinite, Statuses
<1>6. CASE ReadState(r)
  BY <1>6 DEF ReadState, TypeOK, TablesFinite, Snapshot
<1>7. CASE FetchSource(r)
  BY <1>7 DEF FetchSource, FetchedVersion, TypeOK, TablesFinite
<1>8. CASE MarkUnchanged(r)
  BY <1>8 DEF MarkUnchanged, TypeOK, TablesFinite, Statuses
<1>9. CASE ReleaseUnchanged(r) \/ ReleaseFailed(r)
  BY <1>9 DEF ReleaseUnchanged, ReleaseFailed, ReleaseLock, TypeOK,
              TablesFinite
<1>10. CASE ParseSource(r)
  BY <1>10 DEF ParseSource, TypeOK, TablesFinite
<1>11. CASE LoadBooks(r)
  <2>1. books' \in [Run -> SUBSET Nat]
    BY <1>11 DEF LoadBooks, TypeOK
  <2>3. IsFiniteSet(books[r] \union {pos[r] + 1})
    BY FS_AddElement DEF TablesFinite
  <2>4. ASSUME NEW g \in Run PROVE IsFiniteSet(books'[g])
    BY <1>11, <2>3 DEF LoadBooks, TypeOK, TablesFinite
  <2>2. pos' \in [Run -> Nat]
    BY <1>11 DEF LoadBooks, TypeOK
  <2> QED
    BY <1>11, <2>1, <2>2, <2>4 DEF LoadBooks, TypeOK, TablesFinite
<1>12. CASE LoadContributors(r)
  <2>1. contribs' \in [Run -> SUBSET Nat]
    BY <1>12 DEF LoadContributors, TypeOK
  <2>3. IsFiniteSet(contribs[r] \union {pos[r] + 1})
    BY FS_AddElement DEF TablesFinite
  <2>4. ASSUME NEW g \in Run PROVE IsFiniteSet(contribs'[g])
    BY <1>12, <2>3 DEF LoadContributors, TypeOK, TablesFinite
  <2>2. pos' \in [Run -> Nat]
    BY <1>12 DEF LoadContributors, TypeOK
  <2> QED
    BY <1>12, <2>1, <2>2, <2>4 DEF LoadContributors, TypeOK, TablesFinite
<1>13. CASE CountBooks(r) \/ CountContributors(r)
  <2>1. Cardinality(books[r]) \in Nat /\ Cardinality(contribs[r]) \in Nat
    BY FS_CardinalityType DEF TablesFinite
  <2> QED
    BY <1>13, <2>1 DEF CountBooks, CountContributors, TypeOK,
                       TablesFinite
<1>14. CASE CountCards(r) \/ ConfirmActive(r) \/ DeleteErrorCaught(r)
            \/ StepFails(r) \/ Kill(r)
  BY <1>14 DEF CountCards, ConfirmActive, DeleteErrorCaught, StepFails, Kill,
               TypeOK, TablesFinite
<1>15. CASE ActivateGeneration(r)
  <2>1. got[r] \in Sha
    BY <1>15 DEF ActivateGeneration, At, Source, Loading
  <2>2. Size[got[r]] \in Nat
    BY <2>1, SizeAssumption
  <2> QED
    BY <1>15, <2>1, <2>2 DEF ActivateGeneration, TypeOK, TablesFinite
<1>16. CASE FinalizeRun(r) \/ MarkFailed(r)
  BY <1>16 DEF FinalizeRun, MarkFailed, TypeOK, TablesFinite, Statuses
<1>17. CASE DeleteContributors(r) \/ DeleteBooks(r)
  BY <1>17, FS_EmptySet DEF DeleteContributors, DeleteBooks, OnlyGeneration,
                            TypeOK, TablesFinite
<1>18. CASE CleanupR2(r)
  BY <1>18 DEF CleanupR2, TypeOK, TablesFinite
<1> QED
  BY <1>2, <1>3, <1>4, <1>5, <1>6, <1>7, <1>8, <1>9, <1>10, <1>11, <1>12,
     <1>13, <1>14, <1>15, <1>16, <1>17, <1>18 DEF RunStep

-----------------------------------------------------------------------------
(***************************************************************************)
(* Which statements write what.                                            *)
(***************************************************************************)
Step(r) == Start(r) \/ RunStep(r) \/ Kill(r)

LEMMA Writers ==
  ASSUME NEW r \in Run, Step(r)
  PROVE  /\ UNCHANGED catalog \/ ActivateGeneration(r)
         /\ \/ UNCHANGED lock
            \/ Acquire(r) \/ ActivateGeneration(r)
            \/ ReleaseUnchanged(r) \/ ReleaseFailed(r)
         /\ UNCHANGED history \/ Acquire(r)
         /\ UNCHANGED snap \/ ReadState(r)
         /\ UNCHANGED got \/ FetchSource(r)
         /\ UNCHANGED zip \/ FetchSource(r) \/ CleanupR2(r)
         /\ UNCHANGED chunks \/ ParseSource(r) \/ CleanupR2(r)
         /\ \/ UNCHANGED status
            \/ MarkSkipped(r) \/ BeginRun(r) \/ MarkUnchanged(r)
            \/ FinalizeRun(r) \/ MarkFailed(r)
<1> USE DEF stores, state, objects, results, counts
<1>1. CASE Start(r) \/ Kill(r) \/ StepFails(r) \/ CountCards(r)
           \/ ConfirmActive(r) \/ DeleteErrorCaught(r)
  BY <1>1 DEF Start, Kill, StepFails, CountCards, ConfirmActive,
              DeleteErrorCaught
<1>2. CASE MarkSkipped(r) \/ BeginRun(r) \/ MarkUnchanged(r)
           \/ FinalizeRun(r) \/ MarkFailed(r)
  BY <1>2 DEF MarkSkipped, BeginRun, MarkUnchanged, FinalizeRun, MarkFailed
<1>3. CASE Acquire(r) \/ ReleaseUnchanged(r) \/ ReleaseFailed(r)
           \/ ActivateGeneration(r)
  BY <1>3 DEF Acquire, ReleaseUnchanged, ReleaseFailed, ActivateGeneration
<1>4. CASE ReadState(r) \/ FetchSource(r) \/ ParseSource(r) \/ CleanupR2(r)
  BY <1>4 DEF ReadState, FetchSource, ParseSource, CleanupR2
<1>5. CASE LoadBooks(r) \/ LoadContributors(r) \/ CountBooks(r)
           \/ CountContributors(r) \/ DeleteContributors(r) \/ DeleteBooks(r)
  BY <1>5 DEF LoadBooks, LoadContributors, CountBooks, CountContributors,
              DeleteContributors, DeleteBooks
<1> QED
  BY <1>1, <1>2, <1>3, <1>4, <1>5 DEF Step, RunStep

\* Control flow, with the labels the invariant speaks of.
LEMMA StepMoves ==
  ASSUME TypeOK, NEW r \in Run, Step(r)
  PROVE  /\ \A o \in Run \ {r} : pc'[o] = pc[o]
         /\ pc'[r] \in Unfetched => pc[r] \in Unfetched
         /\ pc'[r] \in {"idle", "acquire"} => pc[r] \in {"idle", "acquire"}
         /\ pc'[r] \in Tail =>
              pc[r] \in Tail \union {"activate", "confirmActive"}
         /\ pc'[r] = "markSkipped" => pc[r] \in {"markSkipped", "acquire"}
         /\ pc'[r] = "done" =>
              pc[r] \in {"markSkipped", "releaseUnchanged", "cleanupR2"}
         /\ pc'[r] \in Loading => pc[r] \in Loading \union {"fetch"}
         /\ pc'[r] = "parse" => pc[r] \in {"parse", "fetch"}
         /\ pc'[r] \in {"markUnchanged", "releaseUnchanged"} =>
              pc[r] \in {"markUnchanged", "releaseUnchanged", "fetch"}
         /\ pc'[r] = "fetch" => pc[r] \in {"fetch", "readState"}
         /\ pc'[r] \in {"activate", "confirmActive"} =>
              pc[r] \in {"countCards", "activate", "confirmActive"}
<1>1. Moves(r)
  BY RunMoves DEF Step
<1>2. Flows(pc[r], pc'[r]) /\ \A o \in Run \ {r} : pc'[o] = pc[o]
  BY <1>1, MovesTypes DEF Moves
<1> QED
  BY <1>2 DEF Flows, StepStart, ThrowTarget, Active, Locked, Tail, Outer,
              Unfetched, Loading

\* How an attempt leaves the program counter.
LEMMA EndsAt ==
  ASSUME TypeOK, NEW r \in Run
  PROVE  /\ \A l : StepEnds(r, l) =>
              pc'[r] \in {l, StepStart(pc[r]), ThrowTarget(pc[r])}
         /\ AttemptFails(r) =>
              pc'[r] \in {StepStart(pc[r]), ThrowTarget(pc[r])}
         /\ ThrowNonRetryable(r) => pc'[r] = "markFailed"
         /\ \A l : Continue(r, l) => pc'[r] = l
         /\ Kill(r) => pc'[r] = "errored"
BY DEF StepEnds, StepSucceeds, AttemptFails, ThrowNonRetryable, Continue, Kill,
       Goto, TypeOK

\* The statements that a label stands for.
LEMMA StatementAt ==
  ASSUME NEW r \in Run, Step(r)
  PROVE  /\ pc[r] = "acquire" => Acquire(r) \/ StepFails(r) \/ Kill(r)
         /\ pc[r] = "readState" => ReadState(r) \/ StepFails(r) \/ Kill(r)
         /\ pc[r] = "fetch" => FetchSource(r) \/ StepFails(r) \/ Kill(r)
         /\ pc[r] = "releaseUnchanged" =>
              ReleaseUnchanged(r) \/ StepFails(r) \/ Kill(r)
         /\ pc[r] = "countCards" => CountCards(r) \/ StepFails(r) \/ Kill(r)
         /\ pc[r] = "activate" =>
              ActivateGeneration(r) \/ StepFails(r) \/ Kill(r)
         /\ pc[r] = "confirmActive" =>
              ConfirmActive(r) \/ StepFails(r) \/ Kill(r)
BY DEF Step, RunStep, At, Start, Acquire, MarkSkipped, BeginRun, ReadState,
       FetchSource, MarkUnchanged, ReleaseUnchanged, ParseSource, LoadBooks,
       LoadContributors, CountBooks, CountContributors, CountCards,
       ActivateGeneration, ConfirmActive, FinalizeRun, DeleteContributors,
       DeleteBooks, DeleteErrorCaught, CleanupR2, MarkFailed, ReleaseFailed

-----------------------------------------------------------------------------
(***************************************************************************)
(* Each part of the invariant is preserved by the steps of a run.          *)
(***************************************************************************)
LEMMA FenceStep ==
  ASSUME TypeOK, Fence, Fresh, NEW r \in Run, Step(r)
  PROVE  Fence'
<1> USE RunAssumption DEF TypeOK, Fence, state, catalog, lock, history
<1>1. CASE Acquire(r)
  <2>1. activeGeneration # r
    BY <1>1 DEF Acquire, At, Fresh, Unfetched
  <2> QED
    BY <1>1, <2>1 DEF Acquire
<1>2. CASE ActivateGeneration(r)
  BY <1>2 DEF ActivateGeneration, MayActivate
<1>3. CASE ReleaseUnchanged(r) \/ ReleaseFailed(r)
  BY <1>3 DEF ReleaseUnchanged, ReleaseFailed, ReleaseLock
<1>4. CASE UNCHANGED <<catalog, lock, history>>
  BY <1>4
<1> QED
  BY <1>1, <1>2, <1>3, <1>4, Writers

LEMMA FreshStep ==
  ASSUME TypeOK, Fresh, NEW r \in Run, Step(r)
  PROVE  Fresh'
<1> SUFFICES ASSUME NEW o \in Run
             PROVE  /\ pc'[o] \in Unfetched =>
                         activeGeneration' # o /\ chunks'[o] = NoSha
                    /\ pc'[o] \in {"idle", "acquire"} => status'[o] = "none"
  BY DEF Fresh
<1>1. ASSUME pc'[o] \in Unfetched
      PROVE  activeGeneration' # o /\ chunks'[o] = NoSha
  <2>1. pc[o] \in Unfetched
    BY <1>1, StepMoves
  <2>2. activeGeneration' # o
    BY <2>1, Writers DEF ActivateGeneration, At, Unfetched, Fresh, state, catalog
  <2>3. chunks'[o] = NoSha
    BY <2>1, Writers DEF ParseSource, CleanupR2, At, Unfetched, Fresh, TypeOK,
                         objects
  <2> QED
    BY <2>2, <2>3
<1>2. ASSUME pc'[o] \in {"idle", "acquire"}
      PROVE  status'[o] = "none"
  <2>1. pc[o] \in {"idle", "acquire"}
    BY <1>2, StepMoves
  <2> QED
    BY <2>1, Writers
       DEF MarkSkipped, BeginRun, MarkUnchanged, FinalizeRun, MarkFailed, At,
           Fresh, TypeOK
<1> QED
  BY <1>1, <1>2

LEMMA ReleasedStep ==
  ASSUME TypeOK, Fence, Fresh, Released, NEW r \in Run, Step(r)
  PROVE  Released'
<1> USE RunAssumption DEF state, catalog, lock
<1> SUFFICES ASSUME NEW o \in Run,
                    pc'[o] \in Tail \union {"markSkipped", "done"}
             PROVE  lockOwner' # o
  BY DEF Released
<1>1. CASE o # r
  <2>1. lockOwner # o
    BY <1>1, StepMoves DEF Released
  <2> QED
    BY <1>1, <2>1, Writers
       DEF Acquire, ActivateGeneration, ReleaseUnchanged, ReleaseFailed,
           ReleaseLock
<1>2. CASE o = r
  <2>1. CASE pc[r] = "acquire"
    <3>1. Acquire(r) /\ pc'[r] = "markSkipped"
      BY <1>2, <2>1, StepMoves, StatementAt, EndsAt
         DEF StepFails, StepStart, ThrowTarget, Outer, Tail
    <3>2. ~LockGrantable(r)
      BY <2>1, <3>1, EndsAt DEF Acquire, StepStart, ThrowTarget, Outer
    <3> QED
      BY <1>2, <3>1, <3>2 DEF Acquire, LockGrantable
  <2>2. CASE pc[r] \in Tail \union {"markSkipped", "cleanupR2"}
    <3>1. lockOwner # r
      BY <2>2 DEF Released, Tail
    <3> QED
      BY <1>2, <2>2, <3>1, Writers
         DEF Acquire, ActivateGeneration, ReleaseUnchanged, ReleaseFailed,
             At, Tail
  <2>3. CASE pc[r] = "releaseUnchanged"
    BY <1>2, <2>3, StatementAt, EndsAt
       DEF ReleaseUnchanged, ReleaseLock, StepFails, StepStart, ThrowTarget,
           Outer, Tail
  <2>4. CASE pc[r] = "activate"
    BY <1>2, <2>4, StatementAt, EndsAt
       DEF ActivateGeneration, StepFails, StepStart, ThrowTarget, Outer, Tail
  <2>5. CASE pc[r] = "confirmActive"
    <3>1. ConfirmActive(r) /\ activeGeneration = r
      BY <1>2, <2>5, StatementAt, EndsAt
         DEF ConfirmActive, StepFails, StepStart, ThrowTarget, Outer, Tail
    <3> QED
      BY <1>2, <3>1 DEF ConfirmActive, Fence, TypeOK, stores
  <2> QED
    BY <1>2, <2>1, <2>2, <2>3, <2>4, <2>5, StepMoves
<1> QED
  BY <1>1, <1>2

LEMMA SourceStep ==
  ASSUME TypeOK, Fresh, Source, NEW r \in Run, Step(r)
  PROVE  Source'
<1> USE DEF state, catalog, objects
<1> SUFFICES ASSUME NEW o \in Run
             PROVE  /\ chunks'[o] # NoSha => chunks'[o] = got'[o]
                    /\ activeGeneration' = o => sourceSha' = got'[o]
                    /\ pc'[o] \in Loading => got'[o] \in Sha
                    /\ pc'[o] = "parse" => zip'[o] = got'[o]
  BY DEF Source, GenerationNamesItsSource
<1>1. CASE FetchSource(r)
  <2>1. chunks[r] = NoSha /\ activeGeneration # r
    BY <1>1 DEF FetchSource, At, Fresh, Unfetched
  <2>2. UNCHANGED <<chunks, activeGeneration, sourceSha>>
    BY <1>1 DEF FetchSource, stores
  <2>3. pc'[r] \in Loading => pc'[r] = "parse"
    BY <1>1, EndsAt DEF FetchSource, At, Loading, StepStart, ThrowTarget, Outer
  <2>4. pc'[r] = "parse" => got'[r] \in Sha /\ zip'[r] = got'[r]
    BY <1>1, EndsAt DEF FetchSource, FetchedVersion, At, StepStart,
                        ThrowTarget, Outer, TypeOK
  <2> QED
    BY <1>1, <2>1, <2>2, <2>3, <2>4, StepMoves
       DEF FetchSource, FetchedVersion, Source, GenerationNamesItsSource,
           TypeOK
<1>2. CASE ~FetchSource(r)
  <2>1. UNCHANGED got
    BY <1>2, Writers
  <2>2. pc'[o] \in Loading => pc[o] \in Loading
    BY <1>2, StepMoves, StatementAt, EndsAt
       DEF StepFails, StepStart, ThrowTarget, Outer, Loading
  <2>3. pc'[o] = "parse" => pc[o] = "parse"
    BY <1>2, StepMoves, StatementAt, EndsAt
       DEF StepFails, StepStart, ThrowTarget, Outer
  <2>4. pc'[o] = "parse" => zip'[o] = zip[o]
    BY <1>2, <2>3, Writers DEF CleanupR2, At, TypeOK
  <2>5. chunks'[o] # NoSha => chunks'[o] = got[o]
    BY Writers DEF ParseSource, CleanupR2, At, Source,
                   GenerationNamesItsSource, TypeOK
  <2>6. activeGeneration' = o => sourceSha' = got[o]
    BY Writers DEF ActivateGeneration, Source, GenerationNamesItsSource
  <2> QED
    BY <2>1, <2>2, <2>3, <2>4, <2>5, <2>6 DEF Source
<1> QED
  BY <1>1, <1>2

LEMMA RecordedStep ==
  ASSUME TypeOK, Fence, Fresh, Recorded, NEW r \in Run, Step(r)
  PROVE  Recorded'
<1> USE RunAssumption DEF state, catalog, history
<1>1. activeGeneration # NoRun => activeGeneration' # NoRun
  BY Writers DEF ActivateGeneration
<1>2. ASSUME NEW o \in Run, activeGeneration # NoRun,
             grant[activeGeneration] >= grant[o],
             pc[o] \notin {"idle", "acquire"}
      PROVE  /\ activeGeneration' # NoRun
             /\ grant'[activeGeneration'] >= grant'[o]
  <2>1. CASE Acquire(r)
    BY <1>2, <2>1 DEF Acquire, At, Fresh, Unfetched, TypeOK
  <2>2. CASE ActivateGeneration(r)
    BY <1>2, <2>2 DEF ActivateGeneration, MayActivate, Fence, TypeOK
  <2>3. CASE UNCHANGED <<catalog, history>>
    BY <1>2, <2>3
  <2> QED
    BY <2>1, <2>2, <2>3, Writers
<1>3. ASSUME NEW o \in Run, pc'[o] \in Tail
      PROVE  /\ activeGeneration' # NoRun
             /\ grant'[activeGeneration'] >= grant'[o]
  <2>1. CASE pc[o] \in Tail
    BY <1>2, <2>1 DEF Recorded, Tail
  <2>2. CASE pc[o] = "activate"
    BY <1>3, <2>2, StepMoves, StatementAt, EndsAt
       DEF ActivateGeneration, MayActivate, StepFails, StepStart, ThrowTarget,
           Outer, Tail, TypeOK
  <2>3. CASE pc[o] = "confirmActive"
    BY <1>3, <2>3, StepMoves, StatementAt, EndsAt
       DEF ConfirmActive, StepFails, StepStart, ThrowTarget, Outer, Tail,
           TypeOK, stores
  <2> QED
    BY <1>3, <2>1, <2>2, <2>3, StepMoves
<1>4. ASSUME NEW o \in Run, status'[o] = "completed"
      PROVE  /\ activeGeneration' # NoRun
             /\ grant'[activeGeneration'] >= grant'[o]
  <2>1. CASE status[o] = "completed"
    BY <1>2, <2>1 DEF Recorded, RunHistoryIsTrue, Fresh
  <2>2. CASE status[o] # "completed"
    <3>1. FinalizeRun(r) /\ o = r
      BY <1>4, <2>2, Writers
         DEF MarkSkipped, BeginRun, MarkUnchanged, FinalizeRun, MarkFailed,
             TypeOK
    <3>2. pc[o] = "finalize"
      BY <3>1 DEF FinalizeRun, At
    <3> QED
      BY <1>2, <3>2 DEF Recorded, Tail
  <2> QED
    BY <2>1, <2>2
<1>5. ASSUME NEW o \in Run,
             \/ status'[o] = "unchanged"
             \/ snap'[o].sha # NoSha
             \/ pc'[o] \in {"markUnchanged", "releaseUnchanged"}
      PROVE  activeGeneration' # NoRun
  <2>1. CASE status'[o] = "unchanged"
    BY <1>1, <2>1, Writers
       DEF MarkSkipped, BeginRun, MarkUnchanged, FinalizeRun, MarkFailed, At,
           TypeOK, Recorded, RunHistoryIsTrue
  <2>2. CASE snap'[o].sha # NoSha
    BY <1>1, <2>2, Writers DEF ReadState, TypeOK, Recorded
  <2>3. CASE pc'[o] \in {"markUnchanged", "releaseUnchanged"}
    <3>1. CASE pc[o] \in {"markUnchanged", "releaseUnchanged"}
      BY <1>1, <3>1 DEF Recorded
    <3>2. CASE pc[o] = "fetch"
      <4>1. FetchSource(o) /\ pc'[o] = "markUnchanged"
        BY <2>3, <3>2, StepMoves, StatementAt, EndsAt
           DEF FetchSource, StepFails, StepStart, ThrowTarget, Outer
      <4>2. upstream = snap[o].sha
        BY <4>1, EndsAt DEF FetchSource, At, StepStart, ThrowTarget, Outer
      <4> QED
        BY <1>1, <4>2, ShaAssumption DEF Recorded, TypeOK
    <3> QED
      BY <2>3, <3>1, <3>2, StepMoves
  <2> QED
    BY <1>5, <2>1, <2>2, <2>3
<1>6. sourceSha' # NoSha => activeGeneration' # NoRun
  BY Writers DEF Recorded, ActivateGeneration
<1> QED
  BY <1>3, <1>4, <1>5, <1>6 DEF Recorded, RunHistoryIsTrue

LEMMA SnapshotStep ==
  ASSUME TypeOK, Fence, Fresh, Source, SnapshotCurrent,
         NEW r \in Run, Step(r)
  PROVE  SnapshotCurrent'
<1> USE RunAssumption DEF state, catalog, lock
<1>1. ASSUME NEW o \in Run, lockOwner' = o,
             pc'[o] \in Loading \union {"fetch"}
      PROVE  snap'[o].book = activeBookCount'
  <2>1. lockOwner = o
    <3>1. CASE Acquire(r)
      BY <1>1, <3>1, EndsAt
         DEF Acquire, At, StepStart, ThrowTarget, Outer, Loading
    <3>2. CASE ActivateGeneration(r) \/ ReleaseUnchanged(r)
               \/ ReleaseFailed(r)
      BY <1>1, <3>2
         DEF ActivateGeneration, ReleaseUnchanged, ReleaseFailed, ReleaseLock
    <3> QED
      BY <1>1, <3>1, <3>2, Writers
  <2>2. UNCHANGED activeBookCount
    BY <1>1, Writers DEF ActivateGeneration
  <2>3. CASE pc[o] \in Loading \union {"fetch"}
    <3>1. snap'[o] = snap[o]
      BY <2>3, Writers DEF ReadState, At, Loading, TypeOK
    <3> QED
      BY <2>1, <2>2, <2>3, <3>1 DEF SnapshotCurrent
  <2>4. CASE pc[o] = "readState"
    <3>1. ReadState(o)
      BY <1>1, <2>4, StepMoves, StatementAt, EndsAt
         DEF StepFails, StepStart, ThrowTarget, Outer, Loading
    <3> QED
      BY <2>2, <3>1 DEF ReadState, TypeOK
  <2> QED
    BY <1>1, <2>3, <2>4, StepMoves
<1>2. ASSUME NEW o \in Run, pc'[o] \in {"activate", "confirmActive"}
      PROVE  10 * Size[got'[o]] >= 8 * snap'[o].book
  <2>1. CASE pc[o] \in {"activate", "confirmActive"}
    BY <2>1, Writers DEF ReadState, FetchSource, At, SnapshotCurrent, TypeOK
  <2>2. CASE pc[o] = "countCards"
    <3>1. CountCards(o) /\ pc'[o] = "activate"
      BY <1>2, <2>2, StepMoves, StatementAt, EndsAt
         DEF CountCards, StepFails, StepStart, ThrowTarget, Outer
    <3>2. bookCount[o] = Size[got[o]] /\ 10 * bookCount[o] >= 8 * snap[o].book
      BY <2>2, <3>1, EndsAt DEF CountCards, CountsValid
    <3> QED
      BY <3>1, <3>2 DEF CountCards, results
  <2> QED
    BY <1>2, <2>1, <2>2, StepMoves
<1> QED
  BY <1>1, <1>2 DEF SnapshotCurrent

-----------------------------------------------------------------------------
(***************************************************************************)
(* The theorems.                                                           *)
(***************************************************************************)
LEMMA InitInv == Init => IInv
<1> SUFFICES ASSUME Init PROVE IInv
  OBVIOUS
<1>1. TypeOK
  BY BoundAssumption
     DEF Init, TypeOK, Statuses, Labels, Snapshot
<1>2. TablesFinite
  BY FS_EmptySet DEF Init, TablesFinite
<1> QED
  BY <1>1, <1>2, RunAssumption, ShaAssumption
     DEF Init, IInv, Fence, Fresh, Released, Source, GenerationNamesItsSource,
         Recorded, RunHistoryIsTrue, SnapshotCurrent, Tail, Loading

\* The lock expires or the server publishes: no run moves.
LEMMA EnvironmentInv ==
  ASSUME IInv, LockExpires \/ SourceChanges \/ UNCHANGED vars
  PROVE  IInv'
<1> USE DEF stores, state, catalog, lock, objects, results, counts, history
<1>1. /\ UNCHANGED <<catalog, lockOwner, books, contribs, status, objects,
                     results, history, pc, tries, pos>>
      /\ upstream' \in Sha
      /\ lockExpires' \in {"null", "future", "past"}
  BY DEF LockExpires, SourceChanges, vars, IInv, TypeOK
<1>2. TypeOK'
  BY <1>1 DEF IInv, TypeOK
<1>3. TablesFinite' /\ Fence' /\ Fresh' /\ Released'
  BY <1>1 DEF IInv, TablesFinite, Fence, Fresh, Released
<1>4. Source' /\ Recorded' /\ SnapshotCurrent'
  BY <1>1 DEF IInv, Source, GenerationNamesItsSource, Recorded,
              RunHistoryIsTrue, SnapshotCurrent
<1> QED
  BY <1>2, <1>3, <1>4 DEF IInv

LEMMA NextInv == IInv /\ [Next]_vars => IInv'
<1> SUFFICES ASSUME IInv, [Next]_vars PROVE IInv'
  OBVIOUS
<1>1. ASSUME NEW r \in Run, Step(r) PROVE IInv'
  BY <1>1, TypeRunStep, FenceStep, FreshStep, ReleasedStep, SourceStep,
     RecordedStep, SnapshotStep DEF IInv, Step
<1> QED
  BY <1>1, EnvironmentInv DEF Next, Step

\* The inductive invariant holds in every behaviour.
THEOREM Invariance == Spec => []IInv
BY InitInv, NextInv, PTL DEF Spec

\* Every variable keeps its type: in particular no step is attempted more
\* often than its limit, and no finished generation lacks a known source.
THEOREM TypeCorrectness == Spec => []TypeOK
BY Invariance, PTL DEF IInv

\* The history rows that finished runs leave are true.
THEOREM HistoryIsTrue == Spec => []RunHistoryIsTrue
BY Invariance, PTL DEF IInv, Recorded

\* A run that returned does not hold the lock.
THEOREM NoLockIsLeaked == Spec => []FinishedRunHoldsNoLock
<1>1. IInv => FinishedRunHoldsNoLock
  BY DEF IInv, Released, FinishedRunHoldsNoLock
<1> QED
  BY <1>1, Invariance, PTL

\* Hash, ZIP and rows of a generation agree.
THEOREM GenerationsAreNamedRight == Spec => []GenerationNamesItsSource
BY Invariance, PTL DEF IInv, Source

\* The lock fences: whatever expires, is retried or killed, the active pointer
\* only moves to a generation of a later lock holder.
THEOREM ActivationIsFenced == Spec => FencedActivation
<1>1. ASSUME IInv, [Next]_vars, activeGeneration' # activeGeneration,
             activeGeneration # NoRun
      PROVE  grant[activeGeneration'] > grant[activeGeneration]
  <2>1. PICK r \in Run : ActivateGeneration(r)
    BY <1>1, Writers DEF Next, Step, LockExpires, SourceChanges, vars, stores,
                         state, catalog
  <2> QED
    BY <1>1, <2>1, RunAssumption
       DEF ActivateGeneration, MayActivate, state, catalog, IInv, Fence, TypeOK
<1> QED
  BY <1>1, Invariance, PTL DEF Spec, FencedActivation

\* No switch loses more than a fifth of the books searches could find, even
\* though the check compares with a snapshot taken before the load.
THEOREM SwitchesRetainBooks == Spec => SwitchRetainsBooks
<1>1. ASSUME IInv, [Next]_vars, activeGeneration' # activeGeneration
      PROVE  10 * activeBookCount' >= 8 * activeBookCount
  <2>1. PICK r \in Run : ActivateGeneration(r)
    BY <1>1, Writers DEF Next, Step, LockExpires, SourceChanges, vars, stores,
                         state, catalog
  <2>2. lockOwner = r /\ activeBookCount' = Size[got[r]]
    BY <1>1, <2>1 DEF ActivateGeneration, MayActivate, state, catalog
  <2>3. /\ snap[r].book = activeBookCount
        /\ 10 * Size[got[r]] >= 8 * snap[r].book
    BY <2>1, <2>2, <1>1 DEF ActivateGeneration, At, IInv, SnapshotCurrent,
                            Loading
  <2> QED
    BY <2>2, <2>3
<1> QED
  BY <1>1, Invariance, PTL DEF Spec, SwitchRetainsBooks

-----------------------------------------------------------------------------
(***************************************************************************)
(* Refinement: if no run acquires while another is between its activation  *)
(* and its end, the searches see what CatalogPublish promises.             *)
(***************************************************************************)

\* Labels of a run that has tried to activate.
Validated == {"activate", "confirmActive", "markFailed", "releaseFailed"}
               \union Tail \union Over

\* Nobody holds the lock while a run publishes, and only the active run is in
\* the tail, where other generations are deleted.
Quiet ==
  \A r \in Run : /\ pc[r] \in Tail => activeGeneration = r
                 /\ Publishing(r) => lockOwner = NoRun

\* The active generation is whole, and its run writes no more rows.
Published ==
  /\ ActiveGenerationComplete
  /\ activeGeneration # NoRun =>
       /\ sourceSha \in Sha /\ activeBookCount = Size[sourceSha]
       /\ pc[activeGeneration] \in Validated

\* A run loads no rows but those of its version.
Loaded ==
  \A r \in Run :
    /\ pc[r] \in Unfetched => books[r] = {} /\ contribs[r] = {}
    /\ pc[r] \in Loading =>
         books[r] \subseteq Rows(got[r]) /\ contribs[r] \subseteq Rows(got[r])

\* What the holder of the lock has counted is still there.
CountedRows ==
  \A r \in Run :
    /\ pc[r] \in {"activate", "confirmActive"} => Size[got[r]] >= MinExpectedBooks
    /\ lockOwner = r =>
         /\ pc[r] \in {"countContributors", "countCards"} =>
              bookCount[r] = Cardinality(books[r])
         /\ pc[r] = "countCards" =>
              contributorCount[r] = Cardinality(contribs[r])
         /\ pc[r] \in {"activate", "confirmActive"} =>
              books[r] = Rows(got[r]) /\ contribs[r] = Rows(got[r])

Acquired == lockOwner # NoRun => epoch > 0

PInv == Quiet /\ Published /\ Loaded /\ CountedRows /\ Acquired

LEMMA TableWriters ==
  ASSUME NEW r \in Run, Step(r)
  PROVE  /\ UNCHANGED books \/ LoadBooks(r) \/ DeleteBooks(r)
         /\ \/ UNCHANGED contribs
            \/ LoadContributors(r) \/ DeleteContributors(r) \/ DeleteBooks(r)
         /\ UNCHANGED bookCount \/ CountBooks(r)
         /\ UNCHANGED contributorCount \/ CountContributors(r)
<1> USE DEF stores, state, objects, results, counts
<1>1. CASE Start(r) \/ Kill(r) \/ StepFails(r) \/ CountCards(r)
           \/ ConfirmActive(r) \/ DeleteErrorCaught(r)
  BY <1>1 DEF Start, Kill, StepFails, CountCards, ConfirmActive,
              DeleteErrorCaught
<1>2. CASE MarkSkipped(r) \/ BeginRun(r) \/ MarkUnchanged(r)
           \/ FinalizeRun(r) \/ MarkFailed(r)
  BY <1>2 DEF MarkSkipped, BeginRun, MarkUnchanged, FinalizeRun, MarkFailed
<1>3. CASE Acquire(r) \/ ReleaseUnchanged(r) \/ ReleaseFailed(r)
           \/ ActivateGeneration(r)
  BY <1>3 DEF Acquire, ReleaseUnchanged, ReleaseFailed, ActivateGeneration
<1>4. CASE ReadState(r) \/ FetchSource(r) \/ ParseSource(r) \/ CleanupR2(r)
  BY <1>4 DEF ReadState, FetchSource, ParseSource, CleanupR2
<1>5. CASE LoadBooks(r) \/ LoadContributors(r) \/ CountBooks(r)
           \/ CountContributors(r) \/ DeleteContributors(r) \/ DeleteBooks(r)
  BY <1>5 DEF LoadBooks, LoadContributors, CountBooks, CountContributors,
              DeleteContributors, DeleteBooks
<1> QED
  BY <1>1, <1>2, <1>3, <1>4, <1>5 DEF Step, RunStep

\* More of the control flow.
LEMMA CountMoves ==
  ASSUME TypeOK, NEW r \in Run, Step(r)
  PROVE  /\ pc'[r] = "countContributors" => CountBooks(r)
         /\ pc'[r] = "countCards" => CountContributors(r)
         /\ pc[r] \in Validated => pc'[r] \in Validated
         /\ pc[r] \notin Over
<1>1. Moves(r)
  BY RunMoves DEF Step
<1>2. Flows(pc[r], pc'[r])
  BY <1>1 DEF Moves
<1> USE DEF Flows, StepStart, ThrowTarget, Active, Locked, Tail, Outer
<1>3. /\ pc'[r] = "countContributors" => pc[r] = "countBooks"
      /\ pc'[r] = "countCards" => pc[r] = "countContributors"
  BY <1>2
<1>4. /\ pc[r] \in Validated => pc'[r] \in Validated
      /\ pc[r] \notin Over
  BY <1>2 DEF Validated, Over
<1>5. /\ pc[r] = "countBooks" => CountBooks(r) \/ StepFails(r) \/ Kill(r)
      /\ pc[r] = "countContributors" =>
           CountContributors(r) \/ StepFails(r) \/ Kill(r)
  BY DEF Step, RunStep, At, Start, Acquire, MarkSkipped, BeginRun, ReadState,
         FetchSource, MarkUnchanged, ReleaseUnchanged, ParseSource, LoadBooks,
         LoadContributors, CountBooks, CountContributors, CountCards,
         ActivateGeneration, ConfirmActive, FinalizeRun, DeleteContributors,
         DeleteBooks, DeleteErrorCaught, CleanupR2, MarkFailed, ReleaseFailed
<1>6. StepFails(r) \/ Kill(r) =>
        pc'[r] \in {StepStart(pc[r]), ThrowTarget(pc[r]), "errored"}
  BY EndsAt DEF StepFails
<1> QED
  BY <1>3, <1>4, <1>5, <1>6

LEMMA QuietStep ==
  ASSUME TailExclusive, IInv, PInv, NEW r \in Run, Step(r)
  PROVE  Quiet'
<1> USE RunAssumption DEF IInv, PInv, state, catalog, lock, stores
<1>1. \A o \in Run \ {r} : pc'[o] = pc[o]
  BY StepMoves
<1>2. CASE Acquire(r)
  <2>1. \A o \in Run : ~ Publishing(o) /\ activeGeneration' = activeGeneration
    BY <1>2 DEF Acquire
  <2>2. pc'[r] \notin Tail /\ activeGeneration # r
    BY <1>2, EndsAt
       DEF Acquire, At, StepStart, ThrowTarget, Outer, Tail, Fresh, Unfetched
  <2> QED BY <1>1, <2>1, <2>2 DEF Quiet, Publishing
<1>3. CASE ActivateGeneration(r) /\ MayActivate(r)
  <2>1. activeGeneration' = r /\ lockOwner' = NoRun /\ lockOwner = r
    BY <1>3 DEF ActivateGeneration, MayActivate
  <2>2. \A o \in Run : ~ Publishing(o)
    BY <2>1 DEF Quiet
  <2>3. \A o \in Run : pc[o] \notin Tail
    BY <2>2 DEF Publishing
  <2> QED BY <1>1, <2>1, <2>3 DEF Quiet
<1>4. CASE UNCHANGED catalog /\ (lockOwner' = lockOwner \/ lockOwner' = NoRun)
  <2>0. pc[r] \notin Over BY CountMoves
  <2>1. ASSUME pc'[r] \in Tail PROVE activeGeneration = r
    <3>1. CASE pc[r] \in Tail BY <3>1 DEF Quiet
    <3>2. CASE pc[r] = "activate"
      <4>1. MayActivate(r) /\ activeGeneration' = r
        BY <2>1, <3>2, StatementAt, EndsAt
           DEF ActivateGeneration, StepFails, StepStart, ThrowTarget, Outer, Tail
      <4> QED BY <1>4, <3>2, <4>1 DEF Over
    <3>3. CASE pc[r] = "confirmActive"
      BY <2>1, <3>3, StatementAt, EndsAt
         DEF ConfirmActive, StepFails, StepStart, ThrowTarget, Outer, Tail, Over
    <3> QED BY <2>1, <3>1, <3>2, <3>3, StepMoves
  <2>2. activeGeneration = r => Publishing(r) BY <2>0 DEF Publishing
  <2>3. \A o \in Run : Publishing(o)' => Publishing(o)
    BY <1>1, <1>4, <2>1, <2>2 DEF Publishing
  <2>4. \A o \in Run : pc'[o] \in Tail => activeGeneration' = o
    BY <1>1, <1>4, <2>1 DEF Quiet
  <2> QED BY <1>4, <2>3, <2>4 DEF Quiet
<1>5. \/ Acquire(r) \/ (ActivateGeneration(r) /\ MayActivate(r))
      \/ UNCHANGED catalog /\ (lockOwner' = lockOwner \/ lockOwner' = NoRun)
  BY Writers
     DEF ActivateGeneration, ReleaseUnchanged, ReleaseFailed, ReleaseLock
<1> QED BY <1>2, <1>3, <1>4, <1>5

LEMMA LoadedStep ==
  ASSUME IInv, PInv, NEW r \in Run, Step(r)
  PROVE  Loaded'
<1> USE DEF IInv, PInv
<1>1. \A o \in Run \ {r} :
        pc'[o] = pc[o] /\ got'[o] = got[o]
          /\ books'[o] \subseteq books[o] /\ contribs'[o] \subseteq contribs[o]
  BY StepMoves, Writers, TableWriters
     DEF FetchSource, LoadBooks, LoadContributors, DeleteContributors,
         DeleteBooks, OnlyGeneration, TypeOK
<1>2. CASE pc'[r] \in Unfetched
  <2>1. pc[r] \in Unfetched BY <1>2, StepMoves
  <2>2. books'[r] \subseteq books[r] /\ contribs'[r] \subseteq contribs[r]
    BY <2>1, TableWriters
       DEF LoadBooks, LoadContributors, DeleteContributors, DeleteBooks, At,
           OnlyGeneration, TypeOK, Unfetched
  <2>3. pc'[r] \notin Loading BY <1>2 DEF Unfetched, Loading
  <2> QED BY <1>1, <2>1, <2>2, <2>3 DEF Loaded
<1>3. CASE pc'[r] \in Loading /\ pc[r] = "fetch"
  <2>1. books[r] = {} /\ contribs[r] = {} BY <1>3 DEF Loaded, Unfetched
  <2>2. books'[r] = {} /\ contribs'[r] = {}
    BY <1>3, <2>1, TableWriters
       DEF LoadBooks, LoadContributors, DeleteContributors, DeleteBooks, At
  <2>3. pc'[r] \notin Unfetched BY <1>3 DEF Unfetched, Loading
  <2> QED BY <1>1, <2>2, <2>3 DEF Loaded
<1>4. CASE pc'[r] \in Loading /\ pc[r] \in Loading
  <2>1. got'[r] = got[r] /\ got[r] \in Sha /\ Size[got[r]] \in Nat
    BY <1>4, Writers, SizeAssumption DEF FetchSource, At, Loading, Source
  <2>2. books'[r] \subseteq Rows(got[r])
    <3>1. CASE LoadBooks(r)
      <4>1. pos[r] \in Nat BY DEF TypeOK
      <4>2. pos[r] < Size[got[r]] => pos[r] + 1 \in Rows(got[r])
        BY <2>1, <4>1 DEF Rows
      <4> QED BY <1>4, <3>1, <4>2 DEF LoadBooks, Loaded, TypeOK
    <3>2. CASE ~ LoadBooks(r)
      BY <1>4, <3>2, TableWriters DEF DeleteBooks, At, Loading, Loaded
    <3> QED BY <3>1, <3>2
  <2>3. contribs'[r] \subseteq Rows(got[r])
    <3>1. CASE LoadContributors(r)
      <4>1. pos[r] \in Nat BY DEF TypeOK
      <4>2. pos[r] < Size[got[r]] => pos[r] + 1 \in Rows(got[r])
        BY <2>1, <4>1 DEF Rows
      <4> QED BY <1>4, <3>1, <4>2 DEF LoadContributors, Loaded, TypeOK
    <3>2. CASE ~ LoadContributors(r)
      BY <1>4, <3>2, TableWriters
         DEF DeleteBooks, DeleteContributors, At, Loading, Loaded
    <3> QED BY <3>1, <3>2
  <2>4. pc'[r] \notin Unfetched BY <1>4 DEF Unfetched, Loading
  <2>5. Rows(got[r])' = Rows(got[r]) BY <2>1 DEF Rows
  <2> QED BY <1>1, <2>1, <2>2, <2>3, <2>4, <2>5 DEF Loaded, Rows
<1>5. CASE pc'[r] \notin Loading \union Unfetched
  BY <1>1, <1>5 DEF Loaded, Rows
<1> QED BY <1>1, <1>2, <1>3, <1>4, <1>5, StepMoves DEF Loaded, Rows

\* A run that holds the lock after a step, past its fetch, held it before; and
\* while it did, nobody deleted its rows.
LEMMA HolderKeepsRows ==
  ASSUME IInv, PInv, NEW r \in Run, Step(r), NEW o \in Run, lockOwner' = o,
         pc'[o] \in Loading
  PROVE  /\ lockOwner = o
         /\ ~ DeleteContributors(r) /\ ~ DeleteBooks(r)
<1> USE RunAssumption DEF IInv, PInv
<1>1. lockOwner = o
  <2>1. CASE Acquire(r)
    <3>1. pc'[r] \notin Loading
      BY <2>1, EndsAt DEF Acquire, At, StepStart, ThrowTarget, Outer, Loading
    <3> QED BY <2>1, <3>1 DEF Acquire, lock
  <2>2. CASE ActivateGeneration(r) \/ ReleaseUnchanged(r) \/ ReleaseFailed(r)
    BY <2>2
       DEF ActivateGeneration, ReleaseUnchanged, ReleaseFailed, ReleaseLock,
           state, lock
  <2> QED BY <2>1, <2>2, Writers DEF lock
<1>2. pc[r] \notin Tail
  BY <1>1 DEF Quiet, Publishing
<1> QED BY <1>1, <1>2 DEF DeleteContributors, DeleteBooks, At, Tail

LEMMA CountedStep ==
  ASSUME IInv, PInv, NEW r \in Run, Step(r)
  PROVE  CountedRows'
<1> USE DEF IInv, PInv
<1> SUFFICES ASSUME NEW o \in Run
             PROVE  /\ pc'[o] \in {"activate", "confirmActive"} =>
                         Size[got'[o]] >= MinExpectedBooks
                    /\ lockOwner' = o =>
                         /\ pc'[o] \in {"countContributors", "countCards"} =>
                              bookCount'[o] = Cardinality(books'[o])
                         /\ pc'[o] = "countCards" =>
                              contributorCount'[o] = Cardinality(contribs'[o])
                         /\ pc'[o] \in {"activate", "confirmActive"} =>
                              /\ books'[o] = Rows(got'[o])
                              /\ contribs'[o] = Rows(got'[o])
  BY DEF CountedRows, Rows
<1>1. CASE o # r
  <2>1. /\ pc'[o] = pc[o] /\ got'[o] = got[o]
        /\ bookCount'[o] = bookCount[o]
        /\ contributorCount'[o] = contributorCount[o]
    BY <1>1, StepMoves, Writers, TableWriters
       DEF FetchSource, CountBooks, CountContributors, TypeOK
  <2>2. ASSUME lockOwner' = o, pc'[o] \in Loading
        PROVE  lockOwner = o /\ books'[o] = books[o] /\ contribs'[o] = contribs[o]
    BY <1>1, <2>2, HolderKeepsRows, TableWriters
       DEF LoadBooks, LoadContributors, TypeOK
  <2> QED BY <2>1, <2>2 DEF CountedRows, Loading, Rows
<1>2. CASE o = r /\ pc'[r] = "countContributors"
  <2>1. CountBooks(r) BY <1>2, CountMoves
  <2>2. bookCount'[r] = Cardinality(books[r]) /\ books' = books
    BY <2>1 DEF CountBooks, TypeOK, stores
  <2> QED BY <1>2, <2>2
<1>3. CASE o = r /\ pc'[r] = "countCards"
  <2>1. CountContributors(r) /\ pc[r] = "countContributors"
    BY <1>3, CountMoves DEF CountContributors, At
  <2>2. /\ contributorCount'[r] = Cardinality(contribs[r])
        /\ bookCount' = bookCount
        /\ books' = books /\ contribs' = contribs /\ lockOwner' = lockOwner
    BY <2>1 DEF CountContributors, TypeOK, stores, state, lock
  <2>3. lockOwner = r => bookCount[r] = Cardinality(books[r])
    BY <2>1 DEF CountedRows
  <2> QED BY <1>3, <2>2, <2>3
<1>4. CASE o = r /\ pc'[r] \in {"activate", "confirmActive"}
  <2>1. CASE pc[r] \in {"activate", "confirmActive"}
    <3>1. got'[r] = got[r] BY <2>1, Writers DEF FetchSource, At
    <3>2. ASSUME lockOwner' = r
          PROVE  lockOwner = r /\ books' = books /\ contribs' = contribs
      <4>1. pc'[r] \in Loading BY <1>4 DEF Loading
      <4> QED BY <2>1, <3>2, <4>1, HolderKeepsRows, TableWriters
              DEF LoadBooks, LoadContributors, At
    <3> QED BY <1>4, <2>1, <3>1, <3>2 DEF CountedRows, Rows
  <2>2. CASE pc[r] = "countCards"
    <3>1. CountCards(r) /\ pc'[r] = "activate"
      BY <1>4, <2>2, StepMoves, StatementAt, EndsAt
         DEF CountCards, StepFails, StepStart, ThrowTarget, Outer
    <3>2. \E cards : CountsValid(r, cards)
      BY <2>2, <3>1, EndsAt DEF CountCards
    <3>3. /\ bookCount[r] = Size[got[r]] /\ contributorCount[r] = Size[got[r]]
          /\ Size[got[r]] >= MinExpectedBooks
      BY <3>2 DEF CountsValid
    <3>4. UNCHANGED <<got, books, contribs, lockOwner>>
      BY <3>1 DEF CountCards, results, stores, state, lock
    <3>5. got[r] \in Sha /\ Size[got[r]] \in Nat
      BY <2>2, SizeAssumption DEF Source, Loading
    <3>6. IsFiniteSet(Rows(got[r])) /\ Cardinality(Rows(got[r])) = Size[got[r]]
      BY <3>5, FS_Interval DEF Rows
    <3>7. /\ books[r] \subseteq Rows(got[r])
          /\ contribs[r] \subseteq Rows(got[r])
      BY <2>2 DEF Loaded, Loading
    <3>8. ASSUME lockOwner = r
          PROVE  books[r] = Rows(got[r]) /\ contribs[r] = Rows(got[r])
      <4>1. /\ Cardinality(books[r]) = Size[got[r]]
            /\ Cardinality(contribs[r]) = Size[got[r]]
        BY <2>2, <3>3, <3>8 DEF CountedRows
      <4> QED BY <3>6, <3>7, <4>1, FS_Subset
    <3> QED BY <1>4, <3>1, <3>3, <3>4, <3>8 DEF Rows
  <2> QED BY <1>4, <2>1, <2>2, StepMoves
<1>5. CASE o = r /\ pc'[r] \notin {"countContributors", "countCards", "activate",
                                 "confirmActive"}
  BY <1>5
<1> QED BY <1>1, <1>2, <1>3, <1>4, <1>5

\* The step that activates publishes a whole catalog; no other changes the rows
\* of the active generation.
LEMMA Switches ==
  ASSUME IInv, PInv, NEW r \in Run, ActivateGeneration(r), MayActivate(r)
  PROVE  /\ activeGeneration # r /\ activeGeneration' = r /\ lockOwner = r
         /\ got[r] \in Sha /\ sourceSha' = got[r]
         /\ activeBookCount' = Size[got[r]]
         /\ books' = books /\ books[r] = Rows(got[r])
         /\ contribs' = contribs /\ contribs[r] = Rows(got[r])
         /\ grant' = grant
         /\ Size[got[r]] >= MinExpectedBooks
         /\ 10 * Size[got[r]] >= 8 * activeBookCount
<1> USE RunAssumption DEF IInv, PInv
<1>1. pc[r] = "activate" /\ lockOwner = r
  BY DEF ActivateGeneration, MayActivate, At
<1>2. activeGeneration # r
  BY <1>1 DEF Quiet, Publishing, Over
<1>3. /\ activeGeneration' = r /\ sourceSha' = got[r]
      /\ activeBookCount' = Size[got[r]]
      /\ books' = books /\ contribs' = contribs /\ grant' = grant
  BY DEF ActivateGeneration, history, MayActivate
<1>4. /\ got[r] \in Sha /\ snap[r].book = activeBookCount
      /\ 10 * Size[got[r]] >= 8 * snap[r].book
  BY <1>1 DEF Source, SnapshotCurrent, Loading
<1>5. /\ Size[got[r]] >= MinExpectedBooks
      /\ books[r] = Rows(got[r]) /\ contribs[r] = Rows(got[r])
  BY <1>1 DEF CountedRows
<1> QED BY <1>1, <1>2, <1>3, <1>4, <1>5

LEMMA Stays ==
  ASSUME IInv, PInv, NEW r \in Run, Step(r),
         ~ (ActivateGeneration(r) /\ MayActivate(r))
  PROVE  /\ UNCHANGED catalog
         /\ activeGeneration # NoRun =>
              /\ books'[activeGeneration] = books[activeGeneration]
              /\ contribs'[activeGeneration] = contribs[activeGeneration]
              /\ grant'[activeGeneration] = grant[activeGeneration]
              /\ pc'[activeGeneration] \in Validated
<1> USE RunAssumption DEF IInv, PInv
<1>1. UNCHANGED catalog
  BY Writers DEF ActivateGeneration, state
<1>2. ASSUME activeGeneration # NoRun
      PROVE  /\ books'[activeGeneration] = books[activeGeneration]
             /\ contribs'[activeGeneration] = contribs[activeGeneration]
             /\ grant'[activeGeneration] = grant[activeGeneration]
             /\ pc'[activeGeneration] \in Validated
  <2>1. activeGeneration \in Run /\ pc[activeGeneration] \in Validated
    BY <1>2 DEF Published, TypeOK
  <2>2. pc'[activeGeneration] \in Validated
    BY <2>1, StepMoves, CountMoves
  <2>3. activeGeneration = r =>
          ~ LoadBooks(r) /\ ~ LoadContributors(r) /\ ~ Acquire(r)
    BY <2>1 DEF Validated, LoadBooks, LoadContributors, Acquire, At, Tail, Over
  <2>4. DeleteBooks(r) \/ DeleteContributors(r) => activeGeneration = r
    BY DEF DeleteBooks, DeleteContributors, At, Tail, Quiet
  <2>5. books'[activeGeneration] = books[activeGeneration]
    BY <2>1, <2>3, <2>4, TableWriters
       DEF LoadBooks, DeleteBooks, OnlyGeneration, TypeOK
  <2>6. contribs'[activeGeneration] = contribs[activeGeneration]
    BY <2>1, <2>3, <2>4, TableWriters
       DEF LoadContributors, DeleteContributors, DeleteBooks, OnlyGeneration,
           TypeOK
  <2>7. grant'[activeGeneration] = grant[activeGeneration]
    BY <2>1, <2>3, Writers DEF Acquire, history, TypeOK
  <2> QED BY <2>2, <2>5, <2>6, <2>7
<1> QED BY <1>1, <1>2

LEMMA PublishedStep ==
  ASSUME IInv, PInv, NEW r \in Run, Step(r)
  PROVE  Published'
<1> USE RunAssumption DEF IInv, PInv
<1>1. CASE ActivateGeneration(r) /\ MayActivate(r)
  <2>1. pc'[r] \in Validated
    BY <1>1, CountMoves DEF ActivateGeneration, At, Validated
  <2> QED
    BY <1>1, <2>1, Switches DEF Published, ActiveGenerationComplete, Rows
<1>2. CASE ~ (ActivateGeneration(r) /\ MayActivate(r))
  BY <1>2, Stays DEF Published, ActiveGenerationComplete, Rows, catalog
<1> QED BY <1>1, <1>2

LEMMA AcquiredStep ==
  ASSUME IInv, PInv, NEW r \in Run, Step(r)
  PROVE  Acquired'
<1> USE DEF IInv, PInv, Acquired
<1>1. CASE Acquire(r)
  BY <1>1 DEF Acquire, TypeOK, lock, history
<1>2. CASE ~ Acquire(r)
  BY <1>2, Writers
     DEF ActivateGeneration, ReleaseUnchanged, ReleaseFailed, ReleaseLock, lock,
         state, history
<1> QED BY <1>1, <1>2

LEMMA PInit == Init => PInv
<1> SUFFICES ASSUME Init PROVE PInv
  OBVIOUS
<1>1. \A r \in Run : pc[r] = "idle" /\ books[r] = {} /\ contribs[r] = {}
  BY DEF Init
<1>2. lockOwner = NoRun /\ activeGeneration = NoRun BY DEF Init
<1> QED
  BY <1>1, <1>2, RunAssumption
     DEF PInv, Quiet, Publishing, Published, ActiveGenerationComplete, Loaded,
         CountedRows, Acquired, Tail, Loading

LEMMA PNext ==
  ASSUME TailExclusive, IInv, PInv, [Next]_vars
  PROVE  PInv'
<1>1. ASSUME NEW r \in Run, Step(r) PROVE PInv'
  BY <1>1, QuietStep, LoadedStep, CountedStep, PublishedStep, AcquiredStep
     DEF PInv
<1>2. ASSUME LockExpires \/ SourceChanges \/ UNCHANGED vars PROVE PInv'
  <2>1. /\ UNCHANGED <<activeGeneration, sourceSha, activeBookCount, lockOwner>>
        /\ UNCHANGED <<books, contribs, got, bookCount, contributorCount>>
        /\ UNCHANGED <<epoch, pc>>
    BY <1>2 DEF LockExpires, SourceChanges, vars, stores, state, catalog, lock,
                results, counts, history
  <2>2. Quiet' BY <2>1 DEF PInv, Quiet, Publishing
  <2>3. Published' /\ Acquired'
    BY <2>1 DEF PInv, Published, ActiveGenerationComplete, Acquired, Rows
  <2>4. Loaded' BY <2>1 DEF PInv, Loaded, Rows
  <2>5. CountedRows' BY <2>1 DEF PInv, CountedRows, Rows
  <2> QED BY <2>2, <2>3, <2>4, <2>5 DEF PInv
<1> QED BY <1>1, <1>2 DEF Next, Step

LEMMA PublishStep ==
  ASSUME IInv, PInv, [Next]_vars
  PROVE  [Publish!Next]_<<View, Edition>>
<1> USE RunAssumption DEF IInv, PInv
<1>1. ASSUME NEW r \in Run, ActivateGeneration(r), MayActivate(r)
      PROVE  Publish!Next
  <2> DEFINE s == got[r]
  <2>1. s \in Sha BY <1>1, Switches
  <2>2. View' = Publish!Whole(s)
    BY <1>1, Switches DEF View, Publish!Whole, Rows
  <2>3. Edition' = grant[r] BY <1>1, Switches DEF Edition
  <2>4. Edition' > Edition
    BY <1>1, <2>3, Switches DEF Edition, Fence, Acquired, TypeOK
  <2>5. Publish!Retains(s)
    <3>1. View.sha # NoSha =>
            /\ activeGeneration # NoRun /\ View.sha = sourceSha
      BY DEF View
    <3>2. activeGeneration # NoRun => activeBookCount = Size[sourceSha]
      BY DEF Published
    <3> QED BY <1>1, <3>1, <3>2, Switches DEF Publish!Retains
  <2>6. Publish!Publish(s)
    BY <1>1, <2>2, <2>4, <2>5, Switches DEF Publish!Publish
  <2> QED BY <2>1, <2>6 DEF Publish!Next
<1>2. ASSUME NEW r \in Run, Step(r), ~ (ActivateGeneration(r) /\ MayActivate(r))
      PROVE  UNCHANGED <<View, Edition>>
  BY <1>2, Stays DEF View, Edition, catalog
<1>3. ASSUME LockExpires \/ SourceChanges \/ UNCHANGED vars
      PROVE  UNCHANGED <<View, Edition>>
  <2>1. UNCHANGED <<activeGeneration, sourceSha, books, contribs, grant>>
    BY <1>3 DEF LockExpires, SourceChanges, vars, stores, state, catalog, history
  <2> QED BY <2>1 DEF View, Edition
<1> QED BY <1>1, <1>2, <1>3 DEF Next, Step

\* If no run acquires while another is between its activation and its end, as
\* the day between two Crons provides, then whatever the runs do, fail to do and
\* repeat, a search sees one whole catalog change into another, of a later
\* edition, which keeps most of its books (GET /api/books).
THEOREM SearchesSeeWholeCatalogs ==
  ASSUME TailExclusive
  PROVE  Spec => ImplementsPublish
<1>1. Init => Publish!Init
  BY RunAssumption DEF Init, Publish!Init, View, Edition, Publish!Nothing
<1>2. IInv /\ PInv /\ [Next]_vars => PInv' BY PNext
<1>3. IInv /\ PInv /\ [Next]_vars => [Publish!Next]_<<View, Edition>>
  BY PublishStep
<1> QED
  BY <1>1, <1>2, <1>3, PInit, Invariance, PTL
     DEF Spec, ImplementsPublish, Publish!Spec

\* The same for a reader of the tables: while runs keep apart, the generation
\* that searches read is whole at every moment, switches, repeated steps and
\* deletions included.  (Runs that overlap break it: CatalogSync_half_loaded.)
THEOREM ActiveCatalogIsWhole ==
  ASSUME TailExclusive
  PROVE  Spec => []ActiveGenerationComplete
<1>1. IInv /\ PInv /\ [Next]_vars => PInv' BY PNext
<1>2. PInv => ActiveGenerationComplete BY DEF PInv, Published
<1> QED
  BY <1>1, <1>2, PInit, Invariance, PTL DEF Spec

-----------------------------------------------------------------------------
(***************************************************************************)
(* The way to the end of a run.                                            *)
(***************************************************************************)

\* The steps still ahead of a run at most.
StagesLeft ==
  [l \in Labels |->
     CASE l = "idle"                                          -> 16
       [] l = "acquire"                                       -> 15
       [] l = "markSkipped"                                   -> 14
       [] l \in {"beginRun", "readState"}                     -> 13
       [] l = "fetch"                                         -> 12
       [] l \in {"markUnchanged", "releaseUnchanged"}         -> 11
       [] l = "parse"                                         -> 10
       [] l = "loadBooks"                                     -> 9
       [] l = "loadContributors"                              -> 8
       [] l \in {"countBooks", "countContributors", "countCards"} -> 7
       [] l \in {"activate", "confirmActive"}                 -> 6
       [] l = "finalize"                                      -> 5
       [] l \in {"deleteContributors", "deleteBooks"}         -> 4
       [] l = "cleanupR2"                                     -> 3
       [] l \in {"markFailed", "releaseFailed"}               -> 2
       [] OTHER                                               -> 0]

\* The statements after the next one in its step.
StatementsLeft ==
  [l \in Labels |->
     CASE l = "countBooks" -> 2
       [] l \in {"beginRun", "markUnchanged", "countContributors", "activate",
                 "deleteContributors", "markFailed"} -> 1
       [] OTHER -> 0]

Loads(r) == pc[r] \in {"loadBooks", "loadContributors"}

\* The chunks that the loop of a loading step has still to write.
ChunksLeft(r) ==
  IF Loads(r) /\ pos[r] < Size[got[r]]
  THEN Size[got[r]] - pos[r] ELSE 0

\* How far a run is from its end: in steps, chunks, attempts and statements.
RunRank(r) ==
  Measure(StagesLeft[pc[r]], ChunksLeft(r), Retries - tries[r],
          StatementsLeft[pc[r]])

Lowered(r) == <<RunRank(r)', RunRank(r)>> \in Less4

LEMMA Stages ==
  /\ StagesLeft["idle"] = 16 /\ StagesLeft["acquire"] = 15
  /\ StagesLeft["markSkipped"] = 14 /\ StagesLeft["beginRun"] = 13
  /\ StagesLeft["readState"] = 13 /\ StagesLeft["fetch"] = 12
  /\ StagesLeft["markUnchanged"] = 11 /\ StagesLeft["releaseUnchanged"] = 11
  /\ StagesLeft["parse"] = 10 /\ StagesLeft["loadBooks"] = 9
  /\ StagesLeft["loadContributors"] = 8 /\ StagesLeft["countBooks"] = 7
  /\ StagesLeft["countContributors"] = 7 /\ StagesLeft["countCards"] = 7
  /\ StagesLeft["activate"] = 6 /\ StagesLeft["confirmActive"] = 6
  /\ StagesLeft["finalize"] = 5 /\ StagesLeft["deleteContributors"] = 4
  /\ StagesLeft["deleteBooks"] = 4 /\ StagesLeft["cleanupR2"] = 3
  /\ StagesLeft["markFailed"] = 2 /\ StagesLeft["releaseFailed"] = 2
  /\ StagesLeft["done"] = 0 /\ StagesLeft["errored"] = 0
BY DEF StagesLeft, Labels, Active, Locked, Tail, Outer, Over

LEMMA Statements ==
  /\ StatementsLeft["beginRun"] = 1 /\ StatementsLeft["readState"] = 0
  /\ StatementsLeft["markUnchanged"] = 1 /\ StatementsLeft["releaseUnchanged"] = 0
  /\ StatementsLeft["countBooks"] = 2 /\ StatementsLeft["countContributors"] = 1
  /\ StatementsLeft["countCards"] = 0
  /\ StatementsLeft["activate"] = 1 /\ StatementsLeft["confirmActive"] = 0
  /\ StatementsLeft["deleteContributors"] = 1 /\ StatementsLeft["deleteBooks"] = 0
  /\ StatementsLeft["markFailed"] = 1 /\ StatementsLeft["releaseFailed"] = 0
  /\ \A l \in Labels : StatementsLeft[l] \in Nat /\ StagesLeft[l] \in Nat
BY DEF StatementsLeft, StagesLeft, Labels, Active, Locked, Tail, Outer, Over

\* There is no infinite descent.
LEMMA RanksAreWellFounded == NoInfiniteDescent
<1>1. IsWellFoundedOn(Less, Nat)
  BY NatLessThanWellFounded DEF Less
<1>2. IsWellFoundedOn(Less2, Pairs)
  BY <1>1, WFLexPairOrdering DEF Less2, Pairs
<1>3. IsWellFoundedOn(Less3, Triples)
  BY <1>1, <1>2, WFLexPairOrdering DEF Less3, Triples
<1> QED
  BY <1>1, <1>3, WFLexPairOrdering DEF NoInfiniteDescent, Less4, Rank4

\* The first component that differs decides.
LEMMA FirstDecides ==
  ASSUME NEW a \in Nat, NEW b \in Nat, NEW c \in Nat, NEW d \in Nat,
         NEW e \in Nat, NEW f \in Nat, NEW g \in Nat, NEW h \in Nat,
         \/ e < a
         \/ e = a /\ f < b
         \/ e = a /\ f = b /\ g < c
         \/ e = a /\ f = b /\ g = c /\ h < d
  PROVE  <<Measure(e, f, g, h), Measure(a, b, c, d)>> \in Less4
<1>1. \A m, n \in Nat : m < n => <<m, n>> \in Less
  BY DEF Less, OpToRel
<1>2. g < c \/ (g = c /\ h < d) => <<<<g, h>>, <<c, d>>>> \in Less2
  BY <1>1 DEF Less2, LexPairOrdering
<1>3. f < b \/ (f = b /\ <<<<g, h>>, <<c, d>>>> \in Less2)
        => <<<<f, <<g, h>>>>, <<b, <<c, d>>>>>> \in Less3
  BY <1>1 DEF Less3, LexPairOrdering, Pairs
<1>4. e < a \/ (e = a /\ <<<<f, <<g, h>>>>, <<b, <<c, d>>>>>> \in Less3)
        => <<Measure(e, f, g, h), Measure(a, b, c, d)>> \in Less4
  BY <1>1 DEF Less4, LexPairOrdering, Triples, Pairs, Measure
<1> QED
  BY <1>2, <1>3, <1>4

\* A statement of a run leaves its step for a later one, writes a chunk, has
\* failed once more, or leaves fewer statements in its step.
Advances(r) ==
  \/ StagesLeft[pc'[r]] < StagesLeft[pc[r]]
  \/ /\ Loads(r) /\ pc'[r] = pc[r]
     /\ pos[r] < Size[got[r]] /\ pos'[r] = pos[r] + 1 /\ UNCHANGED got
  \/ /\ StagesLeft[pc'[r]] = StagesLeft[pc[r]] /\ tries'[r] = tries[r] + 1
     /\ Loads(r) => pos'[r] = pos[r] /\ UNCHANGED got
  \/ /\ StagesLeft[pc'[r]] = StagesLeft[pc[r]]
     /\ ~ Loads(r) /\ tries'[r] = tries[r]
     /\ StatementsLeft[pc'[r]] < StatementsLeft[pc[r]]

LEMMA ChunksLeftType ==
  ASSUME TypeOK, Source, NEW r \in Run
  PROVE  ChunksLeft(r) \in Nat
<1>1. CASE Loads(r)
  <2>1. Size[got[r]] \in Nat /\ pos[r] \in Nat
    BY <1>1, SizeAssumption DEF TypeOK, Source, Loading, Loads
  <2> QED BY <2>1 DEF ChunksLeft, Loads
<1> QED BY <1>1 DEF ChunksLeft, Loads

LEMMA AdvanceLowers ==
  ASSUME IInv, IInv', NEW r \in Run, Advances(r)
  PROVE  Lowered(r)
<1>1. /\ TypeOK /\ Source
      /\ pc[r] \in Labels /\ pc'[r] \in Labels
      /\ tries[r] \in 0 .. Retries /\ tries'[r] \in 0 .. Retries
      /\ pos[r] \in Nat /\ pos'[r] \in Nat
  BY DEF IInv, TypeOK
<1>2. /\ StagesLeft[pc[r]] \in Nat /\ StatementsLeft[pc[r]] \in Nat
      /\ StagesLeft[pc'[r]] \in Nat /\ StatementsLeft[pc'[r]] \in Nat
  BY <1>1, Statements
<1>3. Retries - tries[r] \in Nat /\ Retries - tries'[r] \in Nat
  <2>1. \A n \in 0 .. Retries : Retries - n \in Nat BY BoundAssumption
  <2> QED BY <1>1, <2>1
<1>4. ChunksLeft(r) \in Nat /\ ChunksLeft(r)' \in Nat
  <2>1. ChunksLeft(r) \in Nat BY <1>1, ChunksLeftType
  <2>2. ChunksLeft(r)' \in Nat
    <3>1. CASE Loads(r)'
      <4>1. Size[got'[r]] \in Nat
        BY <3>1, SizeAssumption DEF IInv, Source, Loading, Loads
      <4> QED BY <1>1, <4>1 DEF ChunksLeft, Loads
    <3> QED BY <3>1 DEF ChunksLeft, Loads
  <2> QED BY <2>1, <2>2
<1>5. \/ StagesLeft[pc'[r]] < StagesLeft[pc[r]]
      \/ /\ StagesLeft[pc'[r]] = StagesLeft[pc[r]]
         /\ \/ ChunksLeft(r)' < ChunksLeft(r)
            \/ /\ ChunksLeft(r)' = ChunksLeft(r)
               /\ \/ Retries - tries'[r] < Retries - tries[r]
                  \/ /\ Retries - tries'[r] = Retries - tries[r]
                     /\ StatementsLeft[pc'[r]] < StatementsLeft[pc[r]]
  <2>1. CASE /\ Loads(r) /\ pc'[r] = pc[r]
             /\ pos[r] < Size[got[r]] /\ pos'[r] = pos[r] + 1 /\ UNCHANGED got
    <3>1. Size[got[r]] \in Nat
      BY <1>1, <2>1, SizeAssumption DEF Source, Loading, Loads
    <3>2. ChunksLeft(r) = Size[got[r]] - pos[r] BY <2>1 DEF ChunksLeft, Loads
    <3>3. ChunksLeft(r)' = IF pos[r] + 1 < Size[got[r]]
                           THEN Size[got[r]] - (pos[r] + 1) ELSE 0
      BY <2>1 DEF ChunksLeft, Loads
    <3> QED BY <1>1, <2>1, <3>1, <3>2, <3>3
  <2>2. ASSUME StagesLeft[pc'[r]] = StagesLeft[pc[r]]
        PROVE  /\ Loads(r) => pc'[r] = pc[r]
               /\ Loads(r)' => pc'[r] = pc[r]
    BY <1>1, <2>2, Stages DEF Loads, Labels, Active, Locked, Tail, Outer, Over
  <2>3. CASE /\ StagesLeft[pc'[r]] = StagesLeft[pc[r]]
             /\ tries'[r] = tries[r] + 1
             /\ Loads(r) => pos'[r] = pos[r] /\ UNCHANGED got
    <3>1. ChunksLeft(r)' = ChunksLeft(r) BY <2>2, <2>3 DEF ChunksLeft, Loads
    <3> QED BY <1>1, <2>3, <3>1, BoundAssumption
  <2>4. CASE /\ StagesLeft[pc'[r]] = StagesLeft[pc[r]]
             /\ ~ Loads(r)
             /\ tries'[r] = tries[r]
             /\ StatementsLeft[pc'[r]] < StatementsLeft[pc[r]]
    <3>1. ~ Loads(r)' BY <2>2, <2>4 DEF Loads
    <3>2. ChunksLeft(r) = 0 /\ ChunksLeft(r)' = 0 BY <2>4, <3>1 DEF ChunksLeft, Loads
    <3> QED BY <2>4, <3>2
  <2> QED BY <2>1, <2>3, <2>4 DEF Advances, Loads
<1>6. DEFINE a == StagesLeft[pc[r]]      e == StagesLeft[pc'[r]]
             b == ChunksLeft(r)          f == ChunksLeft(r)'
             c == Retries - tries[r]     g == Retries - tries'[r]
             d == StatementsLeft[pc[r]]  h == StatementsLeft[pc'[r]]
<1>7. <<Measure(e, f, g, h), Measure(a, b, c, d)>> \in Less4
  <2>1. a \in Nat /\ b \in Nat /\ c \in Nat /\ d \in Nat BY <1>2, <1>3, <1>4
  <2>2. e \in Nat /\ f \in Nat /\ g \in Nat /\ h \in Nat BY <1>2, <1>3, <1>4
  <2>3. \/ e < a
        \/ e = a /\ f < b
        \/ e = a /\ f = b /\ g < c
        \/ e = a /\ f = b /\ g = c /\ h < d
    BY <1>5
  <2> HIDE DEF a, b, c, d, e, f, g, h
  <2> QED BY <2>1, <2>2, <2>3, FirstDecides
<1>8. RunRank(r)' = Measure(e, f, g, h) /\ RunRank(r) = Measure(a, b, c, d)
  BY DEF RunRank
<1> QED BY <1>7, <1>8 DEF Lowered

LEMMA FailureAdvances ==
  ASSUME TypeOK, NEW r \in Run, pc[r] \in Active, AttemptFails(r),
         Loads(r) => pos'[r] = pos[r] /\ UNCHANGED got
  PROVE  Advances(r)
<1>1. CASE tries'[r] = tries[r] + 1 /\ pc'[r] = StepStart(pc[r])
  <2>1. StagesLeft[pc'[r]] = StagesLeft[pc[r]]
    BY <1>1, Stages DEF StepStart, Active, Locked, Tail, Outer
  <2> QED BY <1>1, <2>1 DEF Advances, Loads
<1>2. CASE pc'[r] = ThrowTarget(pc[r])
  <2>1. StagesLeft[pc'[r]] < StagesLeft[pc[r]]
    BY <1>2, Stages DEF ThrowTarget, Active, Locked, Tail, Outer
  <2> QED BY <2>1 DEF Advances, Loads
<1> QED BY <1>1, <1>2 DEF AttemptFails, Goto, TypeOK

LEMMA EndAdvances ==
  ASSUME TypeOK, NEW r \in Run, pc[r] \in Active, NEW l, StepEnds(r, l),
         StagesLeft[l] < StagesLeft[pc[r]], ~ Loads(r)
  PROVE  Advances(r)
<1>1. CASE AttemptFails(r) BY <1>1, FailureAdvances
<1>2. CASE StepSucceeds(r, l)
  BY <1>2 DEF StepSucceeds, Goto, TypeOK, Advances
<1> QED BY <1>1, <1>2 DEF StepEnds

LEMMA ThrowAdvances ==
  ASSUME TypeOK, NEW r \in Run, pc[r] \in Locked, ThrowNonRetryable(r)
  PROVE  Advances(r)
<1>1. pc'[r] = "markFailed"
  BY DEF ThrowNonRetryable, StepSucceeds, Goto, TypeOK
<1> QED BY <1>1, Stages DEF Advances, Locked

LEMMA ContinueAdvances ==
  ASSUME TypeOK, NEW r \in Run, ~ Loads(r),
         NEW l, Continue(r, l), StagesLeft[l] = StagesLeft[pc[r]],
         StatementsLeft[l] < StatementsLeft[pc[r]]
  PROVE  Advances(r)
BY DEF Continue, Goto, TypeOK, Advances

LEMMA StepAdvances ==
  ASSUME TypeOK, NEW r \in Run, Step(r)
  PROVE  Advances(r)
<1> USE Stages, Statements DEF At, Active, Locked, Tail, Outer
<1>1. CASE Start(r)
  BY <1>1 DEF Start, Continue, Goto, TypeOK, Advances
<1>2. CASE Kill(r)
  BY <1>2 DEF Kill, Goto, TypeOK, Advances
<1>3. CASE StepFails(r)
  BY <1>3, FailureAdvances DEF StepFails, results, counts
<1>4. CASE LoadBooks(r)
  <2>1. CASE AttemptFails(r) /\ UNCHANGED pos
    BY <1>4, <2>1, FailureAdvances DEF LoadBooks, results
  <2>2. CASE /\ pos[r] < Size[got[r]] /\ pos' = [pos EXCEPT ![r] = @ + 1]
             /\ StepSucceeds(r, pc[r])
    BY <1>4, <2>2
       DEF LoadBooks, results, StepSucceeds, Goto, TypeOK, Advances, Loads
  <2>3. CASE Continue(r, "loadContributors")
    BY <1>4, <2>3 DEF LoadBooks, Continue, Goto, TypeOK, Advances
  <2> QED BY <1>4, <2>1, <2>2, <2>3 DEF LoadBooks
<1>5. CASE LoadContributors(r)
  <2>1. CASE AttemptFails(r) /\ UNCHANGED pos
    BY <1>5, <2>1, FailureAdvances DEF LoadContributors, results
  <2>2. CASE /\ pos[r] < Size[got[r]] /\ pos' = [pos EXCEPT ![r] = @ + 1]
             /\ StepSucceeds(r, pc[r])
    BY <1>5, <2>2
       DEF LoadContributors, results, StepSucceeds, Goto, TypeOK, Advances, Loads
  <2>3. CASE Continue(r, "countBooks")
    BY <1>5, <2>3 DEF LoadContributors, Continue, Goto, TypeOK, Advances
  <2> QED BY <1>5, <2>1, <2>2, <2>3 DEF LoadContributors
<1>6. CASE BeginRun(r) \/ MarkUnchanged(r) \/ CountBooks(r)
           \/ CountContributors(r) \/ DeleteContributors(r) \/ MarkFailed(r)
  BY <1>6, ContinueAdvances
     DEF BeginRun, MarkUnchanged, CountBooks, CountContributors,
         DeleteContributors, MarkFailed, Loads
<1>7. CASE Acquire(r) \/ MarkSkipped(r) \/ ReadState(r) \/ ReleaseUnchanged(r)
           \/ FinalizeRun(r) \/ DeleteBooks(r) \/ DeleteErrorCaught(r)
           \/ CleanupR2(r) \/ ReleaseFailed(r)
  BY <1>7, EndAdvances
     DEF Acquire, MarkSkipped, ReadState, ReleaseUnchanged, FinalizeRun,
         DeleteBooks, DeleteErrorCaught, CleanupR2, ReleaseFailed, Loads
<1>8. CASE FetchSource(r) \/ ParseSource(r) \/ CountCards(r) \/ ConfirmActive(r)
  BY <1>8, EndAdvances, ThrowAdvances
     DEF FetchSource, ParseSource, CountCards, ConfirmActive, Loads
<1>9. CASE ActivateGeneration(r)
  BY <1>9, EndAdvances, ContinueAdvances DEF ActivateGeneration, Loads
<1> QED
  BY <1>1, <1>2, <1>3, <1>4, <1>5, <1>6, <1>7, <1>8, <1>9 DEF Step, RunStep

\* A step of one run leaves the measure of another alone.
LEMMA OthersStay ==
  ASSUME TypeOK, NEW r \in Run, Step(r), NEW o \in Run \ {r}
  PROVE  RunRank(o)' = RunRank(o)
<1>1. pc'[o] = pc[o] BY StepMoves
<1>2. got'[o] = got[o] BY Writers DEF FetchSource, TypeOK
<1>3. tries'[o] = tries[o]
  BY DEF TypeOK, Step, RunStep, Start, Kill, StepFails, Acquire, MarkSkipped,
         BeginRun, ReadState, FetchSource, MarkUnchanged, ReleaseUnchanged,
         ParseSource, LoadBooks, LoadContributors, CountBooks,
         CountContributors, CountCards, ActivateGeneration, ConfirmActive,
         FinalizeRun, DeleteContributors, DeleteBooks, DeleteErrorCaught,
         CleanupR2, MarkFailed, ReleaseFailed, StepEnds, StepSucceeds,
         AttemptFails, Continue, ThrowNonRetryable
<1>4. pos'[o] = pos[o]
  BY DEF TypeOK, Step, RunStep, Start, Kill, StepFails, Acquire, MarkSkipped,
         BeginRun, ReadState, FetchSource, MarkUnchanged, ReleaseUnchanged,
         ParseSource, LoadBooks, LoadContributors, CountBooks,
         CountContributors, CountCards, ActivateGeneration, ConfirmActive,
         FinalizeRun, DeleteContributors, DeleteBooks, DeleteErrorCaught,
         CleanupR2, MarkFailed, ReleaseFailed
<1> QED BY <1>1, <1>2, <1>3, <1>4 DEF RunRank, ChunksLeft, Loads

\* A run takes finitely many steps, whatever the other runs, the lock and the
\* source do meanwhile and however often its own steps fail and are repeated:
\* each lowers a measure of this run that no other step touches and that cannot
\* fall for ever.  What is left of RunTerminates is that the engine goes on
\* (Fairness).
THEOREM RunsRunOut ==
  Spec => /\ NoInfiniteDescent
          /\ [][\A r \in Run : /\ Step(r) => Lowered(r)
                               /\ RunRank(r)' # RunRank(r) => Lowered(r)]_vars
<1>1. ASSUME IInv, IInv', [Next]_vars, NEW r \in Run
      PROVE  /\ Step(r) => Lowered(r)
             /\ RunRank(r)' # RunRank(r) => Lowered(r)
  <2>1. Step(r) => Lowered(r)
    BY <1>1, StepAdvances, AdvanceLowers DEF IInv
  <2>2. ASSUME NEW o \in Run, Step(o), o # r
        PROVE  RunRank(r)' = RunRank(r)
    BY <1>1, <2>2, OthersStay DEF IInv
  <2>3. ASSUME LockExpires \/ SourceChanges \/ UNCHANGED vars
        PROVE  RunRank(r)' = RunRank(r)
    <3>1. UNCHANGED <<pc, tries, pos, got>>
      BY <2>3 DEF LockExpires, SourceChanges, vars, results
    <3> QED BY <3>1 DEF RunRank, ChunksLeft, Loads
  <2> QED BY <1>1, <2>1, <2>2, <2>3 DEF Next, Step
<1>2. IInv /\ IInv' /\ [Next]_vars
        => \A r \in Run : /\ Step(r) => Lowered(r)
                          /\ RunRank(r)' # RunRank(r) => Lowered(r)
  BY <1>1
<1>3. NoInfiniteDescent BY RanksAreWellFounded
<1> QED
  BY <1>2, <1>3, Invariance, PTL DEF Spec
=============================================================================
