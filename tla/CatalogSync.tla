---------------------------- MODULE CatalogSync ----------------------------
(***************************************************************************)
(* The daily Aozora Bunko catalog sync: AozoraCatalogSyncWorkflow          *)
(* (src/src/catalog-workflow.ts) over the D1 statements of                 *)
(* src/src/catalog-db.ts.                                                  *)
(*                                                                         *)
(* A run is one Workflow instance.  Its steps execute at least once: an    *)
(* attempt may stop between two D1 statements, or commit and lose its      *)
(* response, and the engine then starts the step again, up to its retry    *)
(* limit.  Every action below is one D1 statement (or one R2 call), so     *)
(* the statements of two runs interleave freely.                           *)
(*                                                                         *)
(* Data: a row stands for one 200-row chunk of books together with the     *)
(* contributors of these books; a generation's name,                       *)
(* "<scheduledTime>-<sha>", is that of the run that builds it, because     *)
(* scheduledTime is also the instance id.                                  *)
(***************************************************************************)
EXTENDS Integers, FiniteSets

CONSTANTS
  Run,              \* Workflow instances
  NoRun,            \* SQL NULL for a run or a generation
  Sha,              \* versions of the upstream catalog
  NoSha,            \* SQL NULL for a hash, a missing R2 object
  Size,             \* Size[s]: books in version s
  Cards,            \* Cards[s]: those of them with a card URL (the first ones)
  MinExpectedBooks, \* MIN_EXPECTED_BOOKS
  Retries,          \* retries of a step before it throws
  TailExclusive     \* TRUE: no run acquires while another is past its
                    \* activation (what the 24 h between two Crons provides)

ASSUME RunAssumption == NoRun \notin Run
ASSUME ShaAssumption == NoSha \notin Sha
ASSUME SizeAssumption == Size \in [Sha -> Nat]
ASSUME CardsAssumption == Cards \in [Sha -> Nat]
ASSUME BoundAssumption == MinExpectedBooks \in Nat \ {0} /\ Retries \in Nat
ASSUME TailAssumption == TailExclusive \in BOOLEAN

VARIABLES
  activeGeneration, sourceSha, activeBookCount, lockOwner, lockExpires,
              \* the aozora_catalog_state row
  books,      \* books[g]: rows of generation g in aozora_books
  contribs,   \* contribs[g]: rows of generation g in aozora_book_contributors
  status,     \* status[r]: run r's row in aozora_catalog_sync_runs
  zip,        \* zip[r]: version held by the source ZIP in R2
  chunks,     \* chunks[r]: version held by the parsed chunks in R2
  upstream,   \* the version the Aozora server serves
  pc,         \* pc[r]: the next statement of run r
  tries,      \* tries[r]: failed attempts of the current step
  pos,        \* pos[r]: chunks loaded by the current loop
  snap,       \* snap[r]: result of begin-run, the state row it read
  got,        \* got[r]: result of fetch-source, the version to load
  bookCount, contributorCount,
              \* COUNT(*) results of run r's validate-generation
  epoch,      \* history: number of lock acquisitions
  grant       \* grant[r]: history: run r's last acquisition

catalog == <<activeGeneration, sourceSha, activeBookCount>>
lock    == <<lockOwner, lockExpires>>
state   == <<catalog, lock>>
stores  == <<state, books, contribs, status>>
objects == <<zip, chunks>>
counts  == <<bookCount, contributorCount>>
results == <<snap, got, counts>>
history == <<epoch, grant>>

vars == <<stores, objects, results, history, upstream, pc, tries, pos>>

Rows(s) == 1 .. Size[s]

Statuses == {"none", "running", "unchanged", "completed", "failed",
             "skipped_locked"}

\* The statements of the workflow, in program order.
Locked == {"beginRun", "readState", "fetch", "markUnchanged",
           "releaseUnchanged", "parse", "loadBooks", "loadContributors",
           "countBooks", "countContributors", "countCards", "activate",
           "confirmActive"}
Tail   == {"finalize", "deleteContributors", "deleteBooks", "cleanupR2"}
Outer  == {"acquire", "markSkipped", "markFailed", "releaseFailed"}
Active == Locked \union Tail \union Outer
Over   == {"done", "errored"}
Labels == {"idle"} \union Active \union Over

\* First statement of the step that a statement belongs to.
StepStart(l) ==
  CASE l = "readState"         -> "beginRun"
    [] l = "releaseUnchanged"  -> "markUnchanged"
    [] l = "countContributors" -> "countBooks"
    [] l = "countCards"        -> "countBooks"
    [] l = "confirmActive"     -> "activate"
    [] l = "deleteBooks"       -> "deleteContributors"
    [] l = "releaseFailed"     -> "markFailed"
    [] OTHER                   -> l

\* Where run() goes when a step throws: runSync is inside the try block.
ThrowTarget(l) == IF l \in Outer THEN "errored" ELSE "markFailed"

-----------------------------------------------------------------------------
Snapshot == [book : Nat, sha : Sha \union {NoSha}]

TypeOK ==
  /\ activeGeneration \in Run \union {NoRun}
  /\ sourceSha \in Sha \union {NoSha}
  /\ activeBookCount \in Nat
  /\ lockOwner \in Run \union {NoRun}
  /\ lockExpires \in {"null", "future", "past"}
  /\ books \in [Run -> SUBSET Nat]
  /\ contribs \in [Run -> SUBSET Nat]
  /\ status \in [Run -> Statuses]
  /\ zip \in [Run -> Sha \union {NoSha}]
  /\ chunks \in [Run -> Sha \union {NoSha}]
  /\ upstream \in Sha
  /\ pc \in [Run -> Labels]
  /\ tries \in [Run -> 0 .. Retries]
  /\ pos \in [Run -> Nat]
  /\ snap \in [Run -> Snapshot]
  /\ got \in [Run -> Sha \union {NoSha}]
  /\ bookCount \in [Run -> Nat]
  /\ contributorCount \in [Run -> Nat]
  /\ epoch \in Nat
  /\ grant \in [Run -> Nat]

Init ==
  /\ activeGeneration = NoRun /\ sourceSha = NoSha /\ activeBookCount = 0
  /\ lockOwner = NoRun /\ lockExpires = "null"
  /\ books = [r \in Run |-> {}]
  /\ contribs = [r \in Run |-> {}]
  /\ status = [r \in Run |-> "none"]
  /\ zip = [r \in Run |-> NoSha]
  /\ chunks = [r \in Run |-> NoSha]
  /\ upstream \in Sha
  /\ pc = [r \in Run |-> "idle"]
  /\ tries = [r \in Run |-> 0]
  /\ pos = [r \in Run |-> 0]
  /\ snap = [r \in Run |-> [book |-> 0, sha |-> NoSha]]
  /\ got = [r \in Run |-> NoSha]
  /\ bookCount = [r \in Run |-> 0]
  /\ contributorCount = [r \in Run |-> 0]
  /\ epoch = 0
  /\ grant = [r \in Run |-> 0]

-----------------------------------------------------------------------------
(***************************************************************************)
(* Control: how an attempt of a step ends.                                 *)
(***************************************************************************)
Goto(r, l) == pc' = [pc EXCEPT ![r] = l]

\* Mutant: no retry limit.
AttemptFailsForever(r) ==
  /\ tries' = [tries EXCEPT ![r] = IF @ < Retries THEN @ + 1 ELSE @]
  /\ Goto(r, StepStart(pc[r]))

\* The attempt fails: the step starts again, or throws at its retry limit.
AttemptFails(r) ==
  \/ /\ tries[r] < Retries
     /\ tries' = [tries EXCEPT ![r] = @ + 1]
     /\ Goto(r, StepStart(pc[r]))
  \/ /\ tries[r] = Retries
     /\ tries' = [tries EXCEPT ![r] = 0]
     /\ Goto(r, ThrowTarget(pc[r]))

\* The next statement of the same attempt.
Continue(r, l) == Goto(r, l) /\ UNCHANGED tries

\* The engine records the result and moves on to l.
StepSucceeds(r, l) == Goto(r, l) /\ tries' = [tries EXCEPT ![r] = 0]

\* Last statement of a step: the engine records the result and moves on to
\* l, or the response is lost after the commit.
StepEnds(r, l) == StepSucceeds(r, l) \/ AttemptFails(r)

\* NonRetryableError: runSync throws without another attempt.
ThrowNonRetryable(r) == StepSucceeds(r, "markFailed")

-----------------------------------------------------------------------------
(***************************************************************************)
(* The statements.                                                         *)
(***************************************************************************)
At(r, l) == pc[r] = l

\* scheduled() or a manual trigger creates the instance.
Start(r) ==
  /\ At(r, "idle")
  /\ Continue(r, "acquire")
  /\ UNCHANGED <<stores, objects, results, history, upstream, pos>>

\* Mutant: the UPDATE does not compare lock_expires_at with the clock.
LockGrantableUnexpiring(r) ==
  lockOwner = NoRun \/ lockExpires = "null" \/ lockOwner = r

\* WHERE clause of the conditional UPDATE.
LockGrantable(r) ==
  lockOwner = NoRun \/ lockExpires \in {"null", "past"} \/ lockOwner = r

\* Environment (only with TailExclusive): o has published and not ended.
Publishing(o) == pc[o] \in Tail \/ (activeGeneration = o /\ pc[o] \notin Over)

Acquire(r) ==
  /\ At(r, "acquire")
  /\ TailExclusive => \A o \in Run : ~Publishing(o)
  /\ \/ /\ LockGrantable(r)
        /\ lockOwner' = r /\ lockExpires' = "future"
        /\ epoch' = epoch + 1
        /\ grant' = [grant EXCEPT ![r] = epoch + 1]
        /\ StepEnds(r, "beginRun")
     \/ /\ ~LockGrantable(r)
        /\ StepEnds(r, "markSkipped")
        /\ UNCHANGED <<lock, history>>
  /\ UNCHANGED <<catalog, books, contribs, status, objects, results, upstream, pos>>

MarkSkipped(r) ==
  /\ At(r, "markSkipped")
  /\ status' = [status EXCEPT ![r] = "skipped_locked"]
  /\ StepEnds(r, "done")
  /\ UNCHANGED <<state, books, contribs, objects, results, history, upstream,
                 pos>>

BeginRun(r) ==
  /\ At(r, "beginRun")
  /\ status' = [status EXCEPT ![r] = "running"]
  /\ Continue(r, "readState")
  /\ UNCHANGED <<state, books, contribs, objects, results, history, upstream,
                 pos>>

ReadState(r) ==
  /\ At(r, "readState")
  /\ snap' = [snap EXCEPT ![r] = [book |-> activeBookCount, sha |-> sourceSha]]
  /\ StepEnds(r, "fetch")
  /\ UNCHANGED <<stores, objects, got, counts, history, upstream, pos>>

\* Mutant: the hash of the first attempt is remembered across attempts.
FirstFetchedVersion(r) == IF got[r] = NoSha THEN upstream ELSE got[r]

\* The version whose hash an attempt of fetch-source returns.
FetchedVersion(r) == upstream

\* 304 and an identical hash are one case; a 5xx is a failed attempt.
FetchSource(r) ==
  /\ At(r, "fetch")
  /\ \/ /\ upstream = snap[r].sha
        /\ StepEnds(r, "markUnchanged")
        /\ UNCHANGED <<zip, got>>
     \/ /\ upstream # snap[r].sha
        /\ zip' = [zip EXCEPT ![r] = upstream]
        /\ got' = [got EXCEPT ![r] = FetchedVersion(r)]
        /\ StepEnds(r, "parse")
     \/ ThrowNonRetryable(r) /\ UNCHANGED <<zip, got>>
  /\ UNCHANGED <<stores, chunks, snap, counts, history, upstream, pos>>

MarkUnchanged(r) ==
  /\ At(r, "markUnchanged")
  /\ status' = [status EXCEPT ![r] = "unchanged"]
  /\ Continue(r, "releaseUnchanged")
  /\ UNCHANGED <<state, books, contribs, objects, results, history, upstream,
                 pos>>

\* UPDATE ... WHERE lock_owner = r: a no-op for a run that lost the lock.
ReleaseLock(r) ==
  IF lockOwner = r THEN lockOwner' = NoRun /\ lockExpires' = "null"
                   ELSE UNCHANGED lock

ReleaseUnchanged(r) ==
  /\ At(r, "releaseUnchanged")
  /\ ReleaseLock(r)
  /\ StepEnds(r, "done")
  /\ UNCHANGED <<catalog, books, contribs, status, objects, results, history,
                 upstream, pos>>

ParseSource(r) ==
  /\ At(r, "parse")
  /\ \/ /\ zip[r] # NoSha
        /\ chunks' = [chunks EXCEPT ![r] = zip[r]]
        /\ StepEnds(r, "loadBooks")
     \/ ThrowNonRetryable(r) /\ UNCHANGED chunks
  /\ UNCHANGED <<stores, zip, results, history, upstream, pos>>

\* One iteration of the load-books loop, or its end.
LoadBooks(r) ==
  /\ At(r, "loadBooks")
  /\ \/ /\ pos[r] < Size[got[r]]
        /\ books' = [books EXCEPT ![r] = @ \union {pos[r] + 1}]
        /\ \/ /\ pos' = [pos EXCEPT ![r] = @ + 1]
              /\ StepSucceeds(r, pc[r])
           \/ AttemptFails(r) /\ UNCHANGED pos
     \/ /\ pos[r] = Size[got[r]]
        /\ pos' = [pos EXCEPT ![r] = 0]
        /\ Continue(r, "loadContributors")
        /\ UNCHANGED books
  /\ UNCHANGED <<state, contribs, status, objects, results, history,
                 upstream>>

\* A contributor row needs its book: the foreign key makes the batch fail.
LoadContributors(r) ==
  /\ At(r, "loadContributors")
  /\ \/ /\ pos[r] < Size[got[r]]
        /\ pos[r] + 1 \in books[r]
        /\ contribs' = [contribs EXCEPT ![r] = @ \union {pos[r] + 1}]
        /\ \/ /\ pos' = [pos EXCEPT ![r] = @ + 1]
              /\ StepSucceeds(r, pc[r])
           \/ AttemptFails(r) /\ UNCHANGED pos
     \/ /\ pos[r] = Size[got[r]]
        /\ pos' = [pos EXCEPT ![r] = 0]
        /\ Continue(r, "countBooks")
        /\ UNCHANGED contribs
  /\ UNCHANGED <<state, books, status, objects, results, history, upstream>>

CountBooks(r) ==
  /\ At(r, "countBooks")
  /\ bookCount' = [bookCount EXCEPT ![r] = Cardinality(books[r])]
  /\ Continue(r, "countContributors")
  /\ UNCHANGED <<stores, objects, snap, got, contributorCount, history, upstream,
                 pos>>

CountContributors(r) ==
  /\ At(r, "countContributors")
  /\ contributorCount' =
       [contributorCount EXCEPT ![r] = Cardinality(contribs[r])]
  /\ Continue(r, "countCards")
  /\ UNCHANGED <<stores, objects, snap, got, bookCount, history, upstream, pos>>

\* Mutant: the comparison with the previous catalog is missing.
CountsValidAlone(r, cards) ==
  LET manifest == Size[got[r]]
  IN /\ bookCount[r] = manifest
     /\ contributorCount[r] = manifest
     /\ manifest >= MinExpectedBooks
     /\ 10 * cards >= 9 * manifest

\* validateCounts: counts against the manifest, the floor, the card-URL
\* ratio (0.9), and the share of the previous catalog retained (0.8).
CountsValid(r, cards) ==
  LET manifest == Size[got[r]]
      n        == bookCount[r]
  IN /\ n = manifest
     /\ contributorCount[r] = manifest
     /\ n >= MinExpectedBooks
     /\ 10 * cards >= 9 * n
     /\ 10 * n >= 8 * snap[r].book

\* The third COUNT(*), and the verdict.
CountCards(r) ==
  /\ At(r, "countCards")
  /\ LET cards == Cardinality(books[r] \intersect (1 .. Cards[got[r]]))
     IN \/ CountsValid(r, cards) /\ StepEnds(r, "activate")
        \/ ~CountsValid(r, cards) /\ ThrowNonRetryable(r)
  /\ UNCHANGED <<stores, objects, results, history, upstream, pos>>

\* Mutant: the activation is not guarded by lock ownership.
MayActivateUnlocked(r) == TRUE

\* WHERE clause of the activation.
MayActivate(r) == lockOwner = r

ActivateGeneration(r) ==
  /\ At(r, "activate")
  /\ \/ /\ MayActivate(r)
        /\ activeGeneration' = r
        /\ sourceSha' = got[r]
        /\ activeBookCount' = Size[got[r]]
        /\ lockOwner' = NoRun /\ lockExpires' = "null"
        /\ StepEnds(r, "finalize")
     \/ /\ ~MayActivate(r)
        /\ Continue(r, "confirmActive")
        /\ UNCHANGED state
  /\ UNCHANGED <<books, contribs, status, objects, results, history, upstream,
                 pos>>

\* Mutant: zero updated rows are always taken for a repeated attempt.
ConfirmActiveBlindly(r) ==
  /\ At(r, "confirmActive")
  /\ StepEnds(r, "finalize")
  /\ UNCHANGED <<stores, objects, results, history, upstream, pos>>

\* Zero rows updated: did an earlier attempt switch, or is the lock lost?
ConfirmActive(r) ==
  /\ At(r, "confirmActive")
  /\ \/ activeGeneration = r /\ StepEnds(r, "finalize")
     \/ activeGeneration # r /\ ThrowNonRetryable(r)
  /\ UNCHANGED <<stores, objects, results, history, upstream, pos>>

FinalizeRun(r) ==
  /\ At(r, "finalize")
  /\ status' = [status EXCEPT ![r] = "completed"]
  /\ StepEnds(r, "deleteContributors")
  /\ UNCHANGED <<state, books, contribs, objects, results, history, upstream,
                 pos>>

\* Mutant: the comparison of the DELETE is inverted.
OtherGenerations(table, keep) ==
  [g \in Run |-> IF g = keep THEN {} ELSE table[g]]

\* DELETE ... WHERE generation <> keep.
OnlyGeneration(table, keep) ==
  [g \in Run |-> IF g = keep THEN table[g] ELSE {}]

DeleteContributors(r) ==
  /\ At(r, "deleteContributors")
  /\ contribs' = OnlyGeneration(contribs, r)
  /\ Continue(r, "deleteBooks")
  /\ UNCHANGED <<state, books, status, objects, results, history, upstream,
                 pos>>

\* ON DELETE CASCADE takes the contributors loaded since.
DeleteBooks(r) ==
  /\ At(r, "deleteBooks")
  /\ books' = OnlyGeneration(books, r)
  /\ contribs' = OnlyGeneration(contribs, r)
  /\ StepEnds(r, "cleanupR2")
  /\ UNCHANGED <<state, status, objects, results, history, upstream, pos>>

\* A D1 error in either DELETE is caught and logged: the step succeeds.
DeleteErrorCaught(r) ==
  /\ pc[r] \in {"deleteContributors", "deleteBooks"}
  /\ StepEnds(r, "cleanupR2")
  /\ UNCHANGED <<stores, objects, results, history, upstream, pos>>

CleanupR2(r) ==
  /\ At(r, "cleanupR2")
  /\ \/ /\ zip' = [zip EXCEPT ![r] = NoSha]
        /\ chunks' = [chunks EXCEPT ![r] = NoSha]
     \/ UNCHANGED objects
  /\ StepEnds(r, "done")
  /\ UNCHANGED <<stores, results, history, upstream, pos>>

\* UPDATE: there is no row yet when begin-run never wrote one.
MarkFailed(r) ==
  /\ At(r, "markFailed")
  /\ status' = [status EXCEPT ![r] = IF @ = "none" THEN @ ELSE "failed"]
  /\ Continue(r, "releaseFailed")
  /\ UNCHANGED <<state, books, contribs, objects, results, history, upstream,
                 pos>>

ReleaseFailed(r) ==
  /\ At(r, "releaseFailed")
  /\ ReleaseLock(r)
  /\ StepEnds(r, "errored")
  /\ UNCHANGED <<catalog, books, contribs, status, objects, results, history,
                 upstream, pos>>

\* An attempt stops before its next statement: error, timeout, eviction.
StepFails(r) ==
  /\ pc[r] \in Active
  /\ AttemptFails(r)
  /\ UNCHANGED <<stores, objects, results, history, upstream, pos>>

\* The instance is terminated: not even the catch block runs.
Kill(r) ==
  /\ pc[r] \in Active
  /\ Goto(r, "errored")
  /\ tries' = [tries EXCEPT ![r] = 0]
  /\ UNCHANGED <<stores, objects, results, history, upstream, pos>>

\* lock_expires_at (LOCK_TTL_MINUTES after the grant) passes.
LockExpires ==
  /\ lockExpires = "future"
  /\ lockExpires' = "past"
  /\ UNCHANGED <<catalog, lockOwner, books, contribs, status, objects, results,
                 history, upstream, pc, tries, pos>>

SourceChanges ==
  /\ upstream' \in Sha \ {upstream}
  /\ UNCHANGED <<stores, objects, results, history, pc, tries, pos>>

RunStep(r) ==
  \/ Acquire(r) \/ MarkSkipped(r) \/ BeginRun(r) \/ ReadState(r)
  \/ FetchSource(r) \/ MarkUnchanged(r) \/ ReleaseUnchanged(r)
  \/ ParseSource(r) \/ LoadBooks(r) \/ LoadContributors(r)
  \/ CountBooks(r) \/ CountContributors(r) \/ CountCards(r)
  \/ ActivateGeneration(r) \/ ConfirmActive(r) \/ FinalizeRun(r)
  \/ DeleteContributors(r) \/ DeleteBooks(r) \/ DeleteErrorCaught(r)
  \/ CleanupR2(r) \/ MarkFailed(r) \/ ReleaseFailed(r) \/ StepFails(r)

Next ==
  \/ \E r \in Run : Start(r) \/ RunStep(r) \/ Kill(r)
  \/ LockExpires
  \/ SourceChanges

Spec == Init /\ [][Next]_vars

\* The engine keeps resuming an instance that has not ended; time passes.
Fairness == (\A r \in Run : WF_vars(RunStep(r))) /\ WF_vars(LockExpires)

FairSpec == Spec /\ Fairness

-----------------------------------------------------------------------------
(***************************************************************************)
(* Correctness.                                                            *)
(***************************************************************************)

\* What GET /api/books reads through the *_active views: every book of the
\* active generation, each with its contributors.  (migrations/aozora,
\* 0001_init.sql: "search callers never see a half-loaded generation".)
ActiveGenerationComplete ==
  activeGeneration # NoRun =>
    /\ books[activeGeneration] = Rows(sourceSha)
    /\ contribs[activeGeneration] = Rows(sourceSha)

\* The lock is a fence.  A run whose lock expired and went to another run
\* never moves the active pointer back from what the later holder published.
FencedActivation ==
  [][ activeGeneration' # activeGeneration /\ activeGeneration # NoRun
        => grant[activeGeneration'] > grant[activeGeneration] ]_vars

\* The retained-books check is made against the snapshot of begin-run, but
\* holds for the catalog that the switch really replaces.
SwitchRetainsBooks ==
  [][ activeGeneration' # activeGeneration
        => 10 * activeBookCount' >= 8 * activeBookCount ]_vars

\* The history a finished run leaves is true: a completed run's generation
\* is active or was replaced by a later lock holder, and an unchanged run
\* found a catalog in place.
RunHistoryIsTrue ==
  \A r \in Run :
    /\ status[r] = "completed" => /\ activeGeneration # NoRun
                                  /\ grant[activeGeneration] >= grant[r]
    /\ status[r] = "unchanged" => activeGeneration # NoRun

\* A run that returns normally leaves no lock behind, whatever responses of
\* acquire, release or activate were lost and repeated.
FinishedRunHoldsNoLock == \A r \in Run : pc[r] = "done" => lockOwner # r

\* The hash in a generation's name and in the state row is that of the ZIP
\* its rows were parsed from, although a repeated fetch may find another
\* version upstream.
GenerationNamesItsSource ==
  \A r \in Run : /\ chunks[r] # NoSha => chunks[r] = got[r]
                 /\ activeGeneration = r => sourceSha = got[r]

\* Every run that starts ends, in the steps and retries it is allowed.
RunTerminates == \A r \in Run : pc[r] \in Active ~> pc[r] \in Over

\* A run that ends with the lock, killed or out of retries at its release,
\* never runs the statement that would give it back: every other run is granted
\* the lock all the same, once it asks late enough (the WHERE clause of
\* acquireCatalogSyncLock is the only way).
LockRecovers ==
  \A o \in Run : \A r \in Run \ {o} :
    (lockOwner = o /\ pc[o] \in Over) ~> LockGrantable(r)

-----------------------------------------------------------------------------
(***************************************************************************)
(* Refinement of CatalogPublish.                                           *)
(***************************************************************************)
View ==
  IF activeGeneration = NoRun
  THEN [sha |-> NoSha, books |-> {}, contribs |-> {}]
  ELSE [sha |-> sourceSha, books |-> books[activeGeneration],
        contribs |-> contribs[activeGeneration]]

Edition == IF activeGeneration = NoRun THEN 0 ELSE grant[activeGeneration]

Publish == INSTANCE CatalogPublish WITH view <- View, edition <- Edition

\* Whatever the runs do, a search sees one whole catalog change into another.
ImplementsPublish == Publish!Spec

=============================================================================
