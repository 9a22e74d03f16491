-------------------------- MODULE ConvertJobProofs --------------------------
(***************************************************************************)
(* Theorems about ConvertJob, for any number of pieces, any retry limits   *)
(* and any number of expiries and failed deletions.                        *)
(***************************************************************************)
EXTENDS ConvertJob, Ranks, FiniteSetTheorems, TLAPS

-----------------------------------------------------------------------------
(* The inductive invariant.                                                *)

\* A job runs only after the handler created it.
Started ==
  post \in {"idle", "saved"} =>
    step = "none" /\ result = "none" /\ reported = "none"

\* Which kinds of jobs come to which steps.
Route ==
  /\ step = "extract" => kind = "extract"
  /\ step = "prepare" => kind = "document"
  /\ kind = "pdf" => step \notin {"render", "split", "chunk", "merge"}
  /\ step \in {"none", "queued", "extract", "prepare", "render", "split"} =>
       pos = 0
  /\ step = "chunk" => pos < Chunks

\* The output is stored before run() returns.
Stored ==
  /\ result = "ok" => Output \in r2 \union expired
  /\ step = "complete" => result = "ok"

\* The delete step knows the upload until it has tried to delete it.
Removed ==
  /\ kind \notin Uploads => Input \notin r2
  /\ kind \in Uploads /\ step = "cleanup" /\ Input \in r2 =>
       Input \in todo \union kept
  /\ UploadsAreDeleted

\* What each step reads is there, unless something took it from outside.
Undisturbed == expired = {} /\ reported # "refused"

Reads(l) ==
  CASE l = "queued" /\ kind \in Uploads   -> {Input}
    [] l = "prepare"                      -> {Input}
    [] l = "render" /\ kind = "document"  -> {Article}
    [] l = "split"                        -> {Article}
    [] l = "chunk"                        ->
         {Manifest} \union Pieces \union {Part(i) : i \in 1 .. pos}
    [] l = "merge"                        -> {Manifest} \union Parts
    [] l = "convert"                      -> {Source}
    [] OTHER                              -> {}

Supplied ==
  /\ post = "undo" => reported = "refused"
  /\ Undisturbed =>
       /\ post = "saved" => Input \in r2
       /\ Reads(step) \subseteq r2
       /\ result # "missing"

Control == Started /\ Route /\ Stored /\ Removed /\ Supplied

Inv == TypeOK /\ Control

-----------------------------------------------------------------------------
(* Lemmas.                                                                 *)

\* The keys of a job name different objects.
LEMMA ObjectsDiffer ==
  /\ Input # Output
  /\ Input \notin Intermediate /\ Output \notin Intermediate
  /\ {Article, Pdf, Manifest} \union Fallback \subseteq Intermediate
  /\ {Manifest} \union Pieces \union Parts \subseteq Fallback
  /\ Intermediate \union {Input, Output} \subseteq Objects
  /\ \A i \in 1 .. Chunks : Html(i) \in Pieces /\ Part(i) \in Parts
<1>1. Input # Output BY DEF Input, Output
<1>2. Input \notin Intermediate
  BY DEF Input, Intermediate, Article, Pdf, Fallback, Manifest, Pieces, Parts,
         Html, Part
<1>3. Output \notin Intermediate
  BY DEF Output, Intermediate, Article, Pdf, Fallback, Manifest, Pieces, Parts,
         Html, Part
<1>4. {Article, Pdf, Manifest} \union Fallback \subseteq Intermediate
  BY DEF Intermediate, Fallback
<1>5. {Manifest} \union Pieces \union Parts \subseteq Fallback
  BY DEF Fallback
<1>6. Intermediate \union {Input, Output} \subseteq Objects BY DEF Objects
<1>7. \A i \in 1 .. Chunks : Html(i) \in Pieces /\ Part(i) \in Parts
  BY DEF Pieces, Parts
<1> QED BY <1>1, <1>2, <1>3, <1>4, <1>5, <1>6, <1>7

\* The two ways an attempt of a step other than the delete step fails.
Retried ==
  /\ step' = step /\ result' = result /\ todo' = {}
  /\ tries' = tries + 1 /\ tries < Retries[step]

GivenUp(whys) ==
  /\ step' = ThrowTarget /\ result' \in whys \union {"failed"} /\ tries' = 0
  /\ todo' = IF ThrowTarget = "cleanup" THEN CleanupKeys ELSE {}

LEMMA AttemptEnds ==
  ASSUME step # "cleanup", NEW whys,
         AttemptFails \/ \E why \in whys : Throw(why)
  PROVE  Retried \/ GivenUp(whys)
BY DEF AttemptFails, Throw, Enter, Retried, GivenUp

-----------------------------------------------------------------------------
(* Type correctness.                                                       *)

LEMMA TypeOKInit == Init => TypeOK
<1> SUFFICES ASSUME Init PROVE TypeOK OBVIOUS
<1>1. 0 \in 0 .. Chunks BY ChunksAssumption
<1>2. step \notin Steps BY DEF Init, Steps
<1> QED BY <1>1, <1>2 DEF Init, TypeOK, Kinds, Running

\* What a step that is started, retried or given up leaves is well typed.
LEMMA KeysType ==
  ASSUME TypeOK
  PROVE  CleanupKeys \in SUBSET (Objects \ {Output})
BY ObjectsDiffer DEF TypeOK, CleanupKeys

LEMMA EnterType ==
  ASSUME TypeOK, NEW l \in Steps \union Over, Enter(l)
  PROVE  /\ step' = l /\ tries' \in Nat /\ todo' \in SUBSET (Objects \ {Output})
         /\ Running' => tries' <= Retries[step']
BY KeysType, RetriesAssumption DEF Enter, Running, TypeOK

LEMMA FailType ==
  ASSUME TypeOK, step \in Steps, NEW whys \in SUBSET {"missing", "failed"},
         AttemptFails \/ \E why \in whys : Throw(why)
  PROVE  /\ step' \in Steps \union Over /\ tries' \in Nat
         /\ todo' \in SUBSET (Objects \ {Output})
         /\ Running' => tries' <= Retries[step']
         /\ result' \in {"none", "ok", "missing", "failed"}
<1>1. CASE /\ tries < Retries[step]
           /\ tries' = tries + 1
           /\ todo' = IF step = "cleanup" THEN CleanupKeys ELSE {}
           /\ UNCHANGED <<step, result>>
  BY <1>1, KeysType, RetriesAssumption DEF TypeOK, Running
<1>2. CASE \E why \in whys \union {"failed"} : Throw(why)
  <2>1. PICK why \in whys \union {"failed"} : Throw(why) BY <1>2
  <2>2. ThrowTarget \in Steps \union Over BY DEF ThrowTarget, Steps, Over
  <2>3. Enter(ThrowTarget) /\ result' = why BY <2>1 DEF Throw
  <2> QED BY <2>2, <2>3, EnterType
<1> QED BY <1>1, <1>2 DEF AttemptFails

\* The variables of the client and of the handler, when a step leaves them alone.
LEMMA WorkType ==
  ASSUME TypeOK, UNCHANGED <<kind, expired, handler, request>>,
         r2' \in SUBSET Objects, kept' \in SUBSET (Objects \ {Output}),
         step' \in {"none", "queued"} \union Steps \union Over, tries' \in Nat,
         Running' => tries' <= Retries[step'],
         pos' \in 0 .. Chunks, todo' \in SUBSET (Objects \ {Output}),
         known' \in SUBSET Intermediate, aozora' \in BOOLEAN,
         result' \in {"none", "ok", "missing", "failed"}
  PROVE  TypeOK'
<1>1. Probes' = Probes BY DEF Probes
<1> QED BY <1>1 DEF TypeOK, handler, request

\* The helpers that the steps end with.
LEMMA FailsEarlyType ==
  ASSUME TypeOK, step \in Steps, NEW whys \in SUBSET {"missing", "failed"},
         FailsEarly(whys), UNCHANGED others, pos' \in 0 .. Chunks
  PROVE  TypeOK'
<1>1. /\ step' \in Steps \union Over /\ tries' \in Nat
      /\ todo' \in SUBSET (Objects \ {Output})
      /\ Running' => tries' <= Retries[step']
      /\ result' \in {"none", "ok", "missing", "failed"}
  BY FailType DEF FailsEarly
<1>2. UNCHANGED <<r2, known, aozora, kind, expired, kept, handler, request>>
  BY DEF FailsEarly, others
<1> QED BY <1>1, <1>2, WorkType DEF TypeOK

LEMMA SucceedsType ==
  ASSUME TypeOK, NEW l \in Steps \union Over,
         (AttemptFails /\ step \in Steps) \/ Succeeds(l)
  PROVE  /\ step' \in Steps \union Over /\ tries' \in Nat
         /\ todo' \in SUBSET (Objects \ {Output})
         /\ Running' => tries' <= Retries[step']
         /\ result' \in {"none", "ok", "missing", "failed"}
<1>1. CASE AttemptFails /\ step \in Steps
  BY <1>1, FailType, {} \in SUBSET {"missing", "failed"}
<1>2. CASE Succeeds(l)
  BY <1>2, EnterType DEF Succeeds, TypeOK
<1> QED BY <1>1, <1>2

LEMMA StoresType ==
  ASSUME TypeOK, step \in Steps, NEW objects \in SUBSET Objects,
         NEW keys \in SUBSET Intermediate, NEW l \in Steps,
         Stores(objects, keys, l), UNCHANGED others, pos' \in 0 .. Chunks
  PROVE  TypeOK'
<1>1. /\ step' \in Steps \union Over /\ tries' \in Nat
      /\ todo' \in SUBSET (Objects \ {Output})
      /\ Running' => tries' <= Retries[step']
      /\ result' \in {"none", "ok", "missing", "failed"}
  BY SucceedsType DEF Stores
<1>2. UNCHANGED <<aozora, kind, expired, kept, handler, request>>
  BY DEF Stores, others
<1>3. r2' \in SUBSET Objects /\ known' \in SUBSET Intermediate
  BY DEF Stores, TypeOK
<1> QED BY <1>1, <1>2, <1>3, WorkType DEF TypeOK

\* Only the pieces that exist have a key among the objects of the job.
LEMMA HtmlIndex ==
  ASSUME NEW i \in Nat, Html(i) \in Objects
  PROVE  i \in 1 .. Chunks
<1>1. Html(i) \in Pieces
  BY DEF Objects, Intermediate, Fallback, Parts, Html, Part, Input, Article, Pdf,
         Manifest, Output
<1> QED BY <1>1, ChunksAssumption DEF Pieces, Html

LEMMA WorkKeepsType ==
  ASSUME TypeOK, Work
  PROVE  TypeOK'
<1> USE ObjectsDiffer
<1>1. CASE Begin
  <2>1. FirstStep \in Steps BY <1>1 DEF TypeOK, Kinds, FirstStep, Steps
  <2>2. Succeeds(FirstStep) /\ UNCHANGED <<r2, pos, known, aozora, others>>
    BY <1>1 DEF Begin
  <2> QED BY <2>1, <2>2, SucceedsType, WorkType DEF TypeOK, others
<1>2. CASE Extract
  <2>1. step \in Steps /\ UNCHANGED <<pos, others>>
    BY <1>2 DEF Extract, Steps
  <2>2. CASE FailsEarly({"failed"})
    BY <2>1, <2>2, FailsEarlyType DEF TypeOK
  <2>3. ASSUME NEW objects \in SUBSET {Article},
               r2' = r2 \union objects,
               \/ AttemptFails /\ UNCHANGED <<known, aozora>>
               \/ /\ Succeeds("render")
                  /\ known' \in SUBSET objects
                  /\ aozora' \in {a \in BOOLEAN : a => Article \in known'}
        PROVE  TypeOK'
    <3>1. "render" \in Steps BY DEF Steps
    <3>2. /\ step' \in Steps \union Over /\ tries' \in Nat
          /\ todo' \in SUBSET (Objects \ {Output})
          /\ Running' => tries' <= Retries[step']
          /\ result' \in {"none", "ok", "missing", "failed"}
      BY <2>1, <2>3, <3>1, SucceedsType
    <3>3. /\ r2' \in SUBSET Objects /\ known' \in SUBSET Intermediate
          /\ aozora' \in BOOLEAN
      BY <2>3 DEF TypeOK
    <3> QED BY <2>1, <3>2, <3>3, WorkType DEF TypeOK, others
  <2> QED BY <1>2, <2>2, <2>3 DEF Extract
<1>3. CASE Prepare
  <2>1. step \in Steps /\ UNCHANGED <<pos, others>> /\ "render" \in Steps
    BY <1>3 DEF Prepare, Steps
  <2>2. CASE FailsEarly({"failed"}) \/ FailsEarly({"missing"})
    BY <2>1, <2>2, FailsEarlyType DEF TypeOK
  <2>3. CASE Stores({Article}, {Article}, "render")
    BY <2>1, <2>3, StoresType DEF TypeOK
  <2> QED BY <1>3, <2>2, <2>3 DEF Prepare
<1>4. CASE Render
  <2>1. /\ step \in Steps /\ UNCHANGED <<pos, others>>
        /\ "convert" \in Steps /\ "split" \in Steps
    BY <1>4 DEF Render, Steps
  <2>2. CASE FailsEarly({"failed"}) \/ FailsEarly({"missing"})
    BY <2>1, <2>2, FailsEarlyType DEF TypeOK
  <2>3. CASE Stores({Pdf}, {Pdf}, "convert")
    BY <2>1, <2>3, StoresType DEF TypeOK
  <2>4. CASE /\ Succeeds("split") /\ known' = known \union Fallback
             /\ UNCHANGED <<r2, aozora>>
    BY <2>1, <2>4, SucceedsType, WorkType DEF TypeOK, others
  <2> QED BY <1>4, <2>2, <2>3, <2>4 DEF Render
<1>5. CASE Split
  <2>1. step \in Steps /\ UNCHANGED <<pos, others>> /\ "chunk" \in Steps
    BY <1>5 DEF Split, Steps
  <2>2. CASE FailsEarly({"failed"}) \/ FailsEarly({"missing"})
    BY <2>1, <2>2, FailsEarlyType DEF TypeOK
  <2>3. ASSUME NEW n \in 1 .. Chunks, AttemptFails,
               r2' = r2 \union {Html(i) : i \in 1 .. n},
               UNCHANGED <<known, aozora>>
        PROVE  TypeOK'
    <3>1. {Html(i) : i \in 1 .. n} \subseteq Objects
      BY ChunksAssumption DEF Pieces
    <3>2. r2' \in SUBSET Objects BY <2>3, <3>1 DEF TypeOK
    <3> QED BY <2>1, <2>3, <3>2, SucceedsType, WorkType DEF TypeOK, others
  <2>4. CASE Stores({Manifest} \union Pieces, {}, "chunk")
    BY <2>1, <2>4, StoresType DEF TypeOK
  <2> QED BY <1>5, <2>2, <2>3, <2>4 DEF Split
<1>6. CASE Chunk
  <2>1. /\ step \in Steps /\ UNCHANGED others
        /\ "chunk" \in Steps /\ "merge" \in Steps
    BY <1>6 DEF Chunk, Steps
  <2>2. CASE (FailsEarly({"failed"}) \/ FailsEarly({"missing"})) /\ UNCHANGED pos
    BY <2>1, <2>2, FailsEarlyType DEF TypeOK
  <2>3. CASE /\ Html(pos + 1) \in r2
             /\ r2' = r2 \union {Part(pos + 1)}
             /\ \/ AttemptFails /\ UNCHANGED pos
                \/ /\ pos' = pos + 1
                   /\ Succeeds(IF pos + 1 < Chunks THEN "chunk" ELSE "merge")
             /\ UNCHANGED <<known, aozora>>
    <3>1. pos + 1 \in 1 .. Chunks /\ pos + 1 \in 0 .. Chunks
      BY <2>3, HtmlIndex, ChunksAssumption DEF TypeOK
    <3>2. r2' \in SUBSET Objects BY <2>3, <3>1 DEF TypeOK
    <3>3. /\ step' \in Steps \union Over /\ tries' \in Nat
          /\ todo' \in SUBSET (Objects \ {Output})
          /\ Running' => tries' <= Retries[step']
          /\ result' \in {"none", "ok", "missing", "failed"}
      BY <2>1, <2>3, SucceedsType
    <3> QED BY <2>1, <2>3, <3>1, <3>2, <3>3, WorkType DEF TypeOK, others
  <2> QED BY <1>6, <2>2, <2>3 DEF Chunk
<1>7. CASE Merge
  <2>1. step \in Steps /\ UNCHANGED <<pos, others>> /\ "convert" \in Steps
    BY <1>7 DEF Merge, Steps
  <2>2. CASE FailsEarly({"failed"}) \/ FailsEarly({"missing"})
    BY <2>1, <2>2, FailsEarlyType DEF TypeOK
  <2>3. CASE Stores({Pdf}, {Pdf}, "convert")
    BY <2>1, <2>3, StoresType DEF TypeOK
  <2> QED BY <1>7, <2>2, <2>3 DEF Merge
<1>8. CASE Convert
  <2>1. step \in Steps /\ UNCHANGED <<pos, others>> /\ "cleanup" \in Steps
    BY <1>8 DEF Convert, Steps
  <2>2. CASE FailsEarly({"failed"}) \/ FailsEarly({"missing"})
    BY <2>1, <2>2, FailsEarlyType DEF TypeOK
  <2>3. CASE /\ r2' = r2 \union {Output}
             /\ AttemptFails \/ (result' = "ok" /\ Enter("cleanup"))
             /\ UNCHANGED <<known, aozora>>
    <3>1. /\ step' \in Steps \union Over /\ tries' \in Nat
          /\ todo' \in SUBSET (Objects \ {Output})
          /\ Running' => tries' <= Retries[step']
          /\ result' \in {"none", "ok", "missing", "failed"}
      <4>1. CASE AttemptFails
        BY <2>1, <4>1, FailType, {} \in SUBSET {"missing", "failed"}
      <4>2. CASE result' = "ok" /\ Enter("cleanup")
        BY <2>1, <4>2, EnterType
      <4> QED BY <2>3, <4>1, <4>2
    <3>2. r2' \in SUBSET Objects BY <2>3 DEF TypeOK
    <3> QED BY <2>1, <2>3, <3>1, <3>2, WorkType DEF TypeOK, others
  <2> QED BY <1>8, <2>2, <2>3 DEF Convert
<1>9. ASSUME NEW o \in Objects, Delete(o) PROVE TypeOK'
  <2>1. /\ UNCHANGED <<kind, expired, handler, request, step, tries, pos, known,
                       aozora, result>>
        /\ o \in todo /\ todo' = todo \ {o}
        /\ r2' \subseteq r2 /\ kept' \subseteq kept \union {o}
    BY <1>9 DEF Delete
  <2>2. Running' => tries' <= Retries[step'] BY <2>1 DEF TypeOK, Running
  <2> QED BY <2>1, <2>2, WorkType DEF TypeOK
<1>10. CASE DeleteStepEnds
  <2>1. /\ UNCHANGED <<kind, r2, expired, handler, request, pos, known, aozora>>
        /\ kept' \subseteq kept \union todo
    BY <1>10 DEF DeleteStepEnds
  <2>2. /\ step' \in Steps \union Over /\ tries' \in Nat
        /\ todo' \in SUBSET (Objects \ {Output})
        /\ Running' => tries' <= Retries[step']
        /\ result' \in {"none", "ok", "missing", "failed"}
    <3>1. CASE AttemptFails
      BY <1>10, <3>1, FailType, {} \in SUBSET {"missing", "failed"}
         DEF DeleteStepEnds, Steps
    <3>2. CASE /\ step' = IF result = "ok" THEN "complete" ELSE "errored"
               /\ UNCHANGED <<tries, todo, kept, result>>
      BY <3>2 DEF TypeOK, Running, Over, Steps
    <3> QED BY <1>10, <3>1, <3>2 DEF DeleteStepEnds
  <2> QED BY <2>1, <2>2, WorkType DEF TypeOK
<1> QED
  BY <1>1, <1>2, <1>3, <1>4, <1>5, <1>6, <1>7, <1>8, <1>9, <1>10 DEF Work

LEMMA HandlerKeepsType ==
  ASSUME TypeOK, Save \/ Create \/ Undo
  PROVE  TypeOK'
<1> USE ObjectsDiffer
<1>0. Probes' = Probes BY DEF Save, Create, Undo, Probes
<1>1. CASE Save
  <2>1. /\ r2' \in SUBSET Objects
        /\ post' \in {"saved", "done"} /\ reported' \in {reported, "refused"}
        /\ UNCHANGED <<kind, expired, workflow, request>>
    BY <1>1 DEF Save, TypeOK
  <2> QED BY <1>0, <2>1 DEF TypeOK, workflow, request, Running
<1>2. CASE Create
  <2>1. /\ step' \in {"none", "queued"} /\ post' \in {"undo", "done"}
        /\ reported' \in {"accepted", "refused"}
        /\ UNCHANGED <<kind, r2, expired, tries, pos, todo, kept, known, aozora,
                       result, request>>
    BY <1>2 DEF Create
  <2>2. ~ Running' BY <2>1 DEF Running, Steps
  <2> QED BY <1>0, <2>1, <2>2 DEF TypeOK, request
<1>3. CASE Undo
  <2>1. /\ r2' \subseteq r2 /\ post' = "done"
        /\ UNCHANGED <<kind, expired, reported, workflow, request>>
    BY <1>3 DEF Undo, DeleteBestEffort
  <2> QED BY <1>0, <2>1 DEF TypeOK, workflow, request, Running
<1> QED BY <1>1, <1>2, <1>3

LEMMA ClientKeepsType ==
  ASSUME TypeOK, Client
  PROVE  TypeOK'
<1>1. UNCHANGED elsewhere
  BY DEF Client, Ask, GetOutput, ReadStatus, Probe, Answer
<1>2. Probes' = Probes BY <1>1 DEF elsewhere, Probes
<1>3. ASSUME ask' \in {"idle", "get", "status", "probe"},
             wants' \in {"status", "download"},
             probed' \in SUBSET Probes, found' \in SUBSET probed',
             reply' \in {"none", "file", "conflict", "expired", "failed",
                         "unknown"},
             polled' \in {"none"} \union Phases
      PROVE  TypeOK'
  BY <1>1, <1>2, <1>3 DEF TypeOK, elsewhere, handler, workflow, Running
<1>4. ASSUME NEW phase \in Phases, Answers(phase)
      PROVE  /\ ask' = "idle" /\ polled' \in {"none"} \union Phases
             /\ reply' \in {"none", "file", "conflict", "expired", "failed",
                            "unknown"}
  BY <1>4 DEF Answers, MissingDownload, TypeOK
<1>5. ASSUME NEW w \in {"status", "download"}, Ask(w) PROVE TypeOK'
  BY <1>2, <1>3, <1>5 DEF Ask, TypeOK
<1>6. CASE GetOutput
  BY <1>2, <1>3, <1>6 DEF GetOutput, TypeOK
<1>7. CASE ReadStatus
  <2>1. UNCHANGED <<wants, probed, found>> BY <1>7 DEF ReadStatus
  <2>2. CASE /\ ask' \in {"idle", "probe"}
             /\ reply' \in {reply, "unknown"}
             /\ UNCHANGED polled
    BY <1>2, <1>3, <2>1, <2>2 DEF TypeOK
  <2>3. ASSUME NEW phase \in Phases, Answers(phase) PROVE TypeOK'
    BY <1>2, <1>3, <1>4, <2>1, <2>3 DEF TypeOK
  <2> QED BY <1>7, <2>2, <2>3 DEF ReadStatus, Phases
<1>8. ASSUME NEW o \in Probes, Probe(o) PROVE TypeOK'
  BY <1>2, <1>3, <1>8 DEF Probe, TypeOK
<1>9. CASE Answer
  <2>1. Phase \in Phases BY DEF Phase, Phases
  <2> QED BY <1>2, <1>3, <1>4, <1>9, <2>1 DEF Answer, TypeOK
<1> QED BY <1>5, <1>6, <1>7, <1>8, <1>9 DEF Client

LEMMA TypeOKNext == ASSUME TypeOK, [Next]_vars PROVE TypeOK'
<1>1. ASSUME NEW o \in Objects, Expire(o) PROVE TypeOK'
  <2>1. /\ r2' \subseteq r2 /\ expired' = expired \union {o}
        /\ UNCHANGED <<kind, handler, workflow, request>>
    BY <1>1 DEF Expire
  <2>2. Probes' = Probes BY <2>1 DEF Probes
  <2> QED BY <2>1, <2>2 DEF TypeOK, handler, workflow, request, Running
<1>2. CASE UNCHANGED vars
  BY <1>2 DEF TypeOK, vars, handler, workflow, request, Running, Probes
<1> QED BY <1>1, <1>2, HandlerKeepsType, WorkKeepsType, ClientKeepsType DEF Next

\* Every variable stays in its type, no step exceeds its retry limit, and the
\* delete step is never given the output of the job to delete.
THEOREM TypeCorrectness == Spec => []TypeOK
BY TypeOKInit, TypeOKNext, PTL DEF Spec

-----------------------------------------------------------------------------
(* The parts of the invariant that follow the control flow.                *)

LEMMA ControlInit == Init => Control
BY ChunksAssumption, ObjectsDiffer
   DEF Init, Control, Started, Route, Stored, Removed, Supplied, Undisturbed,
       Reads, UploadsAreDeleted, Over, Uploads, Kinds

\* What the variables that a step leaves alone say of the next state.
LEMMA OthersKept ==
  ASSUME UNCHANGED others
  PROVE  /\ UNCHANGED <<kind, expired, kept, post, reported>>
         /\ Undisturbed' = Undisturbed
BY DEF others, handler, Undisturbed

\* An attempt that fails, whatever it wrote: the job repeats the step, or goes
\* to the delete step, which gets the upload, or has no upload.
LEMMA FailureKeepsControl ==
  ASSUME TypeOK, Control, step \in Steps \ {"cleanup"}, NEW whys,
         AttemptFails \/ \E why \in whys : Throw(why),
         whys \subseteq {"missing", "failed"},
         "missing" \in whys => ~ Undisturbed,
         r2 \subseteq r2', Input \in r2' => Input \in r2,
         UNCHANGED <<pos, others>>
  PROVE  Control'
<1>1. CASE Retried
  <2>1. Started' BY <1>1, OthersKept DEF Control, Started, Retried
  <2>2. Route' BY <1>1, OthersKept DEF Control, Route, Retried
  <2>3. Stored' BY <1>1, OthersKept DEF Control, Stored, Retried
  <2>4. Removed'
    BY <1>1, OthersKept DEF Control, Removed, Retried, UploadsAreDeleted, Over,
       Steps
  <2>5. Reads(step)' = Reads(step)
    BY <1>1, OthersKept DEF Retried, Reads, Source
  <2>6. Supplied' BY <1>1, <2>5, OthersKept DEF Control, Supplied, Retried
  <2> QED BY <2>1, <2>2, <2>3, <2>4, <2>6 DEF Control
<1>2. CASE GivenUp(whys)
  <2>1. /\ step' \in {"cleanup", "errored"}
        /\ kind \in Uploads => step' = "cleanup" /\ Input \in todo'
        /\ result' \in {"missing", "failed"}
        /\ result' = "missing" => ~ Undisturbed
    BY <1>2 DEF GivenUp, ThrowTarget, CleanupKeys
  <2>2. post \notin {"idle", "saved"} BY DEF Control, Started, Steps
  <2>3. Started' BY <2>2, OthersKept DEF Started
  <2>4. Route' BY <2>1 DEF Route
  <2>5. Stored' BY <2>1 DEF Stored
  <2>6. Removed'
    BY <2>1, OthersKept DEF Control, Removed, UploadsAreDeleted, Over, Uploads
  <2>7. Reads(step)' = {} BY <2>1 DEF Reads
  <2>8. Supplied' BY <2>1, <2>2, <2>7, OthersKept DEF Control, Supplied
  <2> QED BY <2>3, <2>4, <2>5, <2>6, <2>8 DEF Control
<1> QED BY <1>1, <1>2, AttemptEnds

\* A step that succeeds and starts the next one, which finds what it reads.
LEMMA SuccessKeepsControl ==
  ASSUME TypeOK, Control, step \in (Steps \ {"cleanup"}) \union {"queued"},
         NEW l \in Steps, Enter(l),
         result' = result \/ (result' = "ok" /\ Output \in r2'),
         r2 \subseteq r2', Input \in r2' => Input \in r2,
         UNCHANGED others, Route', Undisturbed => Reads(l)' \subseteq r2'
  PROVE  Control'
<1>1. step' = l /\ (l = "cleanup" => todo' = CleanupKeys) BY DEF Enter
<1>2. post \notin {"idle", "saved"} BY DEF Control, Started, Steps
<1>3. Started' BY <1>2, OthersKept DEF Started
<1>4. Stored' BY <1>1, OthersKept DEF Control, Stored, Steps
<1>5. Removed'
  BY <1>1, OthersKept
     DEF Control, Removed, UploadsAreDeleted, Over, Uploads, CleanupKeys, Steps
<1>6. Supplied' BY <1>1, <1>2, OthersKept DEF Control, Supplied
<1> QED BY <1>3, <1>4, <1>5, <1>6 DEF Control

\* The same for the helpers: FailsEarly, and Stores of anything but an upload.
LEMMA FailsEarlyKeepsControl ==
  ASSUME TypeOK, Control, step \in Steps \ {"cleanup"},
         NEW whys \in {{"failed"}, {"missing"}}, FailsEarly(whys),
         "missing" \in whys => ~ (Reads(step) \subseteq r2),
         UNCHANGED <<pos, others>>
  PROVE  Control'
<1>1. UNCHANGED r2 /\ (AttemptFails \/ \E why \in whys : Throw(why))
  BY DEF FailsEarly
<1>2. "missing" \in whys => ~ Undisturbed BY DEF Control, Supplied
<1> QED BY <1>1, <1>2, FailureKeepsControl

LEMMA AttemptFailsKeepsControl ==
  ASSUME TypeOK, Control, step \in Steps \ {"cleanup"}, AttemptFails,
         r2 \subseteq r2', Input \in r2' => Input \in r2,
         UNCHANGED <<pos, others>>
  PROVE  Control'
<1> DEFINE whys == {}
<1>1. whys \subseteq {"missing", "failed"} /\ ("missing" \in whys => ~ Undisturbed)
  OBVIOUS
<1>2. AttemptFails \/ \E why \in whys : Throw(why) OBVIOUS
<1> HIDE DEF whys
<1> QED BY <1>1, <1>2, FailureKeepsControl

LEMMA StoresKeepsControl ==
  ASSUME TypeOK, Control, step \in Steps \ {"cleanup"},
         NEW objects \in SUBSET Intermediate, NEW keys, NEW l \in Steps,
         Stores(objects, keys, l), UNCHANGED <<pos, others>>,
         step' = l => Route' /\ (Undisturbed => Reads(l)' \subseteq r2')
  PROVE  Control'
<1>1. r2 \subseteq r2' /\ (Input \in r2' => Input \in r2)
  BY ObjectsDiffer DEF Stores
<1>2. CASE AttemptFails
  BY <1>1, <1>2, AttemptFailsKeepsControl
<1>3. CASE Succeeds(l)
  <2>1. step' = l BY <1>3 DEF Succeeds, Enter
  <2> QED BY <1>1, <1>3, <2>1, SuccessKeepsControl DEF Succeeds
<1> QED BY <1>2, <1>3 DEF Stores

LEMMA WorkKeepsControl ==
  ASSUME TypeOK, Control, Work
  PROVE  Control'
<1> USE ObjectsDiffer
<1> DEFINE Early ==
             \/ FailsEarly({"failed"})
             \/ FailsEarly({"missing"}) /\ ~ (Reads(step) \subseteq r2)
<1>0. ASSUME step \in Steps \ {"cleanup"}, Early, UNCHANGED <<pos, others>>
      PROVE  Control'
  BY <1>0, FailsEarlyKeepsControl
<1>1. CASE Begin
  <2>1. /\ step = "queued" /\ Enter(FirstStep) /\ result' = result
        /\ UNCHANGED <<r2, pos, others>> /\ step' = FirstStep
    BY <1>1 DEF Begin, Succeeds, Enter
  <2>2. PICK l \in Steps : l = FirstStep
    BY DEF TypeOK, Kinds, FirstStep, Steps
  <2>3. Route'
    BY <2>1, OthersKept, ChunksAssumption
       DEF Control, Route, FirstStep, TypeOK, Kinds
  <2>4. Undisturbed => Reads(l)' \subseteq r2'
    BY <2>1, <2>2, OthersKept
       DEF Control, Supplied, Reads, FirstStep, Source, TypeOK, Kinds, Uploads
  <2>5. Enter(l) BY <2>1, <2>2
  <2> QED BY <2>1, <2>3, <2>4, <2>5, SuccessKeepsControl
<1>2. CASE Extract
  <2>1. step = "extract" /\ step \in Steps \ {"cleanup"} /\ UNCHANGED <<pos, others>>
    BY <1>2 DEF Extract, Steps
  <2>2. ASSUME NEW objects \in SUBSET {Article}, r2' = r2 \union objects,
               AttemptFails \/ Succeeds("render")
        PROVE  Control'
    <3>1. r2 \subseteq r2' /\ (Input \in r2' => Input \in r2) BY <2>2
    <3>2. CASE AttemptFails
      BY <2>1, <3>1, <3>2, AttemptFailsKeepsControl
    <3>3. CASE Succeeds("render")
      <4>1. step' = "render" /\ "render" \in Steps
        BY <3>3 DEF Succeeds, Enter, Steps
      <4>2. kind = "extract" /\ pos = 0 BY <2>1 DEF Control, Route
      <4>3. Route' BY <2>1, <4>1, <4>2, OthersKept DEF Route
      <4>4. Reads("render")' = {} BY <2>1, <4>2, OthersKept DEF Reads
      <4> QED BY <2>1, <3>1, <3>3, <4>1, <4>3, <4>4, SuccessKeepsControl
              DEF Succeeds
    <3> QED BY <2>2, <3>2, <3>3
  <2>9. Early \/ \E objects \in SUBSET {Article} :
                   /\ r2' = r2 \union objects
                   /\ AttemptFails \/ Succeeds("render")
    BY <1>2, <2>1 DEF Extract
  <2> QED BY <1>0, <2>1, <2>2, <2>9
<1>3. CASE Prepare
  <2>1. /\ step = "prepare" /\ step \in Steps \ {"cleanup"}
        /\ UNCHANGED <<pos, others>> /\ "render" \in Steps
    BY <1>3 DEF Prepare, Steps
  <2>2. Reads(step) = {Input} BY <2>1 DEF Reads
  <2>3. CASE Stores({Article}, {Article}, "render")
    <3>1. Article \in r2' BY <2>3 DEF Stores
    <3>2. step' = "render" => Route'
      BY <2>1, OthersKept DEF Control, Route
    <3>3. Reads("render")' \subseteq r2' BY <3>1 DEF Reads
    <3> QED BY <2>1, <2>3, <3>2, <3>3, StoresKeepsControl
  <2>9. Early \/ Stores({Article}, {Article}, "render")
    BY <1>3, <2>2, <2>1 DEF Prepare
  <2> QED BY <1>0, <2>1, <2>2, <2>3, <2>9
<1>4. CASE Render
  <2>1. /\ step = "render" /\ step \in Steps \ {"cleanup"}
        /\ UNCHANGED <<pos, others>> /\ "convert" \in Steps /\ "split" \in Steps
    BY <1>4 DEF Render, Steps
  <2>2. kind = "document" => Reads(step) = {Article} BY <2>1 DEF Reads
  <2>3. kind # "pdf" /\ pos = 0 BY <2>1 DEF Control, Route
  <2>4. CASE Stores({Pdf}, {Pdf}, "convert")
    <3>1. Pdf \in r2' BY <2>4 DEF Stores
    <3>2. step' = "convert" => Route' BY <2>1, <2>3, OthersKept DEF Route
    <3>3. Reads("convert")' \subseteq r2'
      BY <2>1, <2>3, <3>1, OthersKept DEF Reads, Source
    <3> QED BY <2>1, <2>4, <3>2, <3>3, StoresKeepsControl
  <2>5. CASE Article \in r2 /\ Succeeds("split") /\ UNCHANGED r2
    <3>1. step' = "split" BY <2>5 DEF Succeeds, Enter
    <3>2. Route' BY <2>1, <2>3, <3>1, OthersKept DEF Route
    <3>3. Reads("split")' \subseteq r2' BY <2>5 DEF Reads
    <3> QED BY <2>1, <2>5, <3>2, <3>3, SuccessKeepsControl DEF Succeeds
  <2>9. Early \/ Stores({Pdf}, {Pdf}, "convert")
        \/ (Article \in r2 /\ Succeeds("split") /\ UNCHANGED r2)
    BY <1>4, <2>2, <2>1 DEF Render
  <2> QED BY <1>0, <2>1, <2>2, <2>4, <2>5, <2>9
<1>5. CASE Split
  <2>1. /\ step = "split" /\ step \in Steps \ {"cleanup"}
        /\ UNCHANGED <<pos, others>> /\ "chunk" \in Steps
    BY <1>5 DEF Split, Steps
  <2>2. Reads(step) = {Article} BY <2>1 DEF Reads
  <2>3. kind # "pdf" /\ pos = 0 BY <2>1 DEF Control, Route
  <2>4. ASSUME NEW n \in 1 .. Chunks, AttemptFails,
               r2' = r2 \union {Html(i) : i \in 1 .. n}
        PROVE  Control'
    <3>1. Input \notin {Html(i) : i \in 1 .. n} BY DEF Input, Html
    <3> QED BY <2>1, <2>4, <3>1, AttemptFailsKeepsControl
  <2>5. CASE Stores({Manifest} \union Pieces, {}, "chunk")
    <3>1. {Manifest} \union Pieces \subseteq r2' BY <2>5 DEF Stores
    <3>2. step' = "chunk" => Route'
      BY <2>1, <2>3, OthersKept, ChunksAssumption DEF Route
    <3>3. Reads("chunk")' \subseteq r2'
      <4>1. {Part(i) : i \in 1 .. pos'} = {} BY <2>1, <2>3
      <4>2. Reads("chunk")' = {Manifest} \union Pieces BY <4>1 DEF Reads
      <4> QED BY <3>1, <4>2
    <3> QED BY <2>1, <2>5, <3>2, <3>3, StoresKeepsControl
  <2>9. Early \/ Stores({Manifest} \union Pieces, {}, "chunk")
        \/ \E n \in 1 .. Chunks :
             AttemptFails /\ r2' = r2 \union {Html(i) : i \in 1 .. n}
    BY <1>5, <2>2, <2>1 DEF Split
  <2> QED BY <1>0, <2>1, <2>2, <2>4, <2>5, <2>9
<1>6. CASE Chunk
  <2>1. /\ step = "chunk" /\ step \in Steps \ {"cleanup"} /\ UNCHANGED others
        /\ "chunk" \in Steps /\ "merge" \in Steps
    BY <1>6 DEF Chunk, Steps
  <2>2. /\ kind # "pdf" /\ pos < Chunks /\ pos \in Nat
        /\ pos + 1 \in 1 .. Chunks
    BY <2>1, ChunksAssumption DEF Control, Route, TypeOK
  <2>3. /\ Reads(step) =
             {Manifest} \union Pieces \union {Part(i) : i \in 1 .. pos}
        /\ Html(pos + 1) \in Reads(step)
    BY <2>1, <2>2 DEF Reads
  <2>4. ASSUME r2' = r2 \union {Part(pos + 1)}, UNCHANGED pos, AttemptFails
        PROVE  Control'
    BY <2>1, <2>2, <2>4, AttemptFailsKeepsControl
  <2>5. ASSUME r2' = r2 \union {Part(pos + 1)}, pos' = pos + 1,
               Succeeds(IF pos + 1 < Chunks THEN "chunk" ELSE "merge")
        PROVE  Control'
    <3> DEFINE l == IF pos + 1 < Chunks THEN "chunk" ELSE "merge"
    <3>1. step' = l /\ l \in Steps BY <2>1, <2>5 DEF Succeeds, Enter
    <3>2. Route' BY <2>1, <2>2, <2>5, <3>1, OthersKept DEF Route
    <3>3. {Part(i) : i \in 1 .. pos'}
            = {Part(i) : i \in 1 .. pos} \union {Part(pos + 1)}
      <4>1. 1 .. pos' = (1 .. pos) \union {pos + 1} BY <2>2, <2>5
      <4> QED BY <4>1
    <3>4. CASE l = "chunk"
      <4>1. Reads("chunk")' = {Manifest} \union Pieces
                              \union {Part(i) : i \in 1 .. pos'}
        BY DEF Reads
      <4>2. Undisturbed => Reads("chunk")' \subseteq r2'
        BY <2>3, <2>5, <3>3, <4>1 DEF Control, Supplied
      <4> QED BY <2>1, <2>2, <2>5, <3>1, <3>2, <3>4, <4>2, SuccessKeepsControl
              DEF Succeeds
    <3>5. CASE l = "merge"
      <4>1. pos' = Chunks BY <2>2, <2>5, <3>5, ChunksAssumption
      <4>2. Parts = {Part(i) : i \in 1 .. pos'} BY <4>1 DEF Parts
      <4>3. Reads("merge")' = {Manifest} \union Parts BY DEF Reads
      <4>4. Undisturbed => Reads("merge")' \subseteq r2'
        BY <2>3, <2>5, <3>3, <4>2, <4>3 DEF Control, Supplied
      <4> QED BY <2>1, <2>2, <2>5, <3>1, <3>2, <3>5, <4>4, SuccessKeepsControl
              DEF Succeeds
    <3> QED BY <3>4, <3>5
  <2>9. (Early /\ UNCHANGED pos) \/ (/\ r2' = r2 \union {Part(pos + 1)}
            /\ \/ AttemptFails /\ UNCHANGED pos
               \/ /\ pos' = pos + 1
                  /\ Succeeds(IF pos + 1 < Chunks THEN "chunk" ELSE "merge"))
    BY <1>6, <2>3, <2>1 DEF Chunk
  <2> QED BY <1>0, <2>1, <2>3, <2>4, <2>5, <2>9
<1>7. CASE Merge
  <2>1. /\ step = "merge" /\ step \in Steps \ {"cleanup"}
        /\ UNCHANGED <<pos, others>> /\ "convert" \in Steps
    BY <1>7 DEF Merge, Steps
  <2>2. Reads(step) = {Manifest} \union Parts BY <2>1 DEF Reads
  <2>3. kind # "pdf" BY <2>1 DEF Control, Route
  <2>4. CASE Stores({Pdf}, {Pdf}, "convert")
    <3>1. Pdf \in r2' BY <2>4 DEF Stores
    <3>2. step' = "convert" => Route' BY <2>1, <2>3, OthersKept DEF Route
    <3>3. Reads("convert")' \subseteq r2'
      BY <2>1, <2>3, <3>1, OthersKept DEF Reads, Source
    <3> QED BY <2>1, <2>4, <3>2, <3>3, StoresKeepsControl
  <2>9. Early \/ Stores({Pdf}, {Pdf}, "convert")
    BY <1>7, <2>2, <2>1 DEF Merge
  <2> QED BY <1>0, <2>1, <2>2, <2>4, <2>9
<1>8. CASE Convert
  <2>1. /\ step = "convert" /\ step \in Steps \ {"cleanup"}
        /\ UNCHANGED <<pos, others>> /\ "cleanup" \in Steps
    BY <1>8 DEF Convert, Steps
  <2>2. Reads(step) = {Source} BY <2>1 DEF Reads
  <2>3. ASSUME r2' = r2 \union {Output},
               AttemptFails \/ (result' = "ok" /\ Enter("cleanup"))
        PROVE  Control'
    <3>1. r2 \subseteq r2' /\ (Input \in r2' => Input \in r2) BY <2>3
    <3>2. CASE AttemptFails
      BY <2>1, <3>1, <3>2, AttemptFailsKeepsControl
    <3>3. CASE result' = "ok" /\ Enter("cleanup")
      <4>1. step' = "cleanup" BY <3>3 DEF Enter
      <4>2. Route' BY <4>1 DEF Route
      <4>3. Reads("cleanup")' = {} BY DEF Reads
      <4> QED BY <2>1, <2>3, <3>1, <3>3, <4>2, <4>3, SuccessKeepsControl
    <3> QED BY <2>3, <3>2, <3>3
  <2>4. CASE Early BY <1>0, <2>1, <2>4
  <2>5. CASE /\ r2' = r2 \union {Output}
             /\ AttemptFails \/ (result' = "ok" /\ Enter("cleanup"))
    BY <2>3, <2>5
  <2> QED BY <1>8, <2>1, <2>2, <2>4, <2>5 DEF Convert
<1>9. ASSUME NEW o \in Objects, Delete(o) PROVE Control'
  <2>1. /\ UNCHANGED <<kind, expired, post, reported, step, pos, result>>
        /\ step = "cleanup" /\ o \in todo /\ todo' = todo \ {o}
        /\ \/ r2' = r2 \ {o} /\ kept' = kept \ {o}
           \/ r2' = r2 /\ kept' = kept \union {o}
    BY <1>9 DEF Delete, handler
  <2>2. o # Output BY <2>1 DEF TypeOK
  <2>3. post \notin {"idle", "saved"} BY <2>1 DEF Control, Started
  <2>4. Started' BY <2>1, <2>3 DEF Started
  <2>5. Route' BY <2>1 DEF Control, Route
  <2>6. Stored' BY <2>1, <2>2 DEF Control, Stored
  <2>7. Removed' BY <2>1 DEF Control, Removed, UploadsAreDeleted, Over
  <2>8. Reads(step)' = {} BY <2>1 DEF Reads
  <2>9. Supplied'
    BY <2>1, <2>3, <2>8 DEF Control, Supplied, Undisturbed
  <2> QED BY <2>4, <2>5, <2>6, <2>7, <2>9 DEF Control
<1>10. CASE DeleteStepEnds
  <2>1. /\ UNCHANGED <<kind, r2, expired, post, reported, pos>> /\ step = "cleanup"
    BY <1>10 DEF DeleteStepEnds, handler
  <2>2. post \notin {"idle", "saved"} BY <2>1 DEF Control, Started
  <2>3. /\ step' \in {"cleanup"} \union Over
        /\ step' = "complete" => result = "ok"
        /\ result' \in {result, "failed"}
        /\ step' = "complete" => result' = result
        /\ step' = "cleanup" => todo' = CleanupKeys
        /\ step' \in Over => kept \union todo \subseteq kept'
    <3>1. CASE AttemptFails
      <4>1. kept' = IF tries = Retries[step] THEN kept \union todo ELSE kept
        BY <1>10, <2>1, <3>1
           DEF DeleteStepEnds, AttemptFails, Throw, ThrowTarget, Enter
      <4> QED BY <2>1, <3>1, <4>1
              DEF AttemptFails, Throw, ThrowTarget, Enter, Over
    <3>2. CASE /\ todo = {}
               /\ step' = IF result = "ok" THEN "complete" ELSE "errored"
               /\ UNCHANGED <<tries, todo, kept, result>>
      BY <3>2 DEF Over
    <3> QED BY <1>10, <3>1, <3>2 DEF DeleteStepEnds
  <2>4. Started' BY <2>1, <2>2 DEF Started
  <2>5. Route' BY <2>1, <2>3 DEF Route, Over
  <2>6. Stored' BY <2>1, <2>3 DEF Control, Stored, Over
  <2>7. Removed'
    BY <2>1, <2>3 DEF Control, Removed, UploadsAreDeleted, Over, CleanupKeys
  <2>8. Reads(step)' = {} BY <2>3 DEF Reads, Over
  <2>9. Supplied' BY <2>1, <2>2, <2>3, <2>8 DEF Control, Supplied, Undisturbed
  <2> QED BY <2>4, <2>5, <2>6, <2>7, <2>9 DEF Control
<1> QED
  BY <1>1, <1>2, <1>3, <1>4, <1>5, <1>6, <1>7, <1>8, <1>9, <1>10 DEF Work

LEMMA HandlerKeepsControl ==
  ASSUME TypeOK, Control, Save \/ Create \/ Undo
  PROVE  Control'
<1> USE ObjectsDiffer
<1>1. CASE Save
  <2>1. /\ UNCHANGED <<kind, expired, step, pos, todo, kept, result>>
        /\ kind \in Uploads /\ step = "none" /\ result = "none"
        /\ \/ post' = "saved" /\ Input \in r2' /\ reported' = "none"
           \/ post' = "done"
    BY <1>1 DEF Save, Control, Started, workflow
  <2>2. Started' /\ Route' /\ Stored' BY <2>1 DEF Control, Started, Route, Stored
  <2>3. Removed' BY <2>1 DEF Removed, UploadsAreDeleted, Over, Uploads
  <2>4. Reads(step)' = {} BY <2>1 DEF Reads
  <2>5. Supplied' BY <2>1, <2>4 DEF Supplied, Undisturbed
  <2> QED BY <2>2, <2>3, <2>5 DEF Control
<1>2. CASE Create
  <2>1. /\ UNCHANGED <<kind, r2, expired, pos, todo, kept, result>>
        /\ step = "none" /\ step' \in {"none", "queued"} /\ result = "none"
        /\ post' \in {"undo", "done"}
        /\ post' = "undo" => reported' = "refused"
        /\ kind \in Uploads => post = "saved"
        /\ reported = "none"
    BY <1>2 DEF Create, Control, Started
  <2>3. Started' /\ Route' /\ Stored'
    BY <2>1 DEF Control, Started, Route, Stored
  <2>4. Removed' BY <2>1 DEF Control, Removed, UploadsAreDeleted, Over
  <2>5. Undisturbed' => Undisturbed BY <1>2, <2>1 DEF Undisturbed
  <2>6. Supplied' BY <2>1, <2>5 DEF Control, Supplied, Reads
  <2> QED BY <2>3, <2>4, <2>6 DEF Control
<1>3. CASE Undo
  <2>1. /\ UNCHANGED <<kind, expired, reported, step, pos, todo, kept, result>>
        /\ r2' = r2 \ {Input} \/ r2' = r2
        /\ post = "undo" /\ post' = "done"
    BY <1>3 DEF Undo, DeleteBestEffort, workflow
  <2>2. Started' /\ Route' /\ Stored'
    BY <2>1 DEF Control, Started, Route, Stored
  <2>3. Removed' BY <2>1 DEF Control, Removed, UploadsAreDeleted, Over
  <2>4. ~ Undisturbed' BY <2>1 DEF Control, Supplied, Undisturbed
  <2>5. Supplied' BY <2>1, <2>4 DEF Supplied
  <2> QED BY <2>2, <2>3, <2>5 DEF Control
<1> QED BY <1>1, <1>2, <1>3

LEMMA ClientKeepsControl ==
  ASSUME Control, Client \/ UNCHANGED vars
  PROVE  Control'
<1>1. UNCHANGED <<kind, r2, expired, post, reported, step, pos, todo, kept, result>>
  BY DEF Client, Ask, GetOutput, ReadStatus, Probe, Answer, elsewhere, handler,
         workflow, vars
<1>2. Reads(step)' = Reads(step) BY <1>1 DEF Reads, Source
<1> QED
  BY <1>1, <1>2
     DEF Control, Started, Route, Stored, Removed, UploadsAreDeleted, Supplied,
         Undisturbed

LEMMA ExpiryKeepsControl ==
  ASSUME Control, NEW o \in Objects, Expire(o)
  PROVE  Control'
<1>1. /\ UNCHANGED <<kind, post, reported, step, pos, todo, kept, result>>
      /\ r2' = r2 \ {o} /\ expired' = expired \union {o}
  BY DEF Expire, handler, workflow
<1>2. ~ Undisturbed' BY <1>1 DEF Undisturbed
<1> QED
  BY <1>1, <1>2
     DEF Control, Started, Route, Stored, Removed, UploadsAreDeleted, Supplied

LEMMA InvNext == ASSUME Inv, [Next]_vars PROVE Inv'
<1>1. TypeOK' BY TypeOKNext DEF Inv
<1>2. Control'
  BY HandlerKeepsControl, WorkKeepsControl, ClientKeepsControl,
     ExpiryKeepsControl DEF Inv, Next
<1> QED BY <1>1, <1>2 DEF Inv

THEOREM Invariance == Spec => []Inv
<1>1. Init => Inv BY TypeOKInit, ControlInit DEF Inv
<1> QED BY <1>1, InvNext, PTL DEF Spec

-----------------------------------------------------------------------------
(* The theorems.                                                           *)

\* A job whose status is complete has its XTC file in R2, or the lifecycle rule
\* removed it: neither a retry, nor a lost result, nor the delete step does.
THEOREM CompletionImpliesOutput == Spec => []CompletedHasOutput
<1>1. Inv => CompletedHasOutput BY DEF Inv, Control, Stored, CompletedHasOutput
<1> QED BY <1>1, Invariance, PTL

\* A step finds its input missing only if the lifecycle removed something, or
\* the client was told that the job was not created.
THEOREM NothingStarves == Spec => []MissingMeansExpired
<1>1. Inv => MissingMeansExpired
  BY DEF Inv, Control, Supplied, Undisturbed, MissingMeansExpired
<1> QED BY <1>1, Invariance, PTL

\* When a job is over, its upload is deleted, or the delete step tried to.
THEOREM NoUploadIsForgotten == Spec => []UploadsAreDeleted
<1>1. Inv => UploadsAreDeleted BY DEF Inv, Control, Removed
<1> QED BY <1>1, Invariance, PTL

-----------------------------------------------------------------------------
(* What the client is told.                                                *)

\* Before the delete step, and before the lifecycle takes anything.
Early == expired = {} /\ step \notin {"cleanup"} \union Over

\* The instance moves in one direction, and a job that was created only adds
\* objects until the delete step.
Onwards ==
  /\ step \notin {"none", "queued"} => step' \notin {"none", "queued"}
  /\ step # "none" => step' # "none"
  /\ step \in Over => step' = step
  /\ step \in {"cleanup"} \union Over => step' \in {"cleanup"} \union Over
  /\ expired \subseteq expired'
  /\ kind' = kind
  /\ post = "done" => post' = "done" /\ reported' = reported
  /\ Early' /\ post = "done" => r2 \subseteq r2'

\* An attempt that ends moves on, to a step of the job or to its end.
LEMMA AttemptMovesOn ==
  ASSUME step \in Steps, AttemptFails \/ \E why \in {"missing", "failed"} : Throw(why)
  PROVE  /\ step' \in Steps \union Over
         /\ step = "cleanup" => step' \in {"cleanup"} \union Over
<1> QED
  BY DEF AttemptFails, Throw, Enter, ThrowTarget, Steps, Over

LEMMA WorkGoesOn ==
  ASSUME Inv, Work
  PROVE  Onwards /\ UNCHANGED <<expired, reported, request>>
<1> DEFINE Moves ==
             /\ step \in Steps \union {"queued"}
             /\ step' \in Steps \union Over
             /\ step = "cleanup" => step' \in {"cleanup"} \union Over
             /\ UNCHANGED <<kind, expired, handler, request>>
             /\ Early' => r2 \subseteq r2'
<1>1. Moves => Onwards /\ UNCHANGED <<expired, reported, request>>
  <2> SUFFICES ASSUME Moves
               PROVE  Onwards /\ UNCHANGED <<expired, reported, request>>
    OBVIOUS
  <2>1. /\ UNCHANGED <<kind, expired, request>>
        /\ UNCHANGED post /\ UNCHANGED reported
    BY DEF handler
  <2>2. /\ step \notin {"none", "queued"} => step' \notin {"none", "queued"}
        /\ step # "none" => step' # "none"
        /\ step \notin Over
        /\ step \in {"cleanup"} \union Over => step' \in {"cleanup"} \union Over
    BY DEF Steps, Over
  <2> QED BY <2>1, <2>2 DEF Onwards
<1>2. ASSUME Begin PROVE Moves
  BY <1>2 DEF Begin, Succeeds, Enter, FirstStep, others, Inv, TypeOK, Kinds, Steps
<1>3. ASSUME Extract PROVE Moves
  BY <1>3, SMTT(60) DEF Extract, FailsEarly, Succeeds, Enter, others, Steps,
     AttemptFails, Throw, ThrowTarget, Over
<1>4. ASSUME Prepare PROVE Moves
  BY <1>4, SMTT(60) DEF Prepare, FailsEarly, Stores, Succeeds, Enter, others, Steps,
     AttemptFails, Throw, ThrowTarget, Over
<1>5. ASSUME Render PROVE Moves
  BY <1>5, SMTT(60) DEF Render, FailsEarly, Stores, Succeeds, Enter, others, Steps,
     AttemptFails, Throw, ThrowTarget, Over
<1>6. ASSUME Split PROVE Moves
  BY <1>6, SMTT(60) DEF Split, FailsEarly, Stores, Succeeds, Enter, others, Steps,
     AttemptFails, Throw, ThrowTarget, Over
<1>7. ASSUME Chunk PROVE Moves
  BY <1>7, SMTT(60) DEF Chunk, FailsEarly, Succeeds, Enter, others, Steps,
     AttemptFails, Throw, ThrowTarget, Over
<1>8. ASSUME Merge PROVE Moves
  BY <1>8, SMTT(60) DEF Merge, FailsEarly, Stores, Succeeds, Enter, others, Steps,
     AttemptFails, Throw, ThrowTarget, Over
<1>9. ASSUME Convert PROVE Moves
  BY <1>9, SMTT(60) DEF Convert, FailsEarly, Enter, others, Steps,
     AttemptFails, Throw, ThrowTarget, Over
<1>10. ASSUME NEW o \in Objects, Delete(o) PROVE Moves
  BY <1>10 DEF Delete, Steps, Early
<1>11. ASSUME DeleteStepEnds PROVE Moves
  <2>1. /\ step = "cleanup" /\ step \in Steps
        /\ UNCHANGED <<kind, r2, expired, handler, request>>
    BY <1>11 DEF DeleteStepEnds, Steps
  <2>2. step' \in {"cleanup"} \union Over
    BY <1>11, <2>1, AttemptMovesOn DEF DeleteStepEnds, Over
  <2> QED BY <2>1, <2>2 DEF Steps
<1> QED
  BY <1>1, <1>2, <1>3, <1>4, <1>5, <1>6, <1>7, <1>8, <1>9, <1>10, <1>11 DEF Work

LEMMA AllGoesOn ==
  ASSUME Inv, [Next]_vars
  PROVE  /\ Onwards
         /\ Client \/ (UNCHANGED request /\ (post = "done" => reported' = reported))
<1>1. CASE Save
  BY <1>1 DEF Save, Onwards, workflow, Inv, Control, Started
<1>2. CASE Create
  BY <1>2 DEF Create, Onwards, Inv, Control, Started, Over
<1>3. CASE Undo
  BY <1>3 DEF Undo, DeleteBestEffort, Onwards, workflow
<1>4. CASE Work BY <1>4, WorkGoesOn
<1>5. CASE Client \/ UNCHANGED vars
  BY <1>5
     DEF Client, Ask, GetOutput, ReadStatus, Probe, Answer, elsewhere, handler,
         workflow, vars, Onwards
<1>6. ASSUME NEW o \in Objects, Expire(o)
      PROVE  Onwards /\ UNCHANGED request /\ reported' = reported
  <2>1. expired' # {} BY <1>6 DEF Expire
  <2>2. UNCHANGED <<kind, handler, step, request>> /\ expired \subseteq expired'
    BY <1>6 DEF Expire, workflow
  <2> QED BY <2>1, <2>2 DEF Onwards, Early, handler
<1> QED BY <1>1, <1>2, <1>3, <1>4, <1>5, <1>6 DEF Next

\* "completed" is said of a complete instance.  A download asked for afterwards
\* that goes on to the status has not found the file, so the lifecycle took it.
Told ==
  /\ polled = "completed" => step = "complete"
  /\ polled = "completed" /\ wants = "download" /\ ask \in {"status", "probe"} =>
       Output \in expired
  /\ CompletedCanBeDownloaded

LEMMA ToldNext ==
  ASSUME Inv, Told, [Next]_vars
  PROVE  Told'
<1> USE DEF Told, CompletedCanBeDownloaded
<1>0. /\ step = "complete" => step' = "complete"
      /\ expired \subseteq expired'
  BY AllGoesOn DEF Onwards, Over
<1>1. CASE UNCHANGED request
  BY <1>0, <1>1 DEF request
<1>2. ASSUME NEW w \in {"status", "download"}, Ask(w) PROVE Told'
  BY <1>0, <1>2 DEF Ask
<1>3. CASE GetOutput
  <2>1. step = "complete" => Output \in r2 \union expired
    BY DEF Inv, Control, Stored
  <2>2. expired' = expired /\ step' = step
    BY <1>3 DEF GetOutput, elsewhere, workflow
  <2> QED BY <1>3, <2>1, <2>2 DEF GetOutput
<1>4. CASE ReadStatus
  <2>1. expired' = expired /\ step' = step
    BY <1>4 DEF ReadStatus, elsewhere, workflow
  <2>2. CASE ask' = "idle" /\ UNCHANGED polled
    BY <1>4, <2>1, <2>2 DEF ReadStatus
  <2>3. CASE ask' = "probe" /\ UNCHANGED <<reply, polled>>
    BY <1>4, <2>1, <2>3 DEF ReadStatus
  <2>4. ASSUME NEW phase \in {"queued", "completed", "failed"}, Answers(phase),
               phase = "completed" => step = "complete"
        PROVE  Told'
    BY <1>4, <2>1, <2>4 DEF ReadStatus, Answers
  <2>5. CASE Answers(CASE step = "queued"   -> "queued"
                       [] step = "complete" -> "completed"
                       [] OTHER             -> "failed")
    BY <2>4, <2>5
  <2> QED BY <1>4, <2>2, <2>3, <2>5 DEF ReadStatus
<1>5. ASSUME NEW o \in Probes, Probe(o) PROVE Told'
  BY <1>0, <1>5 DEF Probe
<1>6. CASE Answer
  <2>1. expired' = expired /\ step' = step
    BY <1>6 DEF Answer, elsewhere, workflow
  <2>2. Phase \in {"preparing", "converting", "rendering"} BY DEF Phase
  <2> QED BY <1>6, <2>1, <2>2 DEF Answer, Answers
<1> QED BY <1>1, <1>2, <1>3, <1>4, <1>5, <1>6, AllGoesOn DEF Client

\* A client that was told "completed" gets the file, until the lifecycle rule
\* removes it; it is never told to wait, nor that the job failed.
THEOREM CompletedJobsHandOutTheFile == Spec => []CompletedCanBeDownloaded
<1>1. Init => Told BY DEF Init, Told, CompletedCanBeDownloaded
<1>2. Told => CompletedCanBeDownloaded BY DEF Told
<1> QED BY <1>1, <1>2, ToldNext, Invariance, PTL DEF Spec

-----------------------------------------------------------------------------
(* Statuses do not go back.                                                *)

\* The object is in R2, and a request under way that looked for it found it.
Lasting(o) == o \in r2 /\ (o \in probed => o \in found)

Requests ==
  /\ reported = "accepted" => post = "done" /\ step # "none"
  /\ ask # "idle" \/ polled # "none" => reported = "accepted"
  /\ ask # "probe" => probed = {}
  /\ ask = "probe" \/ polled \notin {"none", "queued"} =>
       step \notin {"none", "queued"}
  /\ polled \in {"completed", "failed"} => step \in Over

\* The objects that a status was derived from stay there while Early.
Witnessed ==
  Early =>
    /\ found \subseteq r2
    /\ reported = "accepted" /\ kind \in Uploads => Lasting(Input)
    /\ kind = "document" /\ polled \in {"rendering", "converting"} =>
         Lasting(Article)
    /\ kind # "pdf" /\ polled = "converting" => Lasting(Pdf)

PollInv == Requests /\ Witnessed

LEMMA PollInit == Init => PollInv
BY DEF Init, PollInv, Requests, Witnessed, Lasting, Early

LEMMA PollOther ==
  ASSUME Inv, PollInv, [Next]_vars, ~ Client
  PROVE  PollInv'
<1>1. Onwards /\ UNCHANGED request /\ (post = "done" => reported' = reported)
  BY AllGoesOn
<1>2. UNCHANGED <<ask, probed, found, polled>> BY <1>1 DEF request
<1>3. CASE post = "done"
  <2>1. Requests'
    BY <1>1, <1>2, <1>3 DEF PollInv, Requests, Onwards
  <2>2. Early' => Early /\ r2 \subseteq r2' /\ kind' = kind
    BY <1>1, <1>3 DEF Onwards, Early
  <2>3. Witnessed'
    BY <1>1, <1>2, <1>3, <2>2 DEF PollInv, Witnessed, Lasting
  <2> QED BY <2>1, <2>3 DEF PollInv
<1>4. CASE post # "done"
  <2>1. reported # "accepted" /\ ask = "idle" /\ polled = "none" /\ probed = {}
    BY <1>4 DEF PollInv, Requests
  <2>2. found = {} /\ found' = {} /\ probed' = {} BY <1>2, <2>1 DEF Inv, TypeOK
  <2>3. reported' = "accepted" =>
          /\ post' = "done" /\ step' = "queued" /\ r2' = r2
          /\ kind' = kind /\ expired' = expired
          /\ kind \in Uploads => post = "saved"
    <3>1. CASE Create BY <2>1, <3>1 DEF Create
    <3>2. CASE Save BY <2>1, <3>2 DEF Save
    <3>3. CASE Undo BY <2>1, <3>3 DEF Undo
    <3>4. CASE Work BY <2>1, <3>4, WorkGoesOn
    <3>5. ASSUME NEW o \in Objects, Expire(o) PROVE reported' # "accepted"
      BY <2>1, <3>5 DEF Expire, handler
    <3>6. CASE UNCHANGED vars BY <2>1, <3>6 DEF vars, handler
    <3> QED BY <3>1, <3>2, <3>3, <3>4, <3>5, <3>6 DEF Next
  <2>4. Requests' BY <1>2, <2>1, <2>2, <2>3 DEF Requests
  <2>5. reported' = "accepted" /\ kind' \in Uploads /\ Early' => Input \in r2'
    BY <2>1, <2>3 DEF Early, Inv, Control, Supplied, Undisturbed, Started
  <2>6. Witnessed' BY <1>2, <2>1, <2>2, <2>5 DEF Witnessed, Lasting
  <2> QED BY <2>4, <2>6 DEF PollInv
<1> QED BY <1>3, <1>4

\* The phase that a finished request derives is no earlier than the last one.
LEMMA PhaseGoesOn ==
  ASSUME Inv, PollInv, Early, ask = "probe", probed = Probes
  PROVE  /\ PhaseRank[polled] <= PhaseRank[Phase]
         /\ kind = "document" /\ Phase \in {"rendering", "converting"} =>
              Article \in found
         /\ kind # "pdf" /\ Phase = "converting" => Pdf \in found
<1>1. /\ kind \in Uploads => Input \in found
      /\ kind = "document" /\ polled \in {"rendering", "converting"} =>
           Article \in found
      /\ kind # "pdf" /\ polled = "converting" => Pdf \in found
      /\ kind # "document" => Input \notin found \/ kind = "pdf"
  BY DEF PollInv, Requests, Witnessed, Lasting, Probes, Uploads, Inv, TypeOK, Kinds,
         Input, Pdf, Article
<1>2. polled \notin {"completed", "failed"}
  BY DEF PollInv, Requests, Early
<1>3. polled \in {"none", "queued", "preparing", "rendering", "converting"}
  BY <1>2 DEF Inv, TypeOK, Phases
<1>4. Phase \in {"preparing", "rendering", "converting"} BY DEF Phase
<1>5. /\ PhaseRank["none"] = 0 /\ PhaseRank["queued"] = 1
      /\ PhaseRank["preparing"] = 2 /\ PhaseRank["rendering"] = 3
      /\ PhaseRank["converting"] = 4
  BY DEF PhaseRank, Phases
<1>6. /\ polled = "rendering" => Phase \in {"rendering", "converting"}
      /\ polled = "converting" => Phase = "converting"
      /\ kind = "document" /\ Phase \in {"rendering", "converting"} =>
           Article \in found
      /\ kind # "pdf" /\ Phase = "converting" => Pdf \in found
  BY <1>1 DEF Phase, Uploads
<1> QED BY <1>3, <1>4, <1>5, <1>6

LEMMA PollClient ==
  ASSUME Inv, PollInv, Client
  PROVE  /\ PollInv'
         /\ Early /\ polled' # polled => PhaseRank[polled] <= PhaseRank[polled']
<1>1. /\ UNCHANGED <<kind, r2, expired, post, reported, step>>
      /\ Early' = Early
      /\ reported = "accepted"
  BY DEF Client, Ask, GetOutput, ReadStatus, Probe, Answer, elsewhere, handler,
         workflow, Early, PollInv, Requests
<1> USE DEF PollInv, Requests, Witnessed, Lasting
<1>2. ASSUME NEW w \in {"status", "download"}, Ask(w)
      PROVE  PollInv' /\ polled' = polled
  BY <1>1, <1>2 DEF Ask
<1>3. ASSUME GetOutput PROVE PollInv' /\ polled' = polled
  BY <1>1, <1>3 DEF GetOutput
<1>4. CASE ReadStatus
  <2>1. CASE polled' = polled
    <3>1. ask' = "probe" => step \notin {"none", "queued"}
      BY <1>4 DEF ReadStatus, Answers, Running, Steps
    <3>2. UNCHANGED <<probed, found>> /\ probed = {}
      BY <1>4 DEF ReadStatus
    <3>3. PollInv' BY <1>1, <2>1, <3>1, <3>2
    <3> QED BY <2>1, <3>3
  <2>2. CASE polled' # polled
    <3>1. /\ UNCHANGED <<probed, found>> /\ probed = {} /\ ask' = "idle"
          /\ polled' = CASE step = "queued"   -> "queued"
                          [] step = "complete" -> "completed"
                          [] OTHER             -> "failed"
          /\ ~ Running
      BY <1>4, <2>2 DEF ReadStatus, Answers
    <3>2. step \in {"queued"} \union Over
      BY <1>1, <3>1 DEF Inv, TypeOK, Over, Running
    <3>3. CASE step = "queued"
      <4>1. polled' = "queued" /\ polled = "none"
        BY <2>2, <3>1, <3>3
      <4>2. PhaseRank["none"] = 0 /\ PhaseRank["queued"] = 1
        BY DEF PhaseRank, Phases
      <4>3. PollInv' BY <1>1, <3>1, <3>3, <4>1
      <4> QED BY <4>1, <4>2, <4>3
    <3>4. CASE step \in Over
      <4>1. polled' \in {"completed", "failed"} BY <3>1, <3>4 DEF Over
      <4>2. ~ Early BY <3>4 DEF Early
      <4>3. step \notin {"none", "queued"} BY <3>4 DEF Over
      <4>4. Requests' BY <1>1, <3>1, <3>4, <4>1, <4>3
      <4>5. Witnessed' BY <1>1, <4>2
      <4> QED BY <4>2, <4>4, <4>5
    <3> QED BY <3>2, <3>3, <3>4
  <2> QED BY <2>1, <2>2
<1>5. ASSUME NEW o \in Probes, Probe(o) PROVE PollInv' /\ polled' = polled
  BY <1>1, <1>5 DEF Probe
<1>6. CASE Answer
  <2>1. /\ ask = "probe" /\ probed = Probes /\ ask' = "idle"
        /\ probed' = {} /\ found' = {}
        /\ polled' = polled \/ polled' = Phase
    BY <1>6 DEF Answer, Answers
  <2>2. Phase \in {"preparing", "rendering", "converting"} BY DEF Phase
  <2>3. Requests' BY <1>1, <2>1, <2>2
  <2>4. Early => found \subseteq r2 OBVIOUS
  <2>5. Witnessed' BY <1>1, <2>1, <2>4, PhaseGoesOn
  <2> QED BY <2>1, <2>3, <2>5, PhaseGoesOn
<1> QED BY <1>2, <1>3, <1>4, <1>5, <1>6 DEF Client

\* Before the delete step and the lifecycle rule take objects away, the statuses
\* one client reads never go back, although each is put together from several
\* reads, and no two of them are made at the same time.
THEOREM StatusesNeverGoBack == Spec => PollsNeverGoBack
<1>1. Inv /\ PollInv /\ [Next]_vars => PollInv'
  BY PollOther, PollClient
<1>2. ASSUME Inv, PollInv, [Next]_vars
      PROVE  [ \/ PhaseRank[polled] <= PhaseRank[polled']
               \/ expired # {} \/ step \in {"cleanup"} \union Over ]_polled
  <2>1. CASE Client BY <1>2, <2>1, PollClient DEF Early
  <2>2. CASE ~ Client
    <3>1. UNCHANGED request BY <1>2, <2>2, AllGoesOn
    <3> QED BY <3>1 DEF request
  <2> QED BY <2>1, <2>2
<1> QED
  BY <1>1, <1>2, PollInit, Invariance, PTL DEF Spec, PollsNeverGoBack

-----------------------------------------------------------------------------
(* The contract with the clients.                                          *)

Kept == UNCHANGED <<JobState, LastSaid>>

\* A job that is not over goes on as it is or ends; one that is over stays so.
LEMMA ApiJob ==
  ASSUME Inv, PollInv, Onwards, UNCHANGED <<reported, request>>
  PROVE  Kept \/ Api!Move
<1>1. UNCHANGED LastSaid BY DEF LastSaid, request
<1>2. CASE reported # "accepted" BY <1>1, <1>2 DEF Kept, JobState
<1>3. CASE reported = "accepted"
  <2>1. step # "none" BY <1>3 DEF PollInv, Requests
  <2>2. CASE step \in Over
    BY <1>1, <1>3, <2>2 DEF Onwards, Kept, JobState
  <2>3. CASE step \notin Over
    <3>1. JobState = "queued" BY <1>3, <2>3 DEF JobState, Over
    <3>2. JobState' \in {"queued", "completed", "failed"} BY <1>3 DEF JobState
    <3>3. Api!Becomes("queued") = {"completed", "failed"}
      BY DEF Api!Becomes, Api!Terminal
    <3> QED BY <1>1, <3>1, <3>2, <3>3 DEF Kept, Api!Move
  <2> QED BY <2>2, <2>3
<1> QED BY <1>2, <1>3

\* The handler makes the job known, or says nothing of it.
LEMMA ApiHandler ==
  ASSUME Inv, PollInv, Save \/ Create \/ Undo
  PROVE  Kept \/ Api!Accept
<1>1. UNCHANGED LastSaid
  <2>1. UNCHANGED request BY DEF Save, Create, Undo
  <2> QED BY <2>1 DEF LastSaid, request
<1>2. CASE Save
  <2>1. reported = "none" /\ reported' \in {"none", "refused"}
    BY <1>2 DEF Save, Inv, Control, Started
  <2>2. JobState = "none" /\ JobState' = "none" BY <2>1 DEF JobState
  <2> QED BY <1>1, <2>2 DEF Kept
<1>3. CASE Undo BY <1>1, <1>3 DEF Undo, workflow, Kept, JobState
<1>4. CASE Create
  <2>1. reported = "none" BY <1>4 DEF Create, Inv, Control, Started
  <2>2. CASE reported' = "refused"
    <3>1. JobState = "none" /\ JobState' = "none" BY <2>1, <2>2 DEF JobState
    <3> QED BY <1>1, <3>1 DEF Kept
  <2>3. CASE reported' = "accepted" /\ step' = "queued"
    <3>1. JobState = "none" /\ JobState' = "queued" BY <2>1, <2>3 DEF JobState
    <3> QED BY <1>1, <3>1 DEF Api!Accept
  <2> QED BY <1>4, <2>2, <2>3 DEF Create
<1> QED BY <1>2, <1>3, <1>4

\* A request is answered when it reads the instance status; what it reads
\* afterwards only tells the phases of a running job apart.
LEMMA ApiClient ==
  ASSUME Inv, PollInv, Client
  PROVE  Kept \/ Api!Say
<1>1. UNCHANGED JobState
  BY DEF Client, Ask, GetOutput, ReadStatus, Probe, Answer, elsewhere, handler,
         workflow, JobState
<1>2. ASSUME NEW w \in {"status", "download"}, Ask(w) PROVE UNCHANGED LastSaid
  BY <1>2 DEF Ask, LastSaid
<1>3. CASE GetOutput
  <2>1. UNCHANGED LastSaid BY <1>3 DEF GetOutput, LastSaid
  <2> QED BY <1>1, <2>1 DEF Kept
<1>4. CASE ReadStatus
  <2>1. ask = "status" /\ reported = "accepted" /\ step # "none"
    BY <1>4 DEF ReadStatus, PollInv, Requests
  <2>2. CASE ask' = "probe" /\ wants = "status"
    <3>1. Running BY <1>4, <2>2 DEF ReadStatus, Answers
    <3>2. JobState = "queued" BY <2>1, <3>1 DEF JobState, Running, Steps
    <3>3. wants' = "status" BY <1>4, <2>2 DEF ReadStatus
    <3>4. LastSaid' = "queued" BY <2>2, <3>3 DEF LastSaid
    <3>5. "queued" \in Api!Replies("queued") BY DEF Api!Replies, Api!Answer
    <3> QED BY <1>1, <3>2, <3>4, <3>5 DEF Api!Say
  <2>3. CASE ~ (ask' = "probe" /\ wants = "status") /\ polled' = polled
    <3>1. UNCHANGED LastSaid BY <1>4, <2>1, <2>3 DEF ReadStatus, LastSaid
    <3> QED BY <1>1, <3>1 DEF Kept
  <2>4. CASE polled' # polled
    <3>1. /\ ask' = "idle" /\ ~ Running
          /\ polled' = CASE step = "queued"   -> "queued"
                          [] step = "complete" -> "completed"
                          [] OTHER             -> "failed"
      BY <1>4, <2>4 DEF ReadStatus, Answers
    <3>2. step \in {"queued", "complete", "errored"}
      BY <2>1, <3>1 DEF Inv, TypeOK, Over, Running
    <3>3. polled' = JobState /\ JobState \in {"queued", "completed", "failed"}
      BY <2>1, <3>1, <3>2 DEF JobState
    <3>4. LastSaid' = JobState
      BY <3>1, <3>3 DEF LastSaid, Phases
    <3>5. JobState \in Api!Replies(JobState)
      BY <3>3 DEF Api!Replies, Api!Answer
    <3> QED BY <1>1, <3>4, <3>5 DEF Api!Say
  <2> QED BY <2>2, <2>3, <2>4
<1>5. ASSUME NEW o \in Probes, Probe(o) PROVE UNCHANGED LastSaid
  BY <1>5 DEF Probe, LastSaid
<1>6. CASE Answer
  <2>1. /\ ask = "probe" /\ ask' = "idle"
        /\ IF wants = "status" THEN polled' = Phase ELSE UNCHANGED polled
    BY <1>6 DEF Answer, Answers
  <2>2. Phase \in Phases \ {"completed", "failed"} BY DEF Phase, Phases
  <2>3. UNCHANGED LastSaid BY <2>1, <2>2 DEF LastSaid
  <2> QED BY <1>1, <2>3 DEF Kept
<1> QED BY <1>1, <1>2, <1>3, <1>4, <1>5, <1>6 DEF Client, Kept

\* What JobPolling's pages rely on, the jobs keep: an accepted job ends once and
\* in one way, and no answer to GET /jobs/:id, put together from several reads
\* while the Workflow goes on, tells anything the job was not at the moment its
\* instance status was read (ImplementsApi without its liveness).
THEOREM JobsKeepTheContract == Spec => Api!Spec
<1>1. Init => Api!Init
  BY DEF Init, Api!Init, JobState, LastSaid, Phases
<1>2. Inv /\ PollInv /\ [Next]_vars => PollInv'
  BY PollOther, PollClient
<1>3. ASSUME Inv, PollInv, [Next]_vars PROVE [Api!Next]_(Api!vars)
  <2>1. CASE Save \/ Create \/ Undo BY <1>3, <2>1, ApiHandler DEF Kept, Api!Next, Api!vars
  <2>2. CASE Work
    <3>1. Onwards /\ UNCHANGED <<reported, request>> BY <1>3, <2>2, WorkGoesOn
    <3> QED BY <1>3, <3>1, ApiJob DEF Kept, Api!Next, Api!vars
  <2>3. CASE Client BY <1>3, <2>3, ApiClient DEF Kept, Api!Next, Api!vars
  <2>4. CASE (\E o \in Objects : Expire(o)) \/ UNCHANGED vars
    <3>1. UNCHANGED <<JobState, LastSaid>>
      BY <2>4 DEF Expire, vars, handler, workflow, request, JobState, LastSaid
    <3> QED BY <3>1 DEF Api!vars
  <2> QED BY <1>3, <2>1, <2>2, <2>3, <2>4 DEF Next
<1> QED
  BY <1>1, <1>2, <1>3, PollInit, Invariance, PTL DEF Spec, Api!Spec

-----------------------------------------------------------------------------
(* The way to the end.                                                     *)

\* The steps still ahead of a job at most.
StagesLeft ==
  [l \in {"none", "queued"} \union Steps \union Over |->
     CASE l = "none"    -> 10
       [] l = "queued"  -> 9
       [] l = "extract" -> 8
       [] l = "prepare" -> 7
       [] l = "render"  -> 6
       [] l = "split"   -> 5
       [] l = "chunk"   -> 4
       [] l = "merge"   -> 3
       [] l = "convert" -> 2
       [] l = "cleanup" -> 1
       [] OTHER         -> 0]

\* How far a job is from its end: in steps, pieces, attempts and deletions.
AttemptsLeft == IF Running THEN Retries[step] - tries ELSE 0

Rank == Measure(StagesLeft[step], Chunks - pos, AttemptsLeft, Cardinality(todo))

Lowered == <<Rank', Rank>> \in Less4

LEMMA Stages ==
  /\ StagesLeft["none"] = 10 /\ StagesLeft["queued"] = 9 /\ StagesLeft["extract"] = 8
  /\ StagesLeft["prepare"] = 7 /\ StagesLeft["render"] = 6 /\ StagesLeft["split"] = 5
  /\ StagesLeft["chunk"] = 4 /\ StagesLeft["merge"] = 3 /\ StagesLeft["convert"] = 2
  /\ StagesLeft["cleanup"] = 1 /\ StagesLeft["complete"] = 0 /\ StagesLeft["errored"] = 0
BY DEF StagesLeft, Steps, Over

\* There is no infinite descent.
LEMMA RanksAreWellFounded == NoInfiniteDescent
<1>1. IsWellFoundedOn(Less, Nat)
  BY NatLessThanWellFounded DEF Less
<1>2. IsWellFoundedOn(Less2, Pairs)
  BY <1>1, WFLexPairOrdering DEF Less2, Pairs
<1>3. IsWellFoundedOn(Less3, Triples)
  BY <1>1, <1>2, WFLexPairOrdering DEF Less3, Triples
<1> QED
  BY <1>1, <1>3, WFLexPairOrdering DEF NoInfiniteDescent, Less4, Rank4

\* The first component that differs decides.
LEMMA FirstDecides ==
  ASSUME NEW a \in Nat, NEW b \in Nat, NEW c \in Nat, NEW d \in Nat,
         NEW e \in Nat, NEW f \in Nat, NEW g \in Nat, NEW h \in Nat,
         \/ e < a
         \/ e = a /\ f < b
         \/ e = a /\ f = b /\ g < c
         \/ e = a /\ f = b /\ g = c /\ h < d
  PROVE  <<Measure(e, f, g, h), Measure(a, b, c, d)>> \in Less4
<1>1. \A m, n \in Nat : m < n => <<m, n>> \in Less
  BY DEF Less, OpToRel
<1>2. g < c \/ (g = c /\ h < d) => <<<<g, h>>, <<c, d>>>> \in Less2
  BY <1>1 DEF Less2, LexPairOrdering
<1>3. f < b \/ (f = b /\ <<<<g, h>>, <<c, d>>>> \in Less2)
        => <<<<f, <<g, h>>>>, <<b, <<c, d>>>>>> \in Less3
  BY <1>1 DEF Less3, LexPairOrdering, Pairs
<1>4. e < a \/ (e = a /\ <<<<f, <<g, h>>>>, <<b, <<c, d>>>>>> \in Less3)
        => <<Measure(e, f, g, h), Measure(a, b, c, d)>> \in Less4
  BY <1>1 DEF Less4, LexPairOrdering, Triples, Pairs, Measure
<1> QED
  BY <1>2, <1>3, <1>4

LEMMA ObjectsFinite ==
  ASSUME NEW S \in SUBSET Objects
  PROVE  IsFiniteSet(S) /\ Cardinality(S) \in Nat
<1>1. IsFiniteSet(1 .. Chunks) BY FS_Interval, ChunksAssumption
<1>2. IsFiniteSet(Pieces)
  <2> DEFINE f == [i \in 1 .. Chunks |-> Html(i)]
  <2>1. f \in Surjection(1 .. Chunks, Pieces) BY DEF Pieces, Surjection
  <2> QED BY <1>1, <2>1, FS_Surjection
<1>3. IsFiniteSet(Parts)
  <2> DEFINE f == [i \in 1 .. Chunks |-> Part(i)]
  <2>1. f \in Surjection(1 .. Chunks, Parts) BY DEF Parts, Surjection
  <2> QED BY <1>1, <2>1, FS_Surjection
<1>4. IsFiniteSet({Manifest}) /\ IsFiniteSet({Article, Pdf}) /\ IsFiniteSet({Input, Output})
  <2>1. /\ IsFiniteSet({Manifest}) /\ IsFiniteSet({Article}) /\ IsFiniteSet({Pdf})
        /\ IsFiniteSet({Input}) /\ IsFiniteSet({Output})
    BY FS_Singleton
  <2>2. IsFiniteSet({Article} \union {Pdf}) /\ IsFiniteSet({Input} \union {Output})
    BY <2>1, FS_Union
  <2>3. /\ {Article, Pdf} = {Article} \union {Pdf}
        /\ {Input, Output} = {Input} \union {Output}
    OBVIOUS
  <2> QED BY <2>1, <2>2, <2>3
<1>5. IsFiniteSet(Fallback) BY <1>2, <1>3, <1>4, FS_Union DEF Fallback
<1>6. IsFiniteSet(Intermediate) BY <1>4, <1>5, FS_Union DEF Intermediate
<1>7. IsFiniteSet(Objects) BY <1>4, <1>6, FS_Union DEF Objects
<1> QED BY <1>7, FS_Subset, FS_CardinalityType

\* A step of the Workflow goes on to a later step, renders a piece, has failed
\* once more, or has deleted an object.
Advances ==
  \/ step' # step /\ StagesLeft[step'] < StagesLeft[step]
  \/ step' = step /\ step \in Steps /\ pos' = pos + 1
  \/ step' = step /\ step \in Steps /\ pos' = pos /\ tries' = tries + 1
  \/ /\ step' = step /\ step \in Steps /\ pos' = pos /\ tries' = tries
     /\ \E o \in todo : todo' = todo \ {o}

LEMMA AdvanceLowers ==
  ASSUME TypeOK, TypeOK', Advances
  PROVE  Lowered
<1>1. /\ StagesLeft[step] \in Nat /\ StagesLeft[step'] \in Nat
  BY Stages DEF TypeOK, Steps, Over
<1>2. /\ Chunks - pos \in Nat /\ Chunks - pos' \in Nat
  <2>1. \A n \in 0 .. Chunks : Chunks - n \in Nat BY ChunksAssumption
  <2>2. pos \in 0 .. Chunks /\ pos' \in 0 .. Chunks BY DEF TypeOK
  <2> QED BY <2>1, <2>2
<1>3. /\ AttemptsLeft \in Nat /\ AttemptsLeft' \in Nat
  BY RetriesAssumption DEF TypeOK, AttemptsLeft, Running
<1>4. /\ IsFiniteSet(todo) /\ Cardinality(todo) \in Nat
      /\ IsFiniteSet(todo') /\ Cardinality(todo') \in Nat
  BY ObjectsFinite DEF TypeOK
<1>5. \/ StagesLeft[step'] < StagesLeft[step]
      \/ step' = step /\ Chunks - pos' < Chunks - pos
      \/ step' = step /\ pos' = pos /\ AttemptsLeft' < AttemptsLeft
      \/ /\ step' = step /\ pos' = pos /\ AttemptsLeft' = AttemptsLeft
         /\ Cardinality(todo') < Cardinality(todo)
  <2>1. CASE step' # step /\ StagesLeft[step'] < StagesLeft[step]
    BY <2>1
  <2>2. CASE step' = step /\ step \in Steps /\ pos' = pos + 1
    BY <2>2, ChunksAssumption DEF TypeOK
  <2>3. CASE step' = step /\ step \in Steps /\ pos' = pos /\ tries' = tries + 1
    BY <2>3, RetriesAssumption DEF TypeOK, AttemptsLeft, Running
  <2>4. CASE /\ step' = step /\ step \in Steps /\ pos' = pos /\ tries' = tries
             /\ \E o \in todo : todo' = todo \ {o}
    <3>1. AttemptsLeft' = AttemptsLeft BY <2>4 DEF AttemptsLeft, Running
    <3>2. Cardinality(todo') = Cardinality(todo) - 1
      BY <1>4, <2>4, FS_RemoveElement
    <3> QED BY <1>4, <2>4, <3>1, <3>2
  <2> QED BY <2>1, <2>2, <2>3, <2>4 DEF Advances
<1>6. DEFINE a == StagesLeft[step]      e == StagesLeft[step']
             b == Chunks - pos          f == Chunks - pos'
             c == AttemptsLeft          g == AttemptsLeft'
             d == Cardinality(todo)     h == Cardinality(todo')
<1>7. \/ e < a
      \/ e = a /\ f < b
      \/ e = a /\ f = b /\ g < c
      \/ e = a /\ f = b /\ g = c /\ h < d
  BY <1>5
<1>8. <<Measure(e, f, g, h), Measure(a, b, c, d)>> \in Less4
  <2> HIDE DEF a, b, c, d, e, f, g, h
  <2>1. a \in Nat /\ b \in Nat /\ c \in Nat /\ d \in Nat BY <1>1, <1>2, <1>3, <1>4 DEF a, b, c, d
  <2>2. e \in Nat /\ f \in Nat /\ g \in Nat /\ h \in Nat BY <1>1, <1>2, <1>3, <1>4 DEF e, f, g, h
  <2> QED BY <1>7, <2>1, <2>2, FirstDecides
<1> QED BY <1>8 DEF Lowered, Rank

\* An attempt that ends is one more, or the step is left for a later one.
LEMMA EndAdvances ==
  ASSUME TypeOK, step \in Steps, pos' = pos,
         AttemptFails \/ \E why \in {"missing", "failed"} : Throw(why)
  PROVE  Advances
<1>1. CASE tries < Retries[step] /\ tries' = tries + 1 /\ UNCHANGED step
  BY <1>1 DEF Advances
<1>2. CASE step' = ThrowTarget
  <2>1. StagesLeft[step'] < StagesLeft[step] /\ step' # step
    BY <1>2, Stages DEF ThrowTarget, Steps
  <2> QED BY <2>1 DEF Advances
<1> QED BY <1>1, <1>2 DEF AttemptFails, Throw, Enter

LEMMA WorkAdvances ==
  ASSUME Inv, Work
  PROVE  Advances
<1> USE DEF Inv
<1>1. CASE Begin
  <2>1. step = "queued" /\ step' \in {"render", "extract", "prepare", "convert"}
    BY <1>1 DEF Begin, Succeeds, Enter, FirstStep, TypeOK, Kinds
  <2> QED BY <2>1, Stages DEF Advances
<1>2. CASE Extract
  <2>1. step = "extract" /\ step \in Steps /\ pos' = pos
    BY <1>2 DEF Extract, Steps
  <2>2. CASE AttemptFails \/ \E why \in {"missing", "failed"} : Throw(why)
    BY <2>1, <2>2, EndAdvances
  <2>3. CASE step' = "render" BY <2>1, <2>3, Stages DEF Advances
  <2> QED BY <1>2, <2>2, <2>3 DEF Extract, FailsEarly, Succeeds, Enter
<1>3. CASE Prepare
  <2>1. step = "prepare" /\ step \in Steps /\ pos' = pos
    BY <1>3 DEF Prepare, Steps
  <2>2. CASE AttemptFails \/ \E why \in {"missing", "failed"} : Throw(why)
    BY <2>1, <2>2, EndAdvances
  <2>3. CASE step' = "render" BY <2>1, <2>3, Stages DEF Advances
  <2> QED BY <1>3, <2>2, <2>3 DEF Prepare, FailsEarly, Stores, Succeeds, Enter
<1>4. CASE Render
  <2>1. step = "render" /\ step \in Steps /\ pos' = pos
    BY <1>4 DEF Render, Steps
  <2>2. CASE AttemptFails \/ \E why \in {"missing", "failed"} : Throw(why)
    BY <2>1, <2>2, EndAdvances
  <2>3. CASE step' \in {"convert", "split"} BY <2>1, <2>3, Stages DEF Advances
  <2> QED BY <1>4, <2>2, <2>3 DEF Render, FailsEarly, Stores, Succeeds, Enter
<1>5. CASE Split
  <2>1. step = "split" /\ step \in Steps /\ pos' = pos
    BY <1>5 DEF Split, Steps
  <2>2. CASE AttemptFails \/ \E why \in {"missing", "failed"} : Throw(why)
    BY <2>1, <2>2, EndAdvances
  <2>3. CASE step' = "chunk" BY <2>1, <2>3, Stages DEF Advances
  <2> QED BY <1>5, <2>2, <2>3 DEF Split, FailsEarly, Stores, Succeeds, Enter
<1>6. CASE Chunk
  <2>1. step = "chunk" /\ step \in Steps
    BY <1>6 DEF Chunk, Steps
  <2>2. CASE pos' = pos /\ (AttemptFails \/ \E why \in {"missing", "failed"} : Throw(why))
    BY <2>1, <2>2, EndAdvances
  <2>3. CASE pos' = pos + 1 /\ step' \in {"chunk", "merge"}
    BY <2>1, <2>3, Stages DEF Advances
  <2> QED BY <1>6, <2>2, <2>3 DEF Chunk, FailsEarly, Succeeds, Enter
<1>7. CASE Merge
  <2>1. step = "merge" /\ step \in Steps /\ pos' = pos
    BY <1>7 DEF Merge, Steps
  <2>2. CASE AttemptFails \/ \E why \in {"missing", "failed"} : Throw(why)
    BY <2>1, <2>2, EndAdvances
  <2>3. CASE step' = "convert" BY <2>1, <2>3, Stages DEF Advances
  <2> QED BY <1>7, <2>2, <2>3 DEF Merge, FailsEarly, Stores, Succeeds, Enter
<1>8. CASE Convert
  <2>1. step = "convert" /\ step \in Steps /\ pos' = pos
    BY <1>8 DEF Convert, Steps
  <2>2. CASE AttemptFails \/ \E why \in {"missing", "failed"} : Throw(why)
    BY <2>1, <2>2, EndAdvances
  <2>3. CASE step' = "cleanup" BY <2>1, <2>3, Stages DEF Advances
  <2> QED BY <1>8, <2>2, <2>3 DEF Convert, FailsEarly, Enter
<1>9. ASSUME NEW o \in Objects, Delete(o) PROVE Advances
  BY <1>9 DEF Delete, Advances, Steps
<1>10. CASE DeleteStepEnds
  <2>1. step = "cleanup" /\ step \in Steps /\ pos' = pos
    BY <1>10 DEF DeleteStepEnds, Steps
  <2>2. CASE AttemptFails BY <2>1, <2>2, EndAdvances
  <2>3. CASE step' \in Over BY <2>1, <2>3, Stages DEF Advances, Over
  <2> QED BY <1>10, <2>2, <2>3 DEF DeleteStepEnds, Over
<1> QED
  BY <1>1, <1>2, <1>3, <1>4, <1>5, <1>6, <1>7, <1>8, <1>9, <1>10 DEF Work

\* A job takes finitely many steps, however often they fail and are repeated:
\* each lowers a measure that nothing raises and that cannot fall for ever.
\* What is left of JobsApi!JobsEnd is that the engine goes on (FairSpec).
THEOREM JobsRunOut ==
  Spec => /\ NoInfiniteDescent
          /\ [][/\ Work => Lowered
                /\ Rank' # Rank => Lowered]_vars
<1>1. ASSUME Inv, Inv', [Next]_vars
      PROVE  /\ Work => Lowered
             /\ Rank' # Rank => Lowered
  <2>1. Work => Lowered BY <1>1, WorkAdvances, AdvanceLowers DEF Inv
  <2>2. CASE Create
    <3>1. CASE step' = "queued"
      <4>1. step = "none" BY <1>1, <2>2 DEF Create, Inv, Control, Started
      <4>2. Advances BY <3>1, <4>1, Stages DEF Advances
      <4> QED BY <1>1, <2>1, <4>2, AdvanceLowers DEF Inv
    <3>2. CASE step' = "none"
      <4>1. step = "none" BY <1>1, <2>2 DEF Create, Inv, Control, Started
      <4>2. Rank' = Rank BY <2>2, <3>2, <4>1 DEF Create, Rank, AttemptsLeft, Running
      <4> QED BY <2>1, <4>2
    <3> QED BY <2>2, <3>1, <3>2 DEF Create
  <2>3. CASE Save \/ Undo \/ Client \/ (\E o \in Objects : Expire(o)) \/ UNCHANGED vars
    <3>1. UNCHANGED <<step, tries, pos, todo>>
      BY <2>3 DEF Save, Undo, Client, Ask, GetOutput, ReadStatus, Probe, Answer,
                  Expire, elsewhere, workflow, vars
    <3>2. Rank' = Rank BY <3>1 DEF Rank, AttemptsLeft, Running
    <3> QED BY <2>1, <3>2
  <2> QED BY <1>1, <2>1, <2>2, <2>3 DEF Next
<1>2. NoInfiniteDescent BY RanksAreWellFounded
<1> QED
  BY <1>1, <1>2, Invariance, PTL DEF Spec
=============================================================================
