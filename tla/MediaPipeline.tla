--------------------------- MODULE MediaPipeline ---------------------------
(***************************************************************************)
(* Media of a history walk: internal/mtproto/media_pipeline.go and         *)
(* media_download.go, with the walks of client.go that drive them.         *)
(*                                                                         *)
(* One goroutine, the driver, reads pages of history, plans the downloads  *)
(* of their voice and video attachments, and runs them as a batch of the   *)
(* DownloadCoordinator.  What was downloaded goes through a bounded queue  *)
(* to one worker that transcribes it.  `dump` and `sync` (mode "stream")   *)
(* wait for the worker before they emit a page; the daily reports ("daily")*)
(* go on to the next dialog and collect at the end.  The context may end   *)
(* at any moment.                                                          *)
(***************************************************************************)
EXTENDS DownloadCoordinator

CONSTANTS
    Driver,         \* the goroutine of the walk
    Pages,          \* the pages it reads: sequences of attachments
    Key,            \* attachment -> path of its transcript in the cache
    Extra,          \* other caller -> the tasks it may submit, in order
    QueueCapacity,  \* mediaPipelineQueueCapacity
    Modes,          \* the walks to consider
    Earlier         \* sets of keys whose transcripts earlier runs may have left

Attachments == DOMAIN Key
Keys        == {Key[t] : t \in Attachments}

ASSUME PipelineConstants ==
    /\ Driver \in Callers /\ Extra \in [Callers \ {Driver} -> Seq(Tasks \ Attachments)]
    /\ Attachments \subseteq Tasks /\ None \notin Tasks
    /\ Pages \in Seq(Seq(Attachments))
    /\ QueueCapacity \in Nat \ {0}
    /\ Modes \subseteq {"stream", "daily"}
    /\ Earlier \subseteq SUBSET Keys

\* Each attachment of a message is planned as a task of its own.
ASSUME UniqueAttachments ==
    \A i, j \in DOMAIN Pages : \A m \in DOMAIN Pages[i], n \in DOMAIN Pages[j] :
        Pages[i][m] = Pages[j][n] => i = j /\ m = n

VARIABLES
    mode,
    run,       \* what the driver does
    page,      \* the page it is at
    kept,      \* pages whose records were emitted, or are kept for the report
    complete,  \* no DialogErrors so far
    claimed,   \* mediaPipeline.claimed
    jobs,      \* the queue
    worker,    \* the attachment being transcribed, or None
    results,   \* mediaPipeline.results, per key
    shown,     \* what the record says of the attachment
    cache,     \* transcripts on disk
    temps      \* attachments whose download is in a temporary file

pipeline == <<mode, run, page, kept, complete, claimed, jobs, worker, results,
              shown, cache, temps>>
vars     == <<coordinator, pipeline>>

Outcomes == {"none", "text", "error", "interrupted"}
Labels   == Outcomes \cup {"undownloaded"}

TypeOK ==
    /\ at \in [Callers -> Places] /\ state \in [Tasks -> States]
    /\ queue \in [Callers -> Seq(Tasks)] /\ wave \in [Callers -> Seq(Tasks)]
    /\ gate \in [readers : SUBSET Callers, writer : Callers \cup {None},
                 waiting : SUBSET Callers]
    /\ batch \in Callers \cup {None} /\ cancelled \subseteq Callers
    /\ mode \in Modes
    /\ run \in {"read", "reading", "batch", "flush", "close", "abort", "aborting",
                "ok", "incomplete", "failed"}
    /\ page \in 1..Len(Pages) + 1 /\ kept \subseteq DOMAIN Pages /\ complete \in BOOLEAN
    /\ claimed \subseteq Keys /\ cache \subseteq Keys /\ temps \subseteq Attachments
    /\ jobs \in Seq(Attachments) /\ Len(jobs) <= QueueCapacity
    /\ worker \in Attachments \cup {None}
    /\ results \in [Keys -> Outcomes] /\ shown \in [Attachments -> Labels]

Init ==
    /\ CoordinatorInit
    /\ mode \in Modes
    /\ run = "read" /\ page = 1 /\ kept = {} /\ complete = TRUE
    /\ claimed = {} /\ jobs = <<>> /\ worker = None
    /\ results = [k \in Keys |-> "none"]
    /\ shown = [t \in Attachments |-> "none"]
    /\ cache \in Earlier
    /\ temps = {}

Label(ts, l)   == shown' = [t \in Attachments |-> IF t \in ts THEN l ELSE shown[t]]
KeysOf(ts)     == {Key[t] : t \in ts}

\* The pipeline context: a child of the walk's, ended by abort.
Ended == Driver \in cancelled \/ run \in {"abort", "aborting"}

\* jobsPending is zero.
Idle == jobs = <<>> /\ worker = None

-----------------------------------------------------------------------------
(* The worker *)

\* A job taken after the context ended is answered without being looked at.
DropJob ==
    /\ worker = None /\ jobs # <<>> /\ Ended
    /\ jobs' = Tail(jobs)
    /\ results' = [results EXCEPT ![Key[Head(jobs)]] = "interrupted"]
    /\ temps' = temps \ {Head(jobs)}
    /\ UNCHANGED <<coordinator, mode, run, page, kept, complete, claimed, worker,
                   shown, cache>>

TakeJob ==
    /\ worker = None /\ jobs # <<>> /\ ~Ended
    /\ worker' = Head(jobs) /\ jobs' = Tail(jobs)
    /\ UNCHANGED <<coordinator, mode, run, page, kept, complete, claimed, results,
                   shown, cache, temps>>

\* The transcript is published by a rename, or there is an error; in both
\* cases the input is removed and the result stored.
FinishJob ==
    /\ worker # None
    /\ \E outcome \in {"text", "error"} \cup (IF Ended THEN {"interrupted"} ELSE {}) :
          /\ results' = [results EXCEPT ![Key[worker]] = outcome]
          /\ cache' = IF outcome = "text" THEN cache \cup {Key[worker]} ELSE cache
    /\ temps' = temps \ {worker}
    /\ worker' = None
    /\ UNCHANGED <<coordinator, mode, run, page, kept, complete, claimed, jobs, shown>>

-----------------------------------------------------------------------------
(* The driver: pages *)

Attachment(i) == Range(Pages[i])

\* Mutant: a daily walk tries the dialog again.
GiveUpPageRetry ==
    IF mode = "daily"
    THEN run' = "read" /\ complete' = FALSE /\ UNCHANGED page
    ELSE run' = "abort" /\ UNCHANGED <<page, complete>>

\* A dialog whose history cannot be read: its records are left out of the
\* report, and other walks give up.
GiveUpPage ==
    IF mode = "daily"
    THEN run' = "read" /\ page' = page + 1 /\ complete' = FALSE
    ELSE run' = "abort" /\ UNCHANGED <<page, complete>>

ReadPage ==
    /\ run = "read" /\ page <= Len(Pages)
    /\ AskHistory(Driver)
    /\ run' = "reading"
    /\ UNCHANGED <<mode, page, kept, complete, claimed, jobs, worker, results, shown,
                   cache, temps>>

HistoryFails ==
    /\ run = "reading" /\ Outside(Driver)
    /\ GiveUpPage
    /\ UNCHANGED <<coordinator, mode, kept, claimed, jobs, worker, results, shown,
                   cache, temps>>

\* planAttachmentTranscription: the first attachment with a key that is
\* neither on disk nor claimed gets the task.
Before(i, n) == {Pages[i][m] : m \in 1..n - 1}
Claims(i, n)  == /\ Key[Pages[i][n]] \notin cache \cup claimed
                 /\ Key[Pages[i][n]] \notin KeysOf(Before(i, n))
Planned(i)    == {n \in DOMAIN Pages[i] : Claims(i, n)}

\* The tasks at the places ps of a page, in the order of the page.
Ascending(ps)      == {f \in [1..Cardinality(ps) -> ps] :
                          \A a, b \in DOMAIN f : a < b => f[a] < f[b]}
TasksAt(i, places) == [n \in DOMAIN places |-> Pages[i][places[n]]]

Plan ==
    /\ run = "reading" /\ Outside(Driver)
    /\ \E places \in Ascending(Planned(page)) : Submit(Driver, TasksAt(page, places))
    /\ claimed' = claimed \cup {Key[Pages[page][n]] : n \in Planned(page)}
    /\ Label({t \in Attachment(page) : Key[t] \in cache}, "text")
    /\ run' = "batch"
    /\ UNCHANGED <<mode, page, kept, complete, jobs, worker, results, cache, temps>>

EndPage ==
    /\ run = "batch" /\ Outside(Driver)
    /\ CASE at[Driver] = "failed" -> GiveUpPage /\ UNCHANGED kept
         [] mode = "daily" /\ at[Driver] = "returned" ->
               /\ run' = "read" /\ page' = page + 1 /\ kept' = kept \cup {page}
               /\ UNCHANGED complete
         [] OTHER -> run' = "flush" /\ UNCHANGED <<page, kept, complete>>
    /\ UNCHANGED <<coordinator, mode, claimed, jobs, worker, results, shown, cache, temps>>

\* Mutant: a result is shown in the attachment it was made for only.
ApplyToFirst(records) ==
    LET there == {k \in KeysOf(records) : results[k] # "none"}
    IN  /\ shown' = [t \in Attachments |->
                        IF t \in records /\ Key[t] \in there /\ state[t] = "settled"
                        THEN results[Key[t]] ELSE shown[t]]
        /\ results' = [k \in Keys |-> IF k \in there THEN "none" ELSE results[k]]
        /\ claimed' = claimed \ there

\* applyResults: the results whose key is in one of the records, each shown
\* in every attachment with that key.
Apply(records) ==
    LET there == {k \in KeysOf(records) : results[k] # "none"}
    IN  /\ shown' = [t \in Attachments |-> IF t \in records /\ Key[t] \in there
                                           THEN results[Key[t]] ELSE shown[t]]
        /\ results' = [k \in Keys |-> IF k \in there THEN "none" ELSE results[k]]
        /\ claimed' = claimed \ there

\* Mutant: the page is emitted whether the context ended or not.
FlushAnyway ==
    /\ run = "flush" /\ Idle
    /\ Apply(Attachment(page))
    /\ kept' = kept \cup {page}
    /\ run' = "read" /\ page' = page + 1
    /\ UNCHANGED <<coordinator, mode, complete, jobs, worker, cache, temps>>

\* flushAndApply, and the records of the page are emitted.
Flush ==
    /\ run = "flush" /\ Idle
    /\ IF Driver \in cancelled
       THEN run' = "abort" /\ UNCHANGED <<page, kept, claimed, results, shown>>
       ELSE /\ Apply(Attachment(page))
            /\ kept' = kept \cup {page}
            /\ run' = "read" /\ page' = page + 1
    /\ UNCHANGED <<coordinator, mode, complete, jobs, worker, cache, temps>>

\* finishAndApply: the queue is closed, the worker drains it, and what is
\* left is applied to the records of the report (daily) or dropped.
Close ==
    /\ run = "read" /\ page > Len(Pages)
    /\ run' = "close"
    /\ UNCHANGED <<coordinator, mode, page, kept, complete, claimed, jobs, worker,
                   results, shown, cache, temps>>

Finish ==
    /\ run = "close" /\ Idle
    /\ IF mode = "daily" THEN Apply(UNION {Attachment(i) : i \in kept})
       ELSE /\ results' = [k \in Keys |-> "none"]
            /\ claimed' = {k \in claimed : results[k] = "none"}
            /\ UNCHANGED shown
    /\ run' = IF complete THEN "ok" ELSE "incomplete"
    /\ UNCHANGED <<coordinator, mode, page, kept, complete, jobs, worker, cache, temps>>

\* abort: the context is ended, the queue closed, the worker awaited.
Abort ==
    /\ run = "abort"
    /\ run' = "aborting"
    /\ UNCHANGED <<coordinator, mode, page, kept, complete, claimed, jobs, worker,
                   results, shown, cache, temps>>

Aborted ==
    /\ run = "aborting" /\ Idle
    /\ run' = "failed"
    /\ UNCHANGED <<coordinator, mode, page, kept, complete, claimed, jobs, worker,
                   results, shown, cache, temps>>

-----------------------------------------------------------------------------
(* The driver: the hooks of its tasks *)

\* The temporary file is created when the transfer begins.
ReserveInputs ==
    /\ Reserve(Driver)
    /\ temps' = temps \cup Range(wave[Driver])
    /\ UNCHANGED <<mode, run, page, kept, complete, claimed, jobs, worker, results,
                   shown, cache>>

DriverStep ==
    /\ \/ EnterHistory(Driver) \/ LeaveHistory(Driver)
       \/ EnterBatch(Driver) \/ EndBatch(Driver)
       \/ StartWave(Driver) \/ EnterGate(Driver) \/ ReserveFails(Driver)
       \/ EndTransfers(Driver) \/ EndWave(Driver)
    /\ UNCHANGED pipeline

\* Mutant: a task that is cancelled keeps its claim.
CancelTasksKeepClaims ==
    /\ CancelWaiting(Driver) \/ CancelRest(Driver) \/ EndFailed(Driver)
    /\ Label(Range(queue[Driver]), "undownloaded")
    /\ UNCHANGED <<mode, run, page, kept, complete, claimed, jobs, worker, results,
                   cache, temps>>

\* Cancel of the tasks that were not started.
CancelTasks ==
    /\ CancelWaiting(Driver) \/ CancelRest(Driver) \/ EndFailed(Driver)
    /\ claimed' = claimed \ KeysOf(Range(queue[Driver]))
    /\ Label(Range(queue[Driver]), "undownloaded")
    /\ UNCHANGED <<mode, run, page, kept, complete, jobs, worker, results, cache, temps>>

\* finishTranscriptionDownload: an attachment that was not downloaded gives
\* its claim back; the others are queued, which waits while the queue is full.
AfterFailure(t) ==
    /\ state[t] = "failed"
    /\ claimed' = claimed \ {Key[t]} /\ temps' = temps \ {t}
    /\ Label({t}, "undownloaded")
    /\ UNCHANGED jobs

Enqueue(t) ==
    /\ state[t] = "moved" /\ Len(jobs) < QueueCapacity
    /\ jobs' = Append(jobs, t)
    /\ UNCHANGED <<claimed, temps, shown>>

EnqueueEnded(t) ==
    /\ state[t] = "moved" /\ Ended
    /\ claimed' = claimed \ {Key[t]} /\ temps' = temps \ {t}
    /\ Label({t}, "interrupted")
    /\ UNCHANGED jobs

AfterDownload ==
    /\ After(Driver)
    /\ LET t == Head(wave[Driver])
       IN  AfterFailure(t) \/ Enqueue(t) \/ EnqueueEnded(t)
    /\ UNCHANGED <<mode, run, page, kept, complete, worker, results, cache>>

-----------------------------------------------------------------------------
(* Other users of the coordinator *)

OtherStep(c) ==
    /\ \/ Submit(c, Extra[c]) /\ \A t \in Range(Extra[c]) : state[t] = "new"
       \/ CallStep(c) \/ LeaveHistory(c)
       \/ CancelWaiting(c) \/ CancelRest(c) \/ After(c) \/ EndFailed(c)
    /\ UNCHANGED pipeline

OtherHistory(c) ==
    /\ \A t \in Range(Extra[c]) : state[t] = "new"
    /\ AskHistory(c)
    /\ UNCHANGED pipeline

Ending == run \in {"ok", "incomplete", "failed"}

Over ==
    /\ Ending /\ \A c \in Callers : Outside(c)
    /\ UNCHANGED vars

Walk ==
    \/ ReadPage \/ HistoryFails \/ Plan \/ EndPage \/ Flush \/ Close \/ Finish
    \/ Abort \/ Aborted \/ ReserveInputs \/ DriverStep \/ CancelTasks \/ AfterDownload

Work      == DropJob \/ TakeJob \/ FinishJob
Transfers == \E t \in Tasks : Transfer(t) /\ UNCHANGED pipeline

Next ==
    \/ Walk \/ Work \/ Transfers \/ Over
    \/ \E c \in Callers \ {Driver} : OtherStep(c) \/ OtherHistory(c)
    \/ \E c \in Callers : Cancel(c) /\ UNCHANGED pipeline

\* The goroutines are scheduled; a transfer and a transcription have timeouts,
\* and so has a request.  Nobody has to begin a call, and a page that can be
\* read need not be refused.  The gate is fair to those who wait: a reader is
\* let in when a writer leaves, and the writers' mutex cannot starve one of
\* them (sync.RWMutex, sync.Mutex).
Fairness ==
    /\ WF_vars(Walk) /\ WF_vars(Work)
    /\ \A t \in Tasks : WF_vars(Transfer(t) /\ UNCHANGED pipeline)
    /\ \A c \in Callers \ {Driver} : WF_vars(OtherStep(c))
    /\ SF_vars(EnterHistory(Driver) /\ UNCHANGED pipeline)
    /\ SF_vars(EnterGate(Driver) /\ UNCHANGED pipeline)

Spec     == Init /\ [][Next]_vars
FairSpec == Spec /\ Fairness

-----------------------------------------------------------------------------
(* Properties *)

Pending(t) == state[t] \in {"queued", "moving", "moved", "failed"}
Held(k)    == \E t \in Attachments :
                 Key[t] = k /\ (Pending(t) \/ t \in Range(jobs) \/ t = worker)

\* A transcript is claimed exactly while somebody is on the way to it, or its
\* result waits to be applied: a claim that is lost lets two jobs write one
\* transcript, a claim that is left keeps the media from ever being
\* transcribed in this run (claim, releaseClaim, enqueue and applyResults,
\* media_pipeline.go:170-224 and 429-456).  When the walk is over, by whatever
\* way, no download is left on disk (processJob, abort).
WorkAccounted ==
    /\ \A k \in Keys : k \in claimed <=> Held(k) \/ results[k] # "none"
    /\ Ending => temps = {}

\* When all calls have returned, every task that was handed over had exactly
\* one end, After or Cancel, whatever failed in between
\* (download_coordinator.go:93-117).
EveryTaskEnds ==
    (\A c \in Callers : Outside(c)) =>
        \A t \in Tasks : state[t] \in {"new", "settled", "cancelled"}

\* What became of a media is told wherever it is emitted: an attachment that had a task
\* shows how that ended, and what the worker answered is shown in every attachment of
\* the page (of a daily report, of all its pages) with the same media, whichever of them
\* had the task (applyResults, media_pipeline.go:429-456).
Emitted        == IF mode = "stream" THEN kept ELSE IF Ending THEN kept ELSE {}
Together(i, j) == i = j \/ mode = "daily"
OutcomesShown ==
    \A i \in Emitted : \A t \in Attachment(i) :
        /\ state[t] # "new" => shown[t] # "none"
        /\ shown[t] \in {"text", "error"} =>
               \A j \in Emitted : \A u \in Attachment(j) :
                   Together(i, j) /\ Key[u] = Key[t] => shown[u] = shown[t]

\* "Подходящие голосовые имеют расшифровку либо явный машинный статус причины пропуска"
\* (docs/catch-up.md:131): no attachment of a complete report is without both.
VoicesExplained ==
    mode = "daily" /\ run = "ok" => \A i \in kept : \A t \in Attachment(i) : shown[t] # "none"

\* The code falls short of that in one way only: an attachment that is emitted with
\* neither has a twin with the same media whose download failed, and which alone says so
\* (media_download.go:336-338 and 395-404).
Explained ==
    \A i \in Emitted : \A t \in Attachment(i) :
        shown[t] = "none" =>
            \E u \in Attachments : Key[u] = Key[t] /\ shown[u] = "undownloaded"

\* A page of a dump or sync is emitted only if the context had not ended when
\* its transcripts were complete: no interruption is archived as the state of
\* a message (flushAndApply, media_pipeline.go:386-389).
StreamShowsNoInterruption ==
    mode = "stream" => \A i \in kept : \A t \in Attachment(i) : shown[t] # "interrupted"

\* "An interruption returns an error" (docs/collection-integrity.md:5): a walk
\* that is reported as complete shows no attachment as interrupted.
InterruptionIsAnError ==
    run = "ok" => \A i \in kept : \A t \in Attachment(i) : shown[t] # "interrupted"

\* The walk returns, whatever fails and whenever the context ends: a full
\* queue, a closed queue and the gate never hold it for ever.
WalkReturns == <>Ending
=============================================================================
