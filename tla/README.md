# Verification of telegram-harvest

TLA+ specifications of telegram-harvest, model-checked with TLC, with theorems
checked by TLAPS. The reference is the Go code; the modules follow its control
flow: guards, early returns, error paths and the order of durable effects.

## The system

telegram-harvest is a command-line tool that copies Telegram history to local
JSONL archives and derives daily reports, recaps and reading views from them.
Each command is one process; processes meet only through files and advisory
locks. What survives a process is on disk, and most of the hard behaviour is what
the next command makes of what an interrupted one left.

| Component | State | Operations | Interacts with |
|---|---|---|---|
| Chat sync (`internal/harvest/sync.go`, `incremental.go`) | `*.state.json`, incremental journal and stage, stream and merged JSONL | plain run, `--refresh-from`, `--all`, `--reset`, resume | history walk; publication markers; locks |
| Publication (`publication.go`, `state.go`) | `*.harvest-pending`, atomically replaced files | begin, finish, check | writers (sync), readers (compact, agent-view) |
| Locks (`internal/runlock`) | `*.harvest.lock`, `*.runtime.lock` | acquire, release | every command |
| History walk (`internal/mtproto/client.go`) | page offset, statistics | pages from newest to oldest, bounded by MinID and Start | Telegram; sync, daily, dump |
| Account sync (`account_sync.go`) | directory of per-chat archives, account binding | verify account, list dialogs, one sync per dialog, recovery of the older pending file | chat sync, dialog listing |
| Daily and catch-up (`cmd/.../main.go`, `daily_checkpoint.go`) | reports, dialog checkpoint | plan missing days, scan dialogs, publish reports, save checkpoint | dialog listing, media |
| Recap (`daily_recap.go`) | prepared bundle, delivered boundary | prepare, reuse, confirm delivery | daily collection |
| Downloads (`download_coordinator.go`) | gate, batch gate, waves | run history, run batch, cancel | history walk, pipeline |
| Transcription pipeline (`media_pipeline.go`) | claims, queue, results | enqueue, work, flush, abort | downloads, transcription server |
| Media cache (`media_cache.go`) | entries with metadata, hard links | restore, store, prune | downloads |
| RPC pacing (`client.go`) | next slot, flood counters | reserve, call, flood wait, retry | every request |
| Transcription server (`internal/transcribe`) | child process, readiness | start, infer, recover the tail, stop | pipeline |
| Views (`agent_view*.go`, `compact.go`) | day files, indexes, manifest | build, update incrementally | publication markers |
| Mutations (`send_saved.go`, `interview_topic_*.go`, `account_organize.go`) | journals, random ids | preflight, one attempt, read back | Telegram |

What makes each correct, in one line:

- *Chat sync*: `LastID` is a verified lower boundary: nothing below it is missing,
  nothing is stored twice without a change, and any interruption can be resumed.
- *Publication and locks*: a reader never takes an unfinished output for a finished
  one; one stream never damages another's records in a shared file.
- *Daily and catch-up*: a report that counts as complete covers every dialog and the
  whole range; days are neither skipped nor published twice.
- *Recap*: the delivered boundary has no gaps and never moves back.
- *Downloads and pipeline*: every attachment ends with a result or an error; no
  request overlaps a wave; abort terminates.
- *Cache*: a file reported as saved holds the whole media.
- *RPC pacing*: a flood wait holds for every call of the session.
- *Transcription server*: one verified process; a long answer reaches the end of the
  speech; what is cut from a text is a repetition.
- *Account sync*: archives of two accounts never meet; complete means complete.
- *Views*: an update shows what a rebuild would.
- *Mutations*: a change is made at most once, and reported only when read back.

The hard behaviours are crash recovery in multi-file protocols, messages that
arrive during a walk, a shared output written by several streams, and the
concurrency inside one run (downloads, history requests and transcription).
PROJECT.json lists each hazard at its line.

## Modules

| Module | What it is |
|---|---|
| `ChatSync` | `sync` of one chat, with Telegram as its environment |
| `AtomicArchive` | what an incremental sync promises: the archive grows by whole ranges |
| `SharedMerged` | two instances of `ChatSync` with one merged output |
| `DailyCatchup` | `daily-catchup` and `daily`: plan, scan of all dialogs, checkpoint, publication |
| `DownloadCoordinator` | the gate between history and transfers, batches and their waves |
| `MediaPipeline` | a walk with its downloads and transcriptions, on top of the coordinator |
| `TopicPublish`, `TopicEdits`, `AccountOrganize`, `SendSaved` | the commands that change something on Telegram |
| `Recap` | bundles for a narrative, reuse of a prefix, confirmation |
| `AgentView` | rebuild and update of the reading view |
| `MediaCache` | saved attachments of two processes with one cache |
| `AccountSync` | all dialogs of an account |
| `Transcript`, `Repetition` | bounds of speech and validation of long answers; loops in a text |
| `RpcPacing` | slots and flood waits of one session |
| `WhisperServer` | the server process of a run |
| `MCChatSync`, `MCSharedMerged`, `MCDailyCatchup`, `MCMediaPipeline` | small instances for TLC |
| `MCCommands`, `MCOutputs` | small instances of the commands that are repeated (`sync` too), and of the parts from `Recap` to `WhisperServer` |
| `ChatSync_proofs` | types and durability of the journal |
| `ChatArchive_proofs` | incremental runs: publication, no repeats, the boundary, refinement of `AtomicArchive`; full, resumed and plain runs that follow each other |
| `SharedOutput_proofs` | one chat whose merged output others write too: what it promises them and relies on |
| `SharedMerged_proofs` | two such chats together |
| `DailyCatchup_proofs` | order of reports, checkpoint, whole reports |
| `MediaPipeline_proofs` | gate, ends of tasks, claims, what the records say |
| `Commands_proofs` | the four commands that change something on Telegram |
| `Outputs_proofs` | transcription server, pacing, transcripts and their loops; recaps, media cache, reading view, account directory |

Each module has one type invariant. `incremental` checks that of `ChatSync`; those of the
other modules hold on the instances of the runs below (with the configurations of
`daily`, `media`, `commands` and `outputs`) and are not repeated in every run.

A component that ends, by an error or by a kill, is modelled by one action where
the code has many error returns with the same effect; the actions say which returns
they stand for.

### ChatSync

A variable is a Telegram fact (`msgs`, `head`), a file (`state`, `journal`, `stage`,
`out`, `marker`), the synced length of a file that is appended (`staged`,
`synced`), a kernel lock (`holder`) or the memory of the running process. A process
that is not running has `pc = "idle"`.

| Code | Actions |
|---|---|
| `RunSync` locks, owner check, `LoadSyncState`, mode | `StartIncremental`, `StartFull` |
| stage and journal (`incremental.go:90-202`) | `OpenStage`, `SaveJournal`, `ReadPage`, `CheckpointPage`, `MarkReady` |
| publication (`incremental.go:203-328`) | `Plan`, `Verify`, `Mark`, `Compare`, `Copy`, `Flush`, `Commit`, `Unmark`, `RemoveJournal`, `RemoveStage` |
| committed journal found at the start (`incremental.go:66-83`) | `StartIncremental` to `Unmark` |
| full walk (`sync.go:126-245`) | `Mark`, `OpenOutput`, `ReadHistoryPage`, `CheckpointHistory`, `Finish`, `Unmark` |
| a check that fails in the middle of a run | `Refuse` |
| error of a call, cancellation, kill, power loss | `Crash` (with `Lose` for a power loss) |

An action ends where something becomes durable or visible, so that `Crash` may
fall between any two durable effects. After a kill the files stay as they are and
what was not synced may still be lost later; after a power loss each file keeps its
synced part and any part of the rest.

Abstractions:

- A message is an id with a version; an edit makes a new version. What
  `messageContent` compares is the version. Deleted messages have version 0.
- A date is the first id of that date. Ids grow with time, so the two orders agree.
- `Answers` lets a history request return any nonempty run of the newest messages
  below the offset, at most a page, filtered by MinID or not: `get_replies` need not
  apply it. `collection-integrity.md` states that a short page proves nothing.
- A record is the unit a file loses; lines torn by a crash lie in the part that is
  cut or rewritten and are not modelled.
- `LastSyncAt` is a stamp no other checkpoint on disk carries: `equalSyncState`
  compares whole states, and times differ between runs.
- The top id of the chat is the newest message when the run resolves the chat, or 0
  when it is resolved without a dialog.
- Atomic replacement, truncation at opening and removal are durable at once.
- Outputs belong to a chat for good, so `matchIncrementalOutputs` and its variants
  always match. Topics, media, timings and printed progress are left out.
- Bounds (`MaxID`, `MaxVersion`, `MaxCrashes`, `MaxResets`, `MaxDeletes`) limit what
  the environment does; `Stamps` holds five times, of which a state uses at most three.

### AtomicArchive

A log of records and a boundary change together in one step; the log is only
extended, by new messages or by revisions with other content; everything at or
below the boundary that Telegram still has is in the log. `ImplementsArchive` maps
`ChatSync` to it: the log is the part of the stream that the state on disk
accounts for (`CommittedLog`), so an interrupted copy is not in it yet, and the
step that saves the state is the one that publishes.

### SharedMerged

Two chats share `merged.jsonl`, its marker and its lock; states, journals, stages
and streams are their own. The lock excludes runs that overlap in time. What
interleaves is a run of one chat between an interrupted run of the other and its
repetition.

What a chat has committed to the merged file is told by places: an increasing function
from the first `state.records` records of its stream to the places where the merged
file holds records of this chat (`InMerged`). `ReadableMergedIsCommitted` adds that there
is nothing else once readers accept the file.

### DailyCatchup

Telegram is `log` (a message is its place in the order of arrival, with dialog, day
and whether it still exists), `folder` and `today`. Files are `raw` and `report` by
day, `latest` (the days of `00-latest-catchup.md`) and `checkpoint`.

| Code | Actions |
|---|---|
| `runDailyCatchup`, `buildDailyCatchupPlan`, `EvaluateDailyDialogCheckpoint` | `Catchup`, `RebuildLatest` |
| `runDaily` | `Daily` |
| `ListAllDialogs`, `loadAllDialogsFolder` | `ListDialogs`, `NextFolder`, `EndListing` |
| `planDailyDialogScan`, the range check | `SkipDialog`, `OpenDialog` |
| `collectDailyHistory`, `observeDailyHistoryMessage`, `dailyCheckpointPageComplete`, `applyDailyHistoryBoundary` | `ReadHistory` |
| a dialog that cannot be resolved or read | `FailDialog` |
| `runDailyRangeJobs` | `Abandon`, `EndScan` |
| `publishDailyJob` | `PublishRecords`, `PublishReport` |
| `publishDailyCatchupCompletion` | `PublishLatest`, `SaveCheckpoint` |
| error, cancellation, kill | `Interrupt` |

Abstractions:

- Every message is one the report wants. The sender filter comes after everything
  the checkpoint depends on (`observeDailyHistoryMessage` sees raw messages).
- A history page may be short, and MinID applied or not. An answer that is not
  marked inexact is short only at the end of the history: that is the one thing
  `dailyCheckpointPageComplete` relies on.
- A posted message brings an archived dialog back to the main folder. Dialogs that
  have no message are not listed; pinned dialogs keep their place among the others.
- Runs do not overlap (`docs/catch-up.md` forbids a second one), so the checkpoint a
  run has loaded is the one on disk until the run replaces it. Account and scope of
  the checkpoint are the dialog limit; another account is another scope.
- A renamed file is there as a whole. Power losses, after which a report that was
  renamed but not synced may be empty, are not modelled.
- `Watched` lets Telegram change only in the phases of a run that look at it: a change
  during the publication cannot be told from one just after the run.

### DownloadCoordinator and MediaPipeline

A caller of the coordinator is a goroutine; `at` is its place in `runHistory` or
`runBatch`, `gate` the `sync.RWMutex`, `batch` the holder of the batch gate, and
`state` the way of each task. A hook of a task (`After`, `Cancel`) is an action of the
coordinator to which the owner of the task conjoins what the hook does.

`MediaPipeline` is one owner: the goroutine that walks the history (`Driver`). Its
downloads are tasks, its attachments have transcript keys, and a transcript is on disk
(`cache`), claimed, queued (`jobs`), at the worker or a result.

| Code | Actions |
|---|---|
| `runHistory` | `AskHistory`, `EnterHistory`, `LeaveHistory` |
| `runBatch`, `runWave`, `cancelWave` | `Submit`, `EnterBatch`, `StartWave`, `EnterGate`, `Reserve`, `Transfer`, `EndTransfers`, `EndWave`, `EndFailed`, `EndBatch` |
| hooks of a task | `ReserveInputs`, `AfterDownload` (`AfterFailure`, `Enqueue`, `EnqueueEnded`), `CancelTasks` |
| page loop, `planAttachmentTranscription` | `ReadPage`, `HistoryFails`, `GiveUpPage`, `Plan`, `EndPage` |
| worker (`processJob`) | `DropJob`, `TakeJob`, `FinishJob` |
| `flushAndApply`, `finishAndApply`, `abort` | `Flush`; `Close`, `Finish`; `Abort`, `Aborted` |
| another user of the coordinator, the context | `OtherStep`, `OtherHistory`, `Cancel` |

`Plan` hands the tasks of a page over in the order of the page (`Ascending`); of two
attachments with one key only the first becomes a task (`Claims`). A file is small or
large (one or two chunk slots); bytes, sizes and the number of threads are left out.
A transcription has a result, an error, or is interrupted.

### Commands

These commands, and `sync`, hold the runtime lock of a profile, so runs never overlap;
`MCCommands` picks one command in the initial state and repeats it. A variable is what
Telegram holds (`copies`, `body`, `folder`, `saved`), requests without an answer that
may still be carried out (`flight`, `late`, `astray`), a journal on disk
(`receipts`, `editReceipt`), or the run. Every request can be answered, refused, or lose
its answer and be carried out now, later or never. Other clients of the owner change
what the commands look at, as far as the documentation lets them.

| Module | Code | Actions |
|---|---|---|
| `TopicPublish` | preflight | `Preflight` (`ConfirmKnown`, `LookForNew`) |
| | the journaled send of a post | `JournalSend`, `SendAnswered`, `SendLost`, `SaveID`, `Readback` |
| `TopicEdits` | the two passes over the manifest | `CheckItem`, `EndChecks`, `KeepItem`, `OpenItem` |
| | edit, delete, replacement | `Upload`, `ChangeAnswered`, `ChangeFails`, `VerifyEdit` |
| `AccountOrganize` | heads, folder | `CheckHead`, `Reread`, `WriteFolder`, `ConfirmFolder` |
| | archive of each dialog | `CheckPeer`, `ArchivePeer`, `ReadbackPeer` |
| `SendSaved` | preparation and sending | `Prepare`, `SendReuse`, `UploadPayload`, `SendPayload` |
| | reading back | `ReadBack`, `ReadBackFails`, `CompareCopy` |

A text, caption, attachment or entity is part of one body that is as reviewed or not.

### Recap, views, cache and account archives

- `Recap`: a message is a clock tick with a gap (media that could not be read) or none.
  `recap` is the state file, `dirs` the bundle directories with the condition of their
  files. A run is `StartRecap`, `BeginBundle`, `Collect`, `SaveRecap`, `CleanUp`,
  `EndRecap`; `ConfirmRecap` is the other command. A second confirmation of the same
  delivery changes nothing.
- `AgentView`: the archive is a sequence of lines with a message and a version, where a
  later version is a longer line (`SizeTo`), so that a remembered size can lie inside a
  line. `days` says how often the day files together have a line, `recent` is the set of
  lines of all-recent.md. An update is `AppendDays`, `WriteIndex`, `ExtendManifest`; a
  rebuild `RemoveView`, `WriteView`, `RecordManifest`; `KillView` may fall between any two
  and leaves a broken manifest or half of the lines.
- `MediaCache`: two processes save batches of one media to several targets. `content`
  holds the files, `linked` those of one inode (an edit of one is an edit of all), `meta`
  the metadata. Each read and write of the cache is an action, since the mutex of a
  cache does not hold for the other process. Two processes run at
  once only with sessions of their own (`withRuntimeLock`, main.go:2164), and so with
  media directories of their own; what they share is the cache beside these
  (media_cache.go:71). A target is named after its message and place (`mediaTargetPath`,
  client.go:2948). `UniqueTargets` and `SeparateTargets` say so.
- `AccountSync`: a chat is what its archive covers (`top`, `last`, `tail`); how it gets
  there is `ChatSync`. `account` is account.json, `index` what readers see.

### Transcription server

- `WhisperServer`: the mutex of the runner makes `BeginRequest` to `EndRequest`
  exclusive; the process itself may end at any time (`ServerExits`).
- `Transcript`: times are seconds. `Probe` is what the detector says of an interval;
  the windows overlap, so that speech at the border of one is whole in another. The
  server may answer anything (`Answers`).
- `Repetition`: a text is its tokens (runs of a-z, а-я, ё and digits) and the gaps between
  them, which hold what `tokenizeWhisperText` passes over: words of other scripts and
  line breaks. Blanks and punctuation count for nothing. Lines are compared by their
  tokens, so two lines without any are equal; a cut runs to the start of the next token
  and takes the gaps in and behind the loop along. A capital Ё, which
  `tokenizeWhisperText` reads as a letter and `normalizeWhisperHallucination` as a blank,
  does not occur.
- `RpcPacing`: the clock, the next free slot, and for each call its slot and attempt.

## Runs

| Run | Question | Bounds |
|---|---|---|
| `incremental` | Do plain and reconciling runs keep the archive an atomic, duplicate-free, resumable log? | 2 messages of 2 versions, pages of at most 2 (so also short ones), stream and merged output, 2 interruptions, 1 deletion |
| `backfill` | Does a stream with full, reset and plain runs ever claim more than it holds? | 3 messages, pages of at most 2, 1 reset, 2 interruptions |
| `merged` | Do two chats keep each other's records in one merged file? | 1 message and 1 interruption for each chat |
| `daily` | Are daily reports complete and the dialog checkpoint right, whatever happens during and between runs? | 2 dialogs, 3 days, 3 messages, pages of at most 2, 1 deletion, failure or interruption |
| `media` | Are claims, tasks and the limits of the coordinator kept, and does the walk always return? | 2 callers, 6 tasks, one key for 3 attachments of 2 pages, a queue of 1, both kinds of walk |
| `commands` | Is nothing published, sent, replaced or overwritten that must not be, and do repeated commands complete? | 3 posts in 2 manifests, 2 messages, 2 dialogs, 4 payloads; 2 interruptions or lost answers; for `sync` 2 messages, pages of 1, 1 reset, 1 interruption, stream and merged output |
| `outputs` | Is what is reused, restored, updated, confirmed or accepted what building it anew would give? | below |
| `late_refresh`, `moving_dialogs`, `media_interrupted`, `silent_twin`, `missed_loop` | Disagreements between code and documentation, below | as small as shows them |

Two messages make two pages when the first page is short or holds one message,
an id below and one above any boundary, and a revision of one of them; two
interruptions let recovery itself be interrupted. The backfill run has three
messages so that a resume position lies strictly inside the history.
`commands` restricts `--reset` by `ResetFirst` to the begin of a stream, as
README.md:564 asks. `backfill` restricts it by `ResetEarly` to a stream without a
checkpoint; a first incremental run may have been interrupted before, and that journal
may really stop all further runs: deadlock checking is off there.

`backfill` leaves `--refresh-from` out because of a corner found while modelling: a
killed `--reset` run leaves records in the stream that no state accounts for; a
reconciliation takes them for known (`incremental.go:118`) although nothing has made
them durable, so that a power loss can drop them afterwards.

`daily` needs three days for a run whose checkpoint the next one trusts, and three
messages for a day whose first page is not the whole of it: one below the verified
id and two above it. `CalmListing` keeps dialogs in place while they are listed; what
happens otherwise is what `moving_dialogs` shows. `daily` is given for yesterday only;
for today it goes wrong, as told below.

`media` has three attachments with one key on two pages, so that a claim is met while it
is held, after it failed and after it was answered; a large file, so that waves of one
and of two occur; and a queue of one, so that a full queue meets an ended context.
Another goroutine, with a history request and a download, makes the gate contended.

`commands` has an answer among the posts, so that a parent can be unknown; a continuation
manifest that names a published post; a deletion and an edit. In `MCWorlds` the server
remembers random ids only where a second manifest is used: with one, the journal alone
must suffice.

In `outputs` the parts share no state, so each behaviour is one of them, and the run has
the sum of their states instead of their product. Recap has a clock of 4 ticks, 2
bundles, scopes and settings, and 1 kill; views 3 messages, one of them hidden, 5 lines
and 2 kills; the cache 2 processes, 3 targets (a batch of two and one of one), 1 change
by somebody else and 1 kill; accounts 2 of them, 2 chats of 2 posts, and 1 break.
Recordings have 3 or 6 seconds with windows of 4 that overlap by 2, so that the short
one is probed whole and the long one in two windows; texts have up to 7 tokens with at most
two gaps that are not empty, where 2 repeats and 4 tokens make a loop, which gives texts
of several lines and loops that are cut one after the other; 3 calls meet within 4 ticks with
waits of 1 and 3, so that a short wait can follow a longer one; 2 requests meet up to 3
servers. These parts end, so that deadlock is not checked; the same holds for
`commands`, where a `sync` that is stuck would break `CatchesUp`.

Properties:

- `JournalDurable`: a power loss never takes staged records the journal promises.
- `BoundaryCovered`: every message at or below `LastID` is in the stream.
- `NoRepeats`: a message is stored again only with other content and as a revision.
- `JournalResumable`: a journal on disk is based on the state on disk or commits to it.
- `ReadableIsCommitted`: outputs without marker and lock hold the committed records.
- `ImplementsArchive`: refinement of `AtomicArchive`.
- `BackfillCovered`: an active backfill has everything above its resume position.
- `ReadableIsComplete`: `BoundaryCovered` for readers, in streams with full walks.
- `PendingIsFinished`, `CatchesUp`: liveness of repeated commands.
- `CommittedInMerged`, `ReadableMergedIsCommitted`: the shared file has the committed
  records of both chats, each chat's in order, and for readers nothing else.
- `ReportsComplete`: the report of a day that is over holds every message of the day.
- `CheckpointHonest`: nothing newer than its last day is verified by the checkpoint.
- `ReportsInOrder`: a catch-up publishes the days of its plan in their order.
- `GateKept`: at most two chunk slots, and no history request beside a transfer.
- `WorkAccounted`: a key is claimed exactly while somebody is on the way to its
  transcript; no temporary file outlives the walk.
- `EveryTaskEnds`: each task that was handed over has one end, `After` or `Cancel`.
- `OutcomesShown`: an attachment that had a task shows how that ended, and an answer of
  the worker is shown in every attachment with the same media.
- `StreamShowsNoInterruption`: no interruption is archived as the state of a message.
- `WalkReturns`: the walk returns, whatever fails and whenever the context ends.
- `AtMostOnce`, `ReceiptsInOrder`: no post twice; an unknown outcome is the last receipt.
- `OneRequestPerReplacement`, `UpdateConverges`: replacements and updates in place.
- `FolderKept`, `NoHastyVerified`: other clients' work on folders and archive.
- `SavedOnce`: one run sends its payload at most once.
- `ReusedIsReread`, `DeliveredWithoutGap`, `PreparedStands`: recaps.
- `UpdateIsRebuild`: an updated view shows every visible message once, in its last version.
- `SavedIsWhole`: a target that is reported as saved holds the whole file.
- `AccountsNotMixed`, `CompleteIsCovered`: account archives.
- `SpeechIsCovered`: an accepted transcript reaches the last speech.
- `TokensKept`: dropped lines and cut loops leave every token and make no new neighbours.
- `SlotsPaced`: slots keep their distance, and lie behind the flood waits that were noted.
- `OneVerifiedServer`: one server, verified before it gets a file, none after `Close`.

Some of them grant the code what it does not promise, and name it:

- `SavedIsWhole` excuses targets that somebody edited, and those that a kill leaves in
  the middle of a download without a cache: the next run takes the partial file for
  saved (`media_download.go:175`).
- `UpdateIsRebuild` is about archives that grew since the last rebuild, with no update
  interrupted since: an interrupted one may have appended lines which the next
  appends again, and a rewritten archive that is as long as the manifest remembers
  passes for an extended one.
- `CompleteIsCovered` asks of a walk that an earlier run began only what was posted when
  it began.
- `SlotsPaced` lets a flood wait at the last attempt go unnoted (`client.go:1902`), and a
  call that has its slot keep it.
- `OneVerifiedServer` does not say that a dead server is replaced: it is not, and every
  later request of the run fails.
- `OutcomesShown` asks nothing of an attachment that had no task and whose media got no
  answer: disagreement 4.
- `TokensKept` asks nothing of words that are no tokens: disagreement 5.

Fairness, each where the code schedules it:

- `ChatSync`: a process that runs takes its next step (`WF_vars(Step)`), and each
  command line is given again and again (`WF_vars(Start(o))`): the documentation
  tells the operator to repeat an interrupted command until it is done. Interruptions
  are bounded by `MaxCrashes`, so that "the operator repeats the command and it is not
  killed every time" is the case that is checked.
- `MediaPipeline`: goroutines are scheduled; transfers, requests and transcriptions have
  timeouts. Nobody has to begin a call. `sync.RWMutex` lets a waiting reader in when
  a writer leaves, and its writers' mutex serves those who wait in turn.
- `MCCommands`: `sync` as in `ChatSync`; a run that began goes on (`WF`), and `interview-topic-update --apply` is
  given again whenever no run is under way (`SF`). Interruptions are bounded.

## Disagreements between code and documentation

1. `late_refresh`. With `--refresh-from` the walk has no lower id (`sync.go:117`) and
   stops at the date, and the boundary then moves to the newest id. If the last run
   was before the date, messages in between are never read. README.md:564 promises
   the contrary.
2. `moving_dialogs`. Folder 0 and then folder 1 are read by the newest message of each
   dialog. A dialog that gets a message in between moves behind the reading position:
   it is in no page, and neither the report nor the checkpoint knows. The next run
   scans it as a new dialog, from its own first day only.
3. `media_interrupted`. A daily scan that is interrupted while its last transcripts are
   awaited drains the pipeline, shows what was left as an error and returns success
   (`media_pipeline.go:394`); docs/collection-integrity.md:5 says an interruption returns
   an error.
4. `silent_twin`. Of several attachments with one transcript key one gets the download;
   if it fails, that one alone says so, and the others are reported with neither
   transcript nor error (`media_download.go:336-338`, 395-404), of which
   docs/catch-up.md:131 asks for one. The theorem `OnlyTwinsUnexplained` says that there
   is no other way to lose an attachment.
5. `missed_loop`. README.md:403 makes two promises about a long text: each loop is cut to
   its first block, and the rest of the text is kept. The run checks that one of them
   is kept (`CutOrKept`), and shows a text where both are broken. Of all loops the one with
   the most repetitions is judged (`whisper_server.go:1095`): a short one that spans too few
   tokens hides a longer one that meets both thresholds. And only tokens count: of two
   last lines in another script the second is dropped as a repetition
   (`whisper_server.go:1166`). Behind a loop such words go too, since the cut ends at the
   next token or the end of the text (`whisper_server.go:1188-1191`).

Five more were shown by runs of their own earlier; the passing runs exclude each
by the restriction named:

6. `--all --reset` truncates the stream before the state that describes the old one is
   replaced (`sync.go:129`). Interrupted there, `--all` resumes the old backfill over the
   truncated stream and marks it complete (`ResetFirst`, `ResetEarly`).
7. A full run leaves the journal of an interrupted incremental range in place; the
   state it was based on is gone, and every later plain run refuses it
   (`incremental.go:84`; `ResetFirst`).
8. A full run records a boundary above the top id it stores, if a message arrives
   during the walk (`sync.go:207`, 257). The next plain run takes the checkpoint for
   stale and appends the history again. `NoRepeats` is run without full walks.
9. Sizes are journaled before the marker is set (`incremental.go:255`). Another chat
   may append to the merged file in between; the interrupted chat then marks the
   file and refuses it on every run. No property of `merged` says that it finishes.
10. `daily` without a date publishes today's report; the next catch-up takes it for a
   finished day and starts after it (`main.go:1044`; `WholeDays`).

## Proofs

A theorem holds for every value of the constants that the named assumptions allow: any
number of messages, versions, chats, days, tasks, processes, kills and lost answers. An
invariant of the runs is seldom inductive; each proof module begins with the strengthening
that is, then has one lemma per action (or per action and conjunct), and combines
them at its end. The strengthenings were checked by TLC on the instances of the runs
before they were proved.

The parts in `MCCommands` and `MCOutputs` share no variable. Whatever part a behaviour of
these runs has chosen, its variables follow the specification of that part
(`PublishSpec`, `RecapSpec`, ...), which is what the theorems are about.

### Chat sync

`ChatSync_proofs`, without any hypothesis:

- `TypeCorrect`. The types are not inductive alone: replaying a publication cuts an
  output at the journaled size, which is a sequence only if the output is at least that
  long. `SizesOK` carries the result of `Verify` to the copies.
- `JournalIsDurable`. While a run works on a range its copy of the journal is the one
  on disk (`JournalInMemory`), and what it is about to promise is staged
  (`StageDurable`). `IInv` is the conjunction of the five.

`ChatArchive_proofs`, about runs without `--all` and `--reset` (`Incremental`; the command
lines of the run `incremental`). Each invariant contains the one before it:

- `PublicationInv` says where an interrupted publication stands: marker and sizes are as
  the phase of the journal asks (`Posted`, `Marked`), the journal continues the state
  (`Continues`), the running process is where its memory says (`Located`), and each
  output holds the accounted records and then a beginning of the stage
  (`Accounted`, `Copied`). From it: `JournalContinues`, `MarkerCoversPublication`, and
  `ResumedRunsGoOn`: `Refuse` is never taken, so that repeating the command is enough.
- `RecordInv` adds what is compared before a message is staged: stage and log hold a
  message again only with other content (`StageSound`, `LogSound`). From it:
  `NothingRepeated`.
- `BoundaryInv` adds what a walk has read: stage and stream together have everything of
  the range from the offset up (`RangeRead`), the accounted records everything up to the
  boundary (`BoundaryStored`), and no range begins past the first unsynced id
  (`StartsBelow`). From it: `BoundaryVerified` and `AtomicArchiveImplemented`, both for
  reconciliations that begin at or below the first unsynced id (`Reconciling`). A later
  one is disagreement 1, where both are false. `PlainRunsImplementArchive` assumes this
  of the command lines instead of the behaviour, and has no other hypothesis; the run
  `incremental` satisfies it.

In the same module, about full, reset, resumed and plain runs in any order. Two
hypotheses are those of the run `backfill`: `--reset` begins a new archive, as
README.md:564 asks (`EarlyResets`; otherwise disagreement 6), and no run reconciles
(`RoutineOnly`; otherwise the corner of a killed `--reset`, below).

- `CheckpointIsDurable`: all that the state claims lies in the synced part of the
  stream. It is the core of the others: after a power loss nothing else is certain.
- `BackfillIsCovered`, `FullRunsVerified`, `FullRunsComplete`.
- The invariant `CoverInv` relates each place where a claim is made to what has been read
  by then: ids a checkpoint names were seen (`Seen`), a full walk has stored what it
  passed (`Walked`), an incremental range likewise (`Ranged`), state, journal and stage fit the
  place the run is at (`Placed`, `Copying`), and only a full run has an active backfill
  (`Mechanisms`).

### Two chats with one merged output

The invariants above are about files that nobody else writes. `SharedOutput_proofs` states
one for a chat with a merged output in which others have committed `others` records
(`AmongInv`), and proves three things of it:

- The chat's own steps keep it (`OwnStep`).
- They keep a promise to the others (`Guarantee`): what is committed stays where it is,
  what is added is the chat's own, and while another chat has the file, by its lock or
  by its marker, nothing of it changes.
- It survives any step that keeps such a promise (`RelyStep`, from `Rely`).

`SharedMerged_proofs` takes the module twice, each time with the other chat's committed
records for `others`, and shows that the promise of one chat is what the other relies on
(`RelyOnA`, `RelyOnB`). The parts of the invariant that a shared file needs:

- `Accounted`: an output begins with what is accounted for, synced; past it there is at
  most the beginning of one stage, under the marker of the chat that publishes.
- `Recorded`: what was committed since a chat planned its sizes is another chat's, so
  that the journaled size is right or `Verify` refuses it.
- `Placed`: the records that a state accounts for have their places in the merged file,
  which is what replaces "the file begins with the records of the state".

From both invariants: `CommittedInMergedTheorem`, `ReadableMergedTheorem`, and
`CommittedPlacesStayTheorem`, an action property: no step moves or replaces a committed
record. The one hypothesis is `NoFullWalk`: no run is given `--all` or `--reset`, which
truncate the merged file or append the history to it again, whatever the other chat's
state counts on. Plain runs and `--refresh-from` are allowed, in any order; the run
`merged` satisfies it.

### Daily catch-up

`DailyInv` has the order of arrival (`LogInOrder`), what the checkpoint verifies
(`CheckpointInv`), the plan (`PlanInv`) and the walk under way (`ScanInv`).

- `DaysInOrder` (an action property) and `CheckpointIsHonest`, without hypothesis.
- `ReportsAreWhole`, where nothing is posted or archived while dialogs are listed
  (`CalmListing`; otherwise disagreement 2) and all days are published when they are over
  (`WholeDaysOnly`; otherwise disagreement 10). The run `daily` satisfies both.
  `WholeInv` adds that days of the plan are over (`DaysOver`), that a listing has every
  dialog with a wanted message (`ListingInv`), and that scanned dialogs have given theirs
  (`FoundInv`). The step that carries it is `SkipDialog`: a head the checkpoint knows
  hides nothing, because the checkpoint is honest.

### Downloads and transcription

`PipelineInvariance` proves `ShownInv`, and the five theorems (`GateKeeps`, `TasksEnd`,
`ClaimsAccounted`, `OnlyTwinsUnexplained`, `NoInterruptionEmitted`) follow from it.

- `CoordinatorInv`: transfers and requests exclude each other and hold the gate
  (`Exclusion`), a wave is what was reserved for it (`Waves`), and each task that is not
  over belongs to one caller (`Owned`). It speaks of any number of callers; the walk is
  one of them.
- `WorkInv`: what the walk does fits what its tasks do (`Phases`, `OfPage`,
  `Whereabouts`); of the attachments with one key at most one is on the way
  (`OneForKey`), exactly while the key is claimed (`ClaimsKept`); temporary files belong
  to work that goes on (`TempsKept`); an interrupted transcript means that the
  walk was cancelled or ends (`InterruptionEnds`, `Uninterrupted`).
- `KeptExplained` and `PageExplained`: an attachment that shows nothing yet still has its
  result coming, or shares its key with one whose download failed.

### Commands, session and outputs

| Theorem | Invariant and what it adds |
|---|---|
| `SendsOnce` | `SavedInv`: nothing was sent in the places before the request |
| `PublishedOnce`, `ReceiptsOrdered` | `PublishInv`: a post that was tried has a receipt (`TriedHasReceipt`), receipts are a beginning of the manifest, and a run is behind what it confirmed (`RunPlaced`, `PassedConfirmed`) |
| `ReplacedOnce` | `ReplaceInv`: a message that was asked for has a pending receipt (`AskedPending`), and items a run has checked and still has to do are settled where a receipt is pending (`EditPlaced`) |
| `VerifiedUnanswered`, `FolderNotReverted` | `OrganizeInv`: what is verified lies behind the run, and what is about to be written was read after the last change |
| `ServerVerified` | `ServerInv`: the holder of the mutex knows the process that runs |
| `CallsPaced` | `PacingInv`: every slot and every wait in use lies a spacing below the next free slot |
| `SpeechCovered` | `TranscriptInv`: the scan from the begin has left no speech behind and the one from the end none before it, so that bounds put together from overlapping windows are those of the speech |
| `TokensAreKept` | `TextInv`: a gap stands behind each token and before the first, the text has the tokens of the decoded one, and no pair of neighbours it did not have. A cut takes whole copies of a block of which one stays, and a dropped line has the tokens of the one before |
| `BundleIsOneReading`, `NothingSkipped`, `PreparedKept` | `RecapInv`: cached files and the bundle under way are as good as a new reading (`GoodState`, `PrepareInv`) |
| `SavedFilesWhole` | `CacheInv`: what each process has checked of its source, its links and the metadata at each of its steps (`JobKept`), whatever the others do in between; and what is reported (`Honest`) |
| `UpdatesRebuild` | `ViewInv`: a manifest that nothing has spoilt stands for the first lines of the archive, and so do the files, except those that the update at hand has written (`Remembered`); a line that is no revision is the first of its message (`FirstOfItsMessage`). Lines that are no revisions only add to what is shown (`LatestGrows`), and the newest of some and of more are found from the newest of the former (`NewestOfNewest`): that is why the update may forget all but the limit |
| `OneAccount`, `CompleteMeansCovered` | `AccountInv`: rows of the index describe their archives (`RowsHonest`), during a run too (`SyncInv`), and a chat that was read past a backfill has one that is complete (`TailsComplete`) |

### Assumptions on constants

Apart from types and bounds, the proofs use:

- `UniquePosts` (interview_topic_publish.go:99), `UniqueItems`
  (interview_topic_update.go:152, interview_topic_replace_video.go:57), `UniquePeers`
  (account_organize.go:133) and `UniqueAttachments` (media_download.go:286): the code
  refuses a manifest or skips an entry that says the same thing twice.
- `SeparateManifests`: a post is in two manifests only where the server remembers random
  ids. The code does not see to it: a journal belongs to its manifest, and the owner
  keeps them apart.
- `UniqueTargets` and `SeparateTargets`, told above at `MediaCache`.

### What is only model-checked

Each other safety invariant of a passing run is stated by a theorem. What is left to TLC:

- `OutcomesShown`; the theorem `OnlyTwinsUnexplained` is about the same records.
- Liveness (`PendingIsFinished`, `CatchesUp`, `WalkReturns`, `UpdateConverges`) and the
  absence of deadlocks, which are out of the prover's reach.
- The disagreements, which are about single behaviours of the instances above.

## Not modelled

- Compact view: one pass over an archive that prints; its refusal of an unfinished
  publication is that of `AgentView`.
- Configuration parsing, proxies, the password prompt, rich messages, rendering, timings
  and the ASR benchmark: input and output without a protocol of their own.
- The conversion of audio, language detection and the transcription backends other than
  the server: external programs with one answer.
- Two catch-ups at once (`main.go:1115`): the plan is read before the lock is taken.
  docs/catch-up.md forbids the second one.
- Reports are renamed without being synced while the checkpoint after them is synced
  (`main.go:1918`); `DailyCatchup` has kills and no power losses. `ChatSync` has both.
- A killed `--reset` run followed by a reconciliation (`incremental.go:118`).
- Previews with a limit, and walks over a range with an end.

## What could be proved next

1. `CommittedInMerged` where one chat is read by a full walk while the other is not: the
   walk repeats its own records in the merged file, so that they have several places.
2. `BoundaryCovered` for full runs mixed with reconciliations, without the corner of a
   killed `--reset`.
