---------------------------- MODULE DailyCatchup ----------------------------
(***************************************************************************)
(* `daily-catchup` and `daily`: the plan of the missing days and the order *)
(* of publications in cmd/telegram-harvest/main.go, the scan of all        *)
(* dialogs in internal/mtproto/client.go, and the checkpoint of dialog     *)
(* heads in internal/harvest/daily_checkpoint.go.                          *)
(*                                                                         *)
(* A run plans the days that have no report, lists the dialogs of the main *)
(* and the archived folder, reads the history of each dialog as far as the *)
(* checkpoint asks for, and publishes: records and report of each day, the *)
(* merged report of the run, then the new checkpoint.  Runs follow one     *)
(* another (docs/catch-up.md, step 3); Telegram goes on meanwhile.         *)
(*                                                                         *)
(* A message is its place in `log`, the order in which Telegram received   *)
(* it: message ids grow with time, and so do the dates dialogs are sorted  *)
(* by.  Every message is one the report wants.                             *)
(***************************************************************************)
EXTENDS Integers, Sequences, FiniteSets

CONSTANTS
    NumDialogs,   \* the dialogs of the account, numbered in the order of their keys
    MaxDay,       \* bound: the last day
    MaxMessages,  \* bound: messages posted
    MaxTroubles,  \* bound: messages deleted, dialogs that cannot be read, runs interrupted
    DialogPage,   \* dialogs in a page, at most (defaultDialogBatchSize)
    PageSize,     \* messages in a history page, at most (BatchSize, 100)
    Options,      \* the command lines the operator may use
    CalmListing   \* nothing is posted or archived while dialogs are listed

Dialogs  == 1..NumDialogs
Days     == 1..MaxDay
Messages == 1..MaxMessages

\* The command, --from (0: not given), --date as days back from today, and
\* --dialog-limit (0: all dialogs).
OptionSet == [cmd : {"catchup", "daily"}, from : 0..MaxDay, back : 0..MaxDay,
              limit : 0..NumDialogs]

ASSUME DailyBounds ==
    /\ NumDialogs \in Nat \ {0} /\ MaxDay \in Nat \ {0} /\ MaxMessages \in Nat
    /\ MaxTroubles \in Nat
    /\ DialogPage \in Nat \ {0} /\ PageSize \in Nat \ {0}
    /\ CalmListing \in BOOLEAN
ASSUME DailyOptions == Options \subseteq OptionSet

NoOpt == [cmd |-> "daily", from |-> 0, back |-> 0, limit |-> 0]

\* DailyDialogHead and DailyDialogCheckpoint; through = 0 is a missing file.
Heads        == [top : Messages, verified : 0..MaxMessages, full : BOOLEAN]
NoCheckpoint == [through |-> 0, scope |-> 0, heads |-> <<>>]

\* The walk through the history of one dialog: the offset of the next page
\* and what HistoryStats observed.
Walks  == [offset : 0..MaxMessages, observed : 0..MaxMessages, scanned : 0..MaxMessages]
NoWalk == [offset |-> 0, observed |-> 0, scanned |-> 0]

\* The position in the list of dialogs.
Positions == [folder : {0, 1}, offset : 0..MaxMessages]
NoListing == [folder |-> 0, offset |-> 0]
NoneSeen  == [d \in Dialogs |-> 0]

VARIABLES
    \* Telegram
    log,         \* all messages: dialog, day, and whether it still exists
    folder,      \* the folder of each dialog: 0 main, 1 archived
    today,
    \* files
    raw,         \* .state/daily/jsonl: published day -> records
    report,      \* reports/daily: published day -> records
    latest,      \* 00-latest-catchup.md: the days in it
    checkpoint,  \* dialog-checkpoint.json
    \* the process that runs
    pc, opt,
    jobs,        \* the days to publish
    dates,       \* the days of the merged report
    trusted,     \* DailyDialogCheckpointDecision.Enabled
    listing,     \* folder and offset of the next page of dialogs
    seen,        \* dialog -> its top message when it was listed; 0: not listed
    todo,        \* dialogs not scanned yet
    walk,        \* the history of the first of them
    heads,       \* DialogHeads of the dialogs scanned
    found,       \* records collected
    failed,      \* DialogErrors is not empty
    pending,     \* jobs not published yet
    spent        \* troubles so far

telegram == <<log, folder, today>>
files    == <<raw, report, latest, checkpoint>>
plan     == <<opt, jobs, dates, trusted>>
scan     == <<listing, seen, todo, walk, heads, found, failed>>
memory   == <<pc, plan, scan, pending>>
vars     == <<telegram, files, memory, spent>>

Newest(S) == IF S = {} THEN 0 ELSE CHOOSE m \in S : \A n \in S : n <= m
Oldest(S) == CHOOSE m \in S : \A n \in S : m <= n
Larger(a, b) == IF a < b THEN b ELSE a
Put(f, x, y) == [z \in DOMAIN f \cup {x} |-> IF z = x THEN y ELSE f[z]]

-----------------------------------------------------------------------------
(* Telegram *)

Live(d) == {m \in DOMAIN log : log[m].dialog = d /\ log[m].live}
Top(d)  == Newest(Live(d))

\* Telegram is looked at while the process lists and scans, so a change in the
\* other phases of a run is left until the run has ended; folders matter only
\* to the list.
Watched == /\ pc \in {"idle", "listing", "dialogs", "history"}
           /\ CalmListing => pc # "listing"

\* A message posted to an archived dialog brings it back to the main folder.
Post(d) ==
    /\ Watched
    /\ Len(log) < MaxMessages
    /\ log' = Append(log, [dialog |-> d, day |-> today, live |-> TRUE])
    /\ folder' = [folder EXCEPT ![d] = 0]
    /\ UNCHANGED <<today, files, memory, spent>>

Delete(m) ==
    /\ Watched
    /\ log[m].live
    /\ spent < MaxTroubles
    /\ log' = [log EXCEPT ![m].live = FALSE]
    /\ spent' = spent + 1
    /\ UNCHANGED <<folder, today, files, memory>>

Archive(d) ==
    /\ Watched /\ pc \in {"idle", "listing"}
    /\ folder[d] = 0
    /\ folder' = [folder EXCEPT ![d] = 1]
    /\ UNCHANGED <<log, today, files, memory, spent>>

Midnight ==
    /\ Watched
    /\ today < MaxDay
    /\ today' = today + 1
    /\ UNCHANGED <<log, folder, files, memory, spent>>

-----------------------------------------------------------------------------
(* The plan *)

RangeStart == Oldest(jobs)
RangeEnd   == Newest(jobs) + 1
Through    == Newest(jobs)

\* EvaluateDailyDialogCheckpoint on the heads it loads.
HeadsValid(hs) ==
    \A d \in DOMAIN hs : /\ hs[d].verified <= hs[d].top
                         /\ hs[d].full => hs[d].verified = hs[d].top

Contiguous(start) == checkpoint.through + 1 = start

Trusts(o, start) ==
    /\ o.from = 0
    /\ checkpoint # NoCheckpoint
    /\ checkpoint.scope = o.limit
    /\ Contiguous(start)
    /\ HeadsValid(checkpoint.heads)

LatestReport == Newest(DOMAIN report \cap 1..(today - 1))
FirstDay(o)  == IF o.from # 0 THEN o.from ELSE LatestReport + 1
Dates(o)     == FirstDay(o)..(today - 1)
Missing(o)   == Dates(o) \ DOMAIN report

\* Starts the scan of the days js.  The process keeps the checkpoint it loads:
\* no one else replaces the file while it runs.
Scan(o, js, ds, trust) ==
    /\ pc = "idle"
    /\ pc' = "listing"
    /\ opt' = o
    /\ jobs' = js
    /\ dates' = ds
    /\ trusted' = trust
    /\ pending' = js
    /\ UNCHANGED <<telegram, files, scan, spent>>

\* Without --from there must be an earlier report.
Catchup(o) ==
    /\ o.cmd = "catchup"
    /\ o.from # 0 \/ LatestReport # 0
    /\ Missing(o) # {}
    /\ Scan(o, Missing(o), Dates(o), Trusts(o, Oldest(Missing(o))))

\* No day is missing: only the merged report of the days asked for is rebuilt.
RebuildLatest(o) ==
    /\ pc = "idle"
    /\ o.cmd = "catchup" /\ o.from # 0
    /\ Dates(o) # {} /\ Missing(o) = {}
    /\ latest' = Dates(o)
    /\ UNCHANGED <<telegram, raw, report, checkpoint, memory, spent>>

\* `daily`: one day, today by default, with or without a report.
Daily(o) ==
    /\ o.cmd = "daily"
    /\ o.back < today
    /\ Scan(o, {today - o.back}, {}, FALSE)

Begin(o) == Catchup(o) \/ RebuildLatest(o) \/ Daily(o)

-----------------------------------------------------------------------------
(* The list of dialogs *)

\* Pages go from the dialog with the newest message to the oldest; the offset
\* is the last message of the page before.  A page may be short.
Unlisted ==
    {d \in Dialogs : /\ folder[d] = listing.folder /\ Top(d) # 0
                     /\ listing.offset = 0 \/ Top(d) < listing.offset}

Listings == {P \in SUBSET Unlisted : /\ P # {} /\ Cardinality(P) <= DialogPage
                                     /\ \A d \in P, e \in Unlisted \ P : Top(d) > Top(e)}

ListDialogs ==
    /\ pc = "listing"
    /\ \E P \in Listings :
          /\ seen' = [d \in Dialogs |-> IF d \in P THEN Top(d) ELSE seen[d]]
          /\ listing' = [listing EXCEPT !.offset = Oldest({Top(d) : d \in P})]
    /\ UNCHANGED <<telegram, files, pc, plan, todo, walk, heads, found, failed, pending, spent>>

\* An empty page ends the main folder.
NextFolder ==
    /\ pc = "listing" /\ listing.folder = 0
    /\ Unlisted = {}
    /\ listing' = [folder |-> 1, offset |-> 0]
    /\ UNCHANGED <<telegram, files, pc, plan, seen, todo, walk, heads, found, failed, pending, spent>>

Listed     == {d \in Dialogs : seen[d] # 0}
Within(o)  == {d \in Listed : o.limit = 0 \/ Cardinality({e \in Listed : e <= d}) <= o.limit}

\* An empty page ends the archived folder.  Dialogs beyond an explicit limit
\* are left out, and the result is then incomplete.
EndListing ==
    /\ pc = "listing" /\ listing.folder = 1
    /\ Unlisted = {}
    /\ pc' = "dialogs"
    /\ todo' = Within(opt)
    /\ failed' = (Within(opt) # Listed)
    /\ listing' = NoListing
    /\ UNCHANGED <<telegram, files, plan, seen, walk, heads, found, pending, spent>>

-----------------------------------------------------------------------------
(* The scan of a dialog *)

Dialog == Oldest(todo)
Known  == checkpoint.heads[Dialog]

\* dailyDialogHead: what the list of dialogs says of a dialog.
ListedHead ==
    LET top  == seen[Dialog]
        full == log[top].day < RangeEnd
    IN  [top |-> top, verified |-> IF full THEN top ELSE 0, full |-> full]

\* planDailyDialogScan
Unchanged == /\ trusted /\ Dialog \in DOMAIN checkpoint.heads
             /\ Known.full /\ Known.top = seen[Dialog]
BeforeRange == ~trusted /\ log[seen[Dialog]].day < RangeStart

MinID ==
    IF /\ trusted /\ Dialog \in DOMAIN checkpoint.heads
       /\ Known.verified > 0 /\ seen[Dialog] > Known.verified
    THEN Known.verified ELSE 0

NextDialog(head) ==
    /\ heads' = Put(heads, Dialog, head)
    /\ todo' = todo \ {Dialog}
    /\ walk' = NoWalk
    /\ pc' = "dialogs"

SkipDialog ==
    /\ pc = "dialogs" /\ todo # {}
    /\ Unchanged \/ BeforeRange
    /\ NextDialog(ListedHead)
    /\ UNCHANGED <<telegram, files, plan, listing, seen, found, failed, pending, spent>>

OpenDialog ==
    /\ pc = "dialogs" /\ todo # {}
    /\ ~Unchanged /\ ~BeforeRange
    /\ pc' = "history"
    /\ walk' = [NoWalk EXCEPT !.scanned = MinID]
    /\ UNCHANGED <<telegram, files, plan, listing, seen, todo, heads, found, failed, pending, spent>>

\* A dialog that cannot be resolved or read: its records are dropped, the
\* others are scanned, and the result is incomplete.
FailDialog ==
    /\ pc \in {"dialogs", "history"} /\ todo # {}
    /\ pc = "dialogs" => ~Unchanged /\ ~BeforeRange
    /\ spent < MaxTroubles
    /\ spent' = spent + 1
    /\ failed' = TRUE
    /\ found' = {m \in found : log[m].dialog # Dialog}
    /\ NextDialog(ListedHead)
    /\ UNCHANGED <<telegram, files, plan, listing, seen, pending>>

\* Pages of messages below the offset, newest first.  Telegram may or may not
\* apply MinID.  A page may be short, but not if the answer is exact: then it
\* ends early only where the history ends.
Answers ==
    {a \in [msgs : SUBSET Live(Dialog), exact : BOOLEAN] :
        \E low \in {0, MinID} :
            LET left == {m \in Live(Dialog) : m > low /\ (walk.offset = 0 \/ m < walk.offset)}
            IN  /\ a.msgs \subseteq left
                /\ a.msgs = {} => left = {}
                /\ Cardinality(a.msgs) <= PageSize
                /\ \A m \in a.msgs, n \in left \ a.msgs : m > n
                /\ a.exact => a.msgs = left \/ Cardinality(a.msgs) = PageSize}

\* Mutant: an inexact short page is proof enough.
PageCompleteInexact(a) ==
    /\ trusted /\ MinID > 0 /\ walk.offset = 0
    /\ seen[Dialog] > MinID
    /\ \A m \in a.msgs : m > MinID
    /\ Newest(a.msgs) = seen[Dialog]
    /\ Cardinality(a.msgs) < PageSize

\* dailyCheckpointPageComplete: the first page alone is the whole range.
PageComplete(a) ==
    /\ trusted /\ MinID > 0 /\ walk.offset = 0
    /\ seen[Dialog] > MinID
    /\ \A m \in a.msgs : m > MinID
    /\ Newest(a.msgs) = seen[Dialog]
    /\ a.exact /\ Cardinality(a.msgs) < PageSize

InRange(a) == {m \in a.msgs : m > MinID /\ log[m].day \in jobs}

ReachedStart(a) == \E m \in a.msgs : m > MinID /\ log[m].day < RangeStart
ReachedMinID(a) == \E m \in a.msgs : m <= MinID
Complete(a) == a.msgs = {} \/ ReachedStart(a) \/ ReachedMinID(a) \/ PageComplete(a)

\* Mutant: messages of a day that is not over count as scanned.
ObservePastEnd(a) ==
    [walk EXCEPT !.observed = Larger(@, Newest(a.msgs)),
                 !.scanned = Larger(@, Newest(a.msgs))]

\* observeDailyHistoryMessage, for each message of a page.
Observe(a) ==
    [walk EXCEPT !.observed = Larger(@, Newest(a.msgs)),
                 !.scanned = Larger(@, Newest({m \in a.msgs : log[m].day < RangeEnd}))]

\* applyDailyHistoryBoundary: what a complete scan proves.
Boundary(w) ==
    LET top      == Larger(seen[Dialog], w.observed)
        full     == w.observed = top /\ log[top].day < RangeEnd
        reached  == IF full THEN top ELSE Larger(MinID, w.scanned)
    IN  IF w.observed < seen[Dialog]
        THEN [top |-> top, verified |-> 0, full |-> FALSE]
        ELSE [top |-> Larger(top, reached),
              verified |-> Larger(ListedHead.verified, reached), full |-> full]

ReadHistory ==
    /\ pc = "history"
    /\ \E a \in Answers :
          /\ found' = found \cup InRange(a)
          /\ IF Complete(a)
             THEN NextDialog(Boundary(Observe(a)))
             ELSE /\ walk' = [Observe(a) EXCEPT !.offset = Oldest(a.msgs)]
                  /\ UNCHANGED <<pc, heads, todo>>
    /\ UNCHANGED <<telegram, files, plan, listing, seen, failed, pending, spent>>

-----------------------------------------------------------------------------
(* Publication *)

Quit ==
    /\ pc' = "idle" /\ opt' = NoOpt /\ jobs' = {} /\ dates' = {} /\ trusted' = FALSE
    /\ listing' = NoListing /\ seen' = NoneSeen /\ todo' = {} /\ walk' = NoWalk
    /\ heads' = <<>> /\ found' = {} /\ failed' = FALSE /\ pending' = {}

\* An incomplete range is an error: nothing is published.
Abandon ==
    /\ pc = "dialogs" /\ todo = {} /\ failed
    /\ Quit
    /\ UNCHANGED <<telegram, files, spent>>

EndScan ==
    /\ pc = "dialogs" /\ todo = {} /\ ~failed
    /\ pc' = "records"
    /\ UNCHANGED <<telegram, files, plan, scan, pending, spent>>

LastDay    == Newest(pending)   \* mutant: the newest day is published first
Day        == Oldest(pending)
DayRecords == {m \in found : log[m].day = Day}

PublishRecords ==
    /\ pc = "records"
    /\ raw' = Put(raw, Day, DayRecords)
    /\ pc' = "report"
    /\ UNCHANGED <<telegram, report, latest, checkpoint, plan, scan, pending, spent>>

PublishReport ==
    /\ pc = "report"
    /\ report' = Put(report, Day, DayRecords)
    /\ IF pending # {Day}
       THEN pc' = "records" /\ pending' = pending \ {Day} /\ UNCHANGED <<plan, scan>>
       ELSE IF opt.cmd = "catchup"
       THEN pc' = "latest" /\ pending' = {} /\ UNCHANGED <<plan, scan>>
       ELSE Quit
    /\ UNCHANGED <<telegram, raw, latest, checkpoint, spent>>

PublishLatest ==
    /\ pc = "latest"
    /\ latest' = dates
    /\ pc' = "checkpoint"
    /\ UNCHANGED <<telegram, raw, report, checkpoint, plan, scan, pending, spent>>

SaveCheckpoint ==
    /\ pc = "checkpoint"
    /\ checkpoint' = [through |-> Through, scope |-> opt.limit, heads |-> heads]
    /\ Quit
    /\ UNCHANGED <<telegram, raw, report, latest, spent>>

\* An error, a cancellation or a kill.  Each file is replaced by a rename.
Interrupt ==
    /\ pc # "idle"
    /\ spent < MaxTroubles
    /\ spent' = spent + 1
    /\ Quit
    /\ UNCHANGED <<telegram, files>>

-----------------------------------------------------------------------------
(* Specification *)

Init ==
    /\ log = <<>> /\ folder = [d \in Dialogs |-> 0] /\ today = 1
    /\ raw = <<>> /\ report = <<>> /\ latest = {} /\ checkpoint = NoCheckpoint
    /\ pc = "idle" /\ opt = NoOpt /\ jobs = {} /\ dates = {} /\ trusted = FALSE
    /\ listing = NoListing /\ seen = NoneSeen /\ todo = {} /\ walk = NoWalk
    /\ heads = <<>> /\ found = {} /\ failed = FALSE /\ pending = {}
    /\ spent = 0

Step ==
    \/ ListDialogs \/ NextFolder \/ EndListing
    \/ SkipDialog \/ OpenDialog \/ ReadHistory
    \/ Abandon \/ EndScan
    \/ PublishRecords \/ PublishReport \/ PublishLatest \/ SaveCheckpoint

Telegram ==
    \/ \E d \in Dialogs : Post(d) \/ Archive(d)
    \/ \E m \in DOMAIN log : Delete(m)
    \/ Midnight

Next ==
    \/ Telegram
    \/ \E o \in Options : Begin(o)
    \/ Step
    \/ FailDialog
    \/ Interrupt

Spec == Init /\ [][Next]_vars

-----------------------------------------------------------------------------
(* Properties *)

\* Types and ranges of the variables.
TypeOK ==
    /\ log \in Seq([dialog : Dialogs, day : Days, live : BOOLEAN])
    /\ Len(log) <= MaxMessages
    /\ folder \in [Dialogs -> {0, 1}]
    /\ today \in Days
    /\ DOMAIN raw \subseteq Days /\ \A D \in DOMAIN raw : raw[D] \subseteq DOMAIN log
    /\ DOMAIN report \subseteq DOMAIN raw
    /\ \A D \in DOMAIN report : report[D] \subseteq DOMAIN log
    /\ latest \subseteq Days
    /\ checkpoint.through \in 0..MaxDay /\ checkpoint.scope \in 0..NumDialogs
    /\ DOMAIN checkpoint.heads \subseteq Dialogs
    /\ \A d \in DOMAIN checkpoint.heads : checkpoint.heads[d] \in Heads
    /\ pc \in {"idle", "listing", "dialogs", "history", "records", "report",
               "latest", "checkpoint"}
    /\ opt \in OptionSet
    /\ jobs \subseteq Days /\ dates \subseteq Days /\ pending \subseteq jobs
    /\ trusted \in BOOLEAN /\ failed \in BOOLEAN
    /\ listing \in Positions
    /\ seen \in [Dialogs -> 0..MaxMessages]
    /\ todo \subseteq Dialogs
    /\ walk \in Walks
    /\ DOMAIN heads \subseteq Dialogs /\ \A d \in DOMAIN heads : heads[d] \in Heads
    /\ found \subseteq DOMAIN log
    /\ spent \in 0..MaxTroubles

\* The report of a day that is over holds every message of that day, and only
\* those, except what is deleted from Telegram: neither a dialog skipped or
\* bounded by the checkpoint nor a page taken for the last one loses a message.
ReportsComplete ==
    \A D \in DOMAIN report : D < today =>
        \A m \in DOMAIN log : log[m].live => (m \in report[D] <=> log[m].day = D)

\* The checkpoint is one the next run accepts, and behind the reports: what it
\* calls verified in a dialog was sent by the end of its last day, and a head
\* it calls fully verified has no later message below it.
CheckpointHonest ==
    checkpoint # NoCheckpoint =>
        /\ HeadsValid(checkpoint.heads)
        /\ checkpoint.through \in DOMAIN report
        /\ \E D \in latest : D >= checkpoint.through
        /\ \A d \in DOMAIN checkpoint.heads : \A m \in Live(d) :
              LET h == checkpoint.heads[d]
              IN  log[m].day > checkpoint.through =>
                      m > h.verified /\ (h.full => m > h.top)

\* A day's report appears only when all earlier days of the plan have theirs:
\* the next plan starts after the last report, so a day left out behind it
\* would never be planned again.
ReportsInOrder ==
    [][\A D \in DOMAIN report' \ DOMAIN report :
          \A E \in jobs : E < D => E \in DOMAIN report]_vars
=============================================================================
