------------------------------ MODULE ChatSync ------------------------------
(***************************************************************************)
(* `sync` of one chat: internal/harvest/sync.go, incremental.go,           *)
(* publication.go and state.go, over the history walk of                   *)
(* internal/mtproto/client.go.  A run locks its outputs, reads the         *)
(* checkpoint, walks the chat's history newest first, and publishes what   *)
(* it read.  Two mechanisms publish:                                       *)
(*                                                                         *)
(*   - the incremental range (plain and --refresh-from) goes to a private  *)
(*     stage file under a journal and is copied to the outputs only when   *)
(*     the whole range has been read;                                      *)
(*   - the full history (--all, --reset) is appended to the outputs page   *)
(*     by page under a resumable backfill checkpoint.                      *)
(*                                                                         *)
(* A step below ends at each durable effect, so that Crash can fall        *)
(* between any two of them.  A file is the sequence of its records; the    *)
(* record is the unit of loss.  Atomic replacement (writePrivateAtomic) is *)
(* one step; a plain append is not durable until the file is synced.       *)
(***************************************************************************)
EXTENDS Integers, Sequences, FiniteSets

CONSTANTS
    Self,        \* the canonical path of this chat's state file
    NoOwner,     \* no marker, no lock
    Owners,      \* the state files that publish to these outputs
    Paths,       \* the output files
    Outputs,     \* this chat's outputs: its stream, then --merged-out
    MaxID,       \* bound: the newest message id Telegram ever assigns
    MaxVersion,  \* bound: versions of one message (1 + edits)
    PageSize,    \* messages in a history page, at most (BatchSize, 100)
    Options,     \* the command lines the operator may use
    MaxCrashes,  \* bound: interruptions of a run
    MaxResets,   \* bound: runs with --reset
    MaxDeletes   \* bound: messages deleted in Telegram

IDs      == 1..MaxID
MaybeID  == 0..MaxID                  \* 0: none
Versions == 0..MaxVersion             \* 0: not posted yet, or deleted
Stamps   == 0..4                      \* LastSyncAt; 0 is the zero time

\* The flags of `sync`: --all, --reset, --reset-merged and --refresh-from, the
\* date given as the first id of that date (0: no date).
OptionSet == [all : BOOLEAN, reset : BOOLEAN, resetMerged : BOOLEAN, start : MaybeID]

ASSUME OwnersAssumption  == Self \in Owners /\ NoOwner \notin Owners
ASSUME BoundsAssumption  ==
    /\ MaxID \in Nat \ {0} /\ MaxVersion \in Nat \ {0} /\ PageSize \in Nat \ {0}
    /\ MaxCrashes \in Nat /\ MaxResets \in Nat /\ MaxDeletes \in Nat
\* RunSync refuses equal output paths; the flags are checked by the command.
ASSUME OutputsAssumption ==
    /\ Outputs \in Seq(Paths) /\ Len(Outputs) \in 1..2
    /\ \A i, j \in DOMAIN Outputs : Outputs[i] = Outputs[j] => i = j
ASSUME OptionsAssumption ==
    /\ Options \subseteq OptionSet
    /\ \A o \in Options : /\ o.start # 0 => ~o.all /\ ~o.reset
                          /\ o.resetMerged => o.reset

Mine   == {Outputs[i] : i \in DOMAIN Outputs}
Stream == Outputs[1]

Records == [owner : Owners, id : IDs, ver : 1..MaxVersion, rev : BOOLEAN]

\* SyncState: the boundary LastID, Chat.TopMessageID, Records, the backfill
\* (none, active or complete; NextOffsetID, Records, LatestID) and LastSyncAt.
SyncStates == [lastID : MaybeID, top : MaybeID, records : Nat,
               bf : {"none", "active", "complete"}, next : MaybeID,
               count : Nat, latest : MaybeID, stamp : Stamps]

ZeroState == [lastID |-> 0, top |-> 0, records |-> 0, bf |-> "none",
              next |-> 0, count |-> 0, latest |-> 0, stamp |-> 0]

\* incrementalStage.  "ready" and "planned" are Ready without and with Outputs
\* and Next; "absent" is a journal file that does not exist.
Phases == {"absent", "reading", "ready", "planned"}

Journals == [phase : Phases, minID : MaybeID, start : MaybeID,
             base : SyncStates, offset : MaybeID, bytes : Nat,
             last : MaybeID, added : Nat, top : MaybeID,
             sizes : [Paths -> Nat], next : SyncStates]

NoJournal == [phase |-> "absent", minID |-> 0, start |-> 0,
              base |-> ZeroState, offset |-> 0, bytes |-> 0,
              last |-> 0, added |-> 0, top |-> 0,
              sizes |-> [p \in Paths |-> 0], next |-> ZeroState]

\* What a page reports to Progress, and how many records it wrote.
Pages  == [next : MaybeID, done : BOOLEAN, last : MaybeID, count : Nat]
NoPage == [next |-> 0, done |-> FALSE, last |-> 0, count |-> 0]
NoOpt  == [all |-> FALSE, reset |-> FALSE, resetMerged |-> FALSE, start |-> 0]

VARIABLES
    msgs,     \* Telegram: the current version of each message of the chat
    head,     \* Telegram: the newest id ever posted
    state,    \* disk: <name>.state.json
    journal,  \* disk: <name>.state.json.incremental.json
    stage,    \* disk: <name>.state.json.incremental.jsonl
    staged,   \* disk: the synced length of the stage
    out,      \* disk: the output files
    synced,   \* disk: the synced length of each output file
    marker,   \* disk: <output>.harvest-pending, the owner it names
    holder,   \* kernel: who holds the <output>.harvest.lock
    pc,       \* process: where the run is
    opt,      \* process: the options of the run
    st,       \* process: the SyncState in memory
    jn,       \* process: the journal in memory
    top,      \* process: Chat.TopMessageID in the dialog cache
    offset,   \* process: the offset of the next page of a full walk
    page,     \* process: what the page at hand reports to Progress
    pos,      \* process: the index of the output at hand
    spent     \* bounds used: crashes, resets, deletes

telegram == <<msgs, head>>
disk     == <<state, journal, stage, staged, out, synced, marker>>
memory   == <<opt, st, jn, top, offset, page, pos>>
vars     == <<telegram, disk, holder, pc, memory, spent>>

Max2(a, b) == IF a > b THEN a ELSE b
Min2(a, b) == IF a < b THEN a ELSE b
Prefix(s, n) == SubSeq(s, 1, n)

-----------------------------------------------------------------------------
(* Telegram *)

\* TopMessageID in the dialog list: the newest message that still exists.
\* The set is empty or a singleton.
Newest == {id \in IDs : /\ msgs[id] # 0
                        /\ \A other \in IDs : msgs[other] # 0 => other <= id}

Post ==
    /\ head < MaxID
    /\ head' = head + 1
    /\ msgs' = [msgs EXCEPT ![head + 1] = 1]
    /\ UNCHANGED <<disk, holder, pc, memory, spent>>

Edit ==
    /\ \E id \in IDs : /\ msgs[id] \in 1..(MaxVersion - 1)
                       /\ msgs' = [msgs EXCEPT ![id] = @ + 1]
    /\ UNCHANGED <<head, disk, holder, pc, memory, spent>>

Delete ==
    /\ spent.deletes < MaxDeletes
    /\ \E id \in IDs : msgs[id] # 0 /\ msgs' = [msgs EXCEPT ![id] = 0]
    /\ spent' = [spent EXCEPT !.deletes = @ + 1]
    /\ UNCHANGED <<head, disk, holder, pc, memory>>

\* What a history request may answer: the newest messages below the offset, at
\* least one if there is one.  A short page proves nothing.  get_history applies
\* MinID; get_replies need not, and the walk filters again.
Answers(off, minID) ==
    {P \in SUBSET IDs :
       \E lo \in {0, minID} :
         LET window == {id \in IDs : msgs[id] # 0 /\ id > lo /\ (off = 0 \/ id < off)}
         IN  /\ P \subseteq window
             /\ Cardinality(P) <= PageSize
             /\ P = {} <=> window = {}
             /\ \A a \in P, b \in window \ P : b < a}

-----------------------------------------------------------------------------
(* The run: locks, checkpoint, and which mechanism applies *)

Full == opt.all \/ opt.reset

\* A time that no checkpoint on disk carries.
Fresh == CHOOSE t \in Stamps \ {0} :
            t \notin {state.stamp, journal.base.stamp, journal.next.stamp}

\* The repair of a checkpoint left ahead of the chat's head.
Stale(s) == s.lastID > 0 /\ s.top > 0 /\ s.lastID > s.top
\* Mutants: the boundary message is read again; the one after it is skipped.
MinIDInclusive(s) == s.lastID - 1
MinIDPastNext(s)  == s.lastID + 1

IncrementalMinID(s) ==
    IF ~Stale(s) THEN s.lastID
    ELSE IF s.bf = "complete" /\ s.latest > 0 /\ s.latest <= s.top
         THEN s.latest ELSE 0

Acquire ==
    /\ pc = "idle"
    /\ \A p \in Mine : holder[p] = NoOwner
    /\ \A p \in Mine : marker[p] \in {NoOwner, Self}
    /\ holder' = [p \in Paths |-> IF p \in Mine THEN Self ELSE holder[p]]
    /\ pos' = 1
    /\ page' = NoPage

Leave ==
    /\ pc' = "idle"
    /\ holder' = [p \in Paths |-> IF p \in Mine THEN NoOwner ELSE holder[p]]
    /\ opt' = NoOpt /\ st' = ZeroState /\ jn' = NoJournal
    /\ top' = 0 /\ offset' = 0 /\ page' = NoPage /\ pos' = 1

\* The range an incremental run works on: a routine run first takes over an
\* interrupted reconciliation with its lower bound.
Adopts(o)     == journal.phase # "absent" /\ o.start = 0 /\ journal.start # 0
RunStart(o)   == IF Adopts(o) THEN journal.start ELSE o.start
RunMinID(o)   == IF Adopts(o) THEN journal.minID
                 ELSE IF o.start # 0 THEN 0 ELSE IncrementalMinID(state)
NeverCommitted == FALSE   \* mutant: no cleanup after a committed checkpoint
Committed     == journal.phase = "planned" /\ journal.next = state

\* verifyIncrementalOutputs
SizesFit(j)    == \A p \in Mine : /\ Len(out[p]) >= j.sizes[p]
                                  /\ Len(out[p]) <= j.sizes[p] + j.bytes
SizesHold(j)   == \A p \in Mine : Len(out[p]) >= j.sizes[p] + j.bytes

StartIncremental(o) ==
    /\ ~o.all /\ ~o.reset /\ state.bf # "active"
    /\ Acquire
    /\ IF journal.phase = "absent"
       THEN /\ jn' = [NoJournal EXCEPT !.minID = RunMinID(o), !.start = o.start,
                                       !.base = state]
            /\ pc' = "openStage"
       ELSE /\ journal.start = RunStart(o)
            /\ jn' = journal
            /\ IF Committed
               THEN SizesHold(journal) /\ pc' = "unmark"
               ELSE /\ state = journal.base /\ journal.minID = RunMinID(o)
                    /\ pc' = "openStage"
    /\ st' = state
    /\ opt' = [o EXCEPT !.start = RunStart(o)]
    /\ top' \in {0} \cup Newest
    /\ offset' = 0
    /\ UNCHANGED <<telegram, disk, spent>>

StartFull(o) ==
    /\ o.all \/ o.reset
    /\ ~o.reset => state.bf = "active"
    /\ o.reset => spent.resets < MaxResets
    /\ Acquire
    /\ st' = IF ~o.reset THEN state
             ELSE IF o.all THEN [ZeroState EXCEPT !.bf = "active"] ELSE ZeroState
    /\ offset' = IF o.reset THEN 0 ELSE state.next
    /\ spent' = IF o.reset THEN [spent EXCEPT !.resets = @ + 1] ELSE spent
    /\ jn' = NoJournal
    /\ opt' = o
    /\ top' \in {0} \cup Newest
    /\ pc' = "mark"
    /\ UNCHANGED <<telegram, disk>>

Start(o) == StartIncremental(o) \/ StartFull(o)

-----------------------------------------------------------------------------
(* The incremental range: runIncrementalSync *)

\* Mutant: the tail of the stage is kept.
OpenStageUncut ==
    /\ pc = "openStage" /\ jn.bytes <= Len(stage)
    /\ pc' = CASE journal.phase = "absent"  -> "saveJournal"
               [] journal.phase = "reading" -> "read"
               [] journal.phase = "ready"   -> "plan"
               [] journal.phase = "planned" -> "verify"
    /\ UNCHANGED <<telegram, disk, holder, memory, spent>>

\* The uncommitted tail of the stage is discarded; a stage shorter than the
\* journal promises ends the run.
OpenStage ==
    /\ pc = "openStage" /\ jn.bytes <= Len(stage)
    /\ stage' = Prefix(stage, jn.bytes)
    /\ staged' = Min2(staged, jn.bytes)
    /\ pc' = CASE journal.phase = "absent"  -> "saveJournal"
               [] journal.phase = "reading" -> "read"
               [] journal.phase = "ready"   -> "plan"
               [] journal.phase = "planned" -> "verify"
    /\ UNCHANGED <<telegram, state, journal, out, synced, marker, holder,
                   memory, spent>>

SaveJournal ==
    /\ pc = "saveJournal"
    /\ journal' = [jn EXCEPT !.phase = "reading"]
    /\ jn' = journal'
    /\ pc' = "read"
    /\ UNCHANGED <<telegram, state, stage, staged, out, synced, marker, holder,
                   opt, st, top, offset, page, pos, spent>>

\* knownMessageContents: the last stored content of a message, read from the
\* stream by a reconciliation only.
Stored(id) == {i \in DOMAIN out[Stream] : out[Stream][i].id = id}
LastStored(id) == out[Stream][CHOOSE i \in Stored(id) : \A k \in Stored(id) : k <= i]
Known(id)     == jn.start # 0 /\ Stored(id) # {}
AlwaysChanged(id) == FALSE   \* mutant: a reconciliation stores every message again
Unchanged(id) == Known(id) /\ LastStored(id).ver = msgs[id]

RecordOf(id) == [owner |-> Self, id |-> id, ver |-> msgs[id],
                 rev |-> Known(id) \/ (jn.start # 0 /\ id <= st.lastID)]

Encoded(ids) == [i \in DOMAIN ids |-> RecordOf(ids[i])]

\* A page holds the answer's messages of the range, in ascending order; the
\* walk is done on an empty page or on a message at or below either bound, and
\* goes on below the page's lowest message.
InRange(P, minID, start)  == {id \in P : id > minID /\ id >= start}
\* Mutant: a short page is taken for the end of the history.
WalkDoneOnShortPage(P, minID, start) ==
    Cardinality(P) < PageSize \/ \E id \in P : id <= minID \/ id < start
WalkDone(P, minID, start) == P = {} \/ \E id \in P : id <= minID \/ id < start
IsLowest(low, P, off) == IF P = {} THEN low = off
                         ELSE low \in P /\ \A id \in P : low <= id
IsHighest(high, S) == IF S = {} THEN high = 0
                      ELSE high \in S /\ \A id \in S : id <= high
Listing(ids, S) == /\ {ids[i] : i \in DOMAIN ids} = S
                   /\ \A i, k \in DOMAIN ids : i < k => ids[i] < ids[k]

ReportPage(P, off, minID, start, written) ==
    \E low, high \in MaybeID :
       /\ IsLowest(low, P, off) /\ IsHighest(high, InRange(P, minID, start))
       /\ page' = [next |-> low, done |-> WalkDone(P, minID, start),
                   last |-> high, count |-> written]

\* One page of the range is read and encoded to the stage.
ReadPage ==
    /\ pc = "read" /\ ~Full
    /\ \E P \in Answers(jn.offset, jn.minID) :
       \E n \in 0..PageSize : \E ids \in [1..n -> IDs] :
          /\ Listing(ids, {id \in InRange(P, jn.minID, jn.start) : ~Unchanged(id)})
          /\ stage' = stage \o Encoded(ids)
          /\ ReportPage(P, jn.offset, jn.minID, jn.start, n)
    /\ pc' = "checkpoint"
    /\ UNCHANGED <<telegram, state, journal, staged, out, synced, marker, holder,
                   opt, st, jn, top, offset, pos, spent>>

\* Mutant: the journal takes the page in before the stage is synced.
CheckpointUnsynced ==
    /\ pc = "checkpoint" /\ ~Full
    /\ journal' = [jn EXCEPT !.bytes = Len(stage), !.offset = page.next,
                             !.last = Max2(@, page.last), !.added = @ + page.count]
    /\ jn' = journal'
    /\ pc' = IF page.done THEN "ready" ELSE "read"
    /\ UNCHANGED <<telegram, state, stage, staged, out, synced, marker, holder, opt,
                   st, top, offset, page, pos, spent>>

\* Progress: the stage is synced, then the journal takes the page in.
CheckpointPage ==
    /\ pc = "checkpoint" /\ ~Full
    /\ staged' = Len(stage)
    /\ journal' = [jn EXCEPT !.bytes = Len(stage), !.offset = page.next,
                             !.last = Max2(@, page.last), !.added = @ + page.count]
    /\ jn' = journal'
    /\ pc' = IF page.done THEN "ready" ELSE "read"
    /\ UNCHANGED <<telegram, state, stage, out, synced, marker, holder, opt, st,
                   top, offset, page, pos, spent>>

MarkReady ==
    /\ pc = "ready"
    /\ staged' = Len(stage)
    /\ journal' = [jn EXCEPT !.phase = "ready", !.bytes = Len(stage), !.top = top]
    /\ jn' = journal'
    /\ pc' = "plan"
    /\ UNCHANGED <<telegram, state, stage, out, synced, marker, holder, opt, st,
                   top, offset, page, pos, spent>>

\* recoveredIncrementalLastID
Recovered(last, chatTop, minID) ==
    IF last > 0 THEN last ELSE IF chatTop > 0 THEN chatTop ELSE minID

NextLastID == IF Stale(st) THEN Recovered(jn.last, jn.top, jn.minID)
              ELSE Max2(st.lastID, jn.last)

\* The checkpoint to commit: the boundary, Records, and a TopMessageID that the
\* boundary does not pass.
NextState ==
    [st EXCEPT !.lastID = NextLastID, !.records = @ + jn.added, !.stamp = Fresh,
               !.top = IF jn.top > 0 THEN Max2(jn.top, NextLastID) ELSE 0]

\* The sizes of the outputs and the next checkpoint enter the journal before
\* anything is written to an output.
Plan ==
    /\ pc = "plan"
    /\ st' = NextState
    /\ journal' = [jn EXCEPT !.phase = "planned", !.next = NextState,
                             !.sizes = [p \in Paths |-> IF p \in Mine THEN Len(out[p]) ELSE 0]]
    /\ jn' = journal'
    /\ pc' = "verify"
    /\ UNCHANGED <<telegram, state, stage, staged, out, synced, marker, holder,
                   opt, top, offset, page, pos, spent>>

Verify ==
    /\ pc = "verify" /\ SizesFit(jn)
    /\ pc' = "mark"
    /\ UNCHANGED <<telegram, disk, holder, memory, spent>>

SuffixUnchecked(p) == TRUE   \* mutant: another writer's records are not looked for
\* What an output holds past the recorded size is a prefix of the stage.
SuffixOurs(p) == \A i \in 1..(Len(out[p]) - jn.sizes[p]) :
                    i \in DOMAIN stage /\ out[p][jn.sizes[p] + i] = stage[i]

Compare ==
    /\ pc = "compare" /\ \A p \in Mine : SuffixOurs(p)
    /\ pc' = "copy" /\ pos' = 1
    /\ UNCHANGED <<telegram, disk, holder, opt, st, jn, top, offset, page, spent>>

\* Writing s over file f from position at on; the file is not truncated.
Overwrite(f, at, s) == Prefix(f, at) \o s \o SubSeq(f, at + Len(s) + 1, Len(f))

\* Mutant: the stage is appended wherever the output ends.
CopyAppending ==
    /\ pc = "copy"
    /\ out' = [out EXCEPT ![Outputs[pos]] = @ \o stage]
    /\ pc' = "flush"
    /\ UNCHANGED <<telegram, state, journal, stage, staged, synced, marker, holder,
                   memory, spent>>

Copy ==
    /\ pc = "copy"
    /\ out' = [out EXCEPT ![Outputs[pos]] = Overwrite(@, jn.sizes[Outputs[pos]], stage)]
    /\ pc' = "flush"
    /\ UNCHANGED <<telegram, state, journal, stage, staged, synced, marker, holder,
                   memory, spent>>

Flush ==
    /\ pc = "flush"
    /\ synced' = [synced EXCEPT ![Outputs[pos]] = Len(out[Outputs[pos]])]
    /\ IF pos < Len(Outputs) THEN pc' = "copy" /\ pos' = pos + 1
                             ELSE pc' = "commit" /\ pos' = 1
    /\ UNCHANGED <<telegram, state, journal, stage, staged, out, marker, holder,
                   opt, st, jn, top, offset, page, spent>>

\* Mutant: the checkpoint gets a new time of its own.
CommitRestamped ==
    /\ pc = "commit"
    /\ state' = [jn.next EXCEPT !.stamp = Fresh]
    /\ pc' = "unmark" /\ pos' = 1
    /\ UNCHANGED <<telegram, journal, stage, staged, out, synced, marker, holder,
                   opt, st, jn, top, offset, page, spent>>

Commit ==
    /\ pc = "commit"
    /\ state' = jn.next
    /\ pc' = "unmark" /\ pos' = 1
    /\ UNCHANGED <<telegram, journal, stage, staged, out, synced, marker, holder,
                   opt, st, jn, top, offset, page, spent>>

\* removeIncrementalStage: the journal first.
RemoveJournal ==
    /\ pc = "removeJournal"
    /\ journal' = NoJournal
    /\ pc' = "removeStage"
    /\ UNCHANGED <<telegram, state, stage, staged, out, synced, marker, holder,
                   memory, spent>>

RemoveStage ==
    /\ pc = "removeStage"
    /\ stage' = <<>> /\ staged' = 0
    /\ Leave
    /\ UNCHANGED <<telegram, state, journal, out, synced, marker, spent>>

-----------------------------------------------------------------------------
(* The full history: the second half of runSync *)

\* OpenJSONL: O_APPEND, or O_TRUNC for the stream of --reset and the merged
\* output of --reset-merged.
OpenOutput ==
    /\ pc = "openOutput"
    /\ LET p == Outputs[pos]
           truncate == IF pos = 1 THEN opt.reset ELSE opt.resetMerged
       IN  /\ out' = IF truncate THEN [out EXCEPT ![p] = <<>>] ELSE out
           /\ synced' = IF truncate THEN [synced EXCEPT ![p] = 0] ELSE synced
    /\ IF pos < Len(Outputs) THEN pc' = pc /\ pos' = pos + 1
                             ELSE pc' = "read" /\ pos' = 1
    /\ UNCHANGED <<telegram, state, journal, stage, staged, marker, holder,
                   opt, st, jn, top, offset, page, spent>>

Emitted(records) ==
    [p \in Paths |-> IF p \in Mine THEN out[p] \o records ELSE out[p]]

\* One page of the whole history, encoded straight to every output.
ReadHistoryPage ==
    /\ pc = "read" /\ Full
    /\ \E P \in Answers(offset, 0) :
       \E n \in 0..PageSize : \E ids \in [1..n -> IDs] :
          /\ Listing(ids, P)
          /\ out' = Emitted(Encoded(ids))
          /\ ReportPage(P, offset, 0, 0, n)
    /\ pc' = "checkpoint"
    /\ UNCHANGED <<telegram, state, journal, stage, staged, synced, marker, holder,
                   opt, st, jn, top, offset, pos, spent>>

\* updateBackfillState, and what --reset without --all sums up itself.
Backfilled(s) ==
    LET latest == Max2(s.latest, page.last)
    IN  [s EXCEPT !.bf = IF page.done THEN "complete" ELSE "active",
                  !.next = page.next, !.count = @ + page.count, !.latest = latest,
                  !.records = s.count + page.count,
                  !.lastID = IF page.done THEN latest ELSE @, !.stamp = Fresh]
Summed(s) == [s EXCEPT !.lastID = Max2(@, page.last), !.records = @ + page.count]

\* Mutant: the backfill checkpoint is saved before the outputs are synced.
CheckpointHistoryUnsynced ==
    /\ pc = "checkpoint" /\ Full
    /\ IF opt.all THEN st' = Backfilled(st) /\ state' = st'
                  ELSE st' = Summed(st) /\ state' = state
    /\ offset' = page.next
    /\ pc' = IF page.done THEN "finish" ELSE "read"
    /\ UNCHANGED <<telegram, journal, stage, staged, out, synced, marker, holder, opt,
                   jn, top, page, pos, spent>>

\* Progress of --all: the outputs are synced, then the backfill checkpoint is
\* saved.  --reset alone saves nothing before the end.
CheckpointHistory ==
    /\ pc = "checkpoint" /\ Full
    /\ IF opt.all
       THEN /\ synced' = [p \in Paths |-> IF p \in Mine THEN Len(out[p]) ELSE synced[p]]
            /\ st' = Backfilled(st)
            /\ state' = st'
       ELSE /\ st' = Summed(st)
            /\ UNCHANGED <<synced, state>>
    /\ offset' = page.next
    /\ pc' = IF page.done THEN "finish" ELSE "read"
    /\ UNCHANGED <<telegram, journal, stage, staged, out, marker, holder, opt, jn,
                   top, page, pos, spent>>

Finish ==
    /\ pc = "finish"
    /\ synced' = [p \in Paths |-> IF p \in Mine THEN Len(out[p]) ELSE synced[p]]
    /\ st' = [st EXCEPT !.top = top, !.stamp = Fresh]
    /\ state' = st'
    /\ pc' = "unmark" /\ pos' = 1
    /\ UNCHANGED <<telegram, journal, stage, staged, out, marker, holder, opt, jn,
                   top, offset, page, spent>>

-----------------------------------------------------------------------------
(* Publication markers, refusals and interruptions *)

\* beginPublication, one output at a time.
Mark ==
    /\ pc = "mark" /\ marker[Outputs[pos]] \in {NoOwner, Self}
    /\ marker' = [marker EXCEPT ![Outputs[pos]] = Self]
    /\ IF pos < Len(Outputs) THEN pc' = pc /\ pos' = pos + 1
       ELSE pc' = (IF Full THEN "openOutput" ELSE "compare") /\ pos' = 1
    /\ UNCHANGED <<telegram, state, journal, stage, staged, out, synced, holder,
                   opt, st, jn, top, offset, page, spent>>

\* finishPublication, one output at a time.
Unmark ==
    /\ pc = "unmark"
    /\ marker' = [marker EXCEPT ![Outputs[pos]] = NoOwner]
    /\ IF pos < Len(Outputs)
       THEN pc' = pc /\ pos' = pos + 1 /\ UNCHANGED <<holder, opt, st, jn, top, offset, page>>
       ELSE IF Full THEN Leave
       ELSE pc' = "removeJournal" /\ pos' = 1 /\ UNCHANGED <<holder, opt, st, jn, top, offset, page>>
    /\ UNCHANGED <<telegram, state, journal, stage, staged, out, synced, spent>>

\* The checks in the middle of a run: the stage is as long as promised, the
\* outputs are as long as recorded, the marker is nobody else's, and so is what
\* an output holds past the recorded size.
CheckFails ==
    \/ pc = "openStage" /\ jn.bytes > Len(stage)
    \/ pc = "verify" /\ ~SizesFit(jn)
    \/ pc = "mark" /\ marker[Outputs[pos]] \notin {NoOwner, Self}
    \/ pc = "compare" /\ \E p \in Mine : ~SuffixOurs(p)

\* A check that fails ends the run with an error; what is on disk stays.
Refuse ==
    /\ CheckFails
    /\ Leave
    /\ UNCHANGED <<telegram, disk, spent>>

\* A power loss leaves what was synced and any part of the rest.
Lose ==
    /\ \E n \in staged..Len(stage) : stage' = Prefix(stage, n) /\ staged' = n
    /\ \E keep \in [Mine -> UNION {synced[p]..Len(out[p]) : p \in Mine}] :
         /\ \A p \in Mine : keep[p] \in synced[p]..Len(out[p])
         /\ out' = [p \in Paths |-> IF p \in Mine THEN Prefix(out[p], keep[p]) ELSE out[p]]
         /\ synced' = [p \in Paths |-> IF p \in Mine THEN keep[p] ELSE synced[p]]

\* An error of a call, a cancellation, a kill or a power loss: the process is
\* gone, and the locks with it.
Crash ==
    /\ pc # "idle" /\ spent.crashes < MaxCrashes
    /\ Lose \/ UNCHANGED <<stage, staged, out, synced>>
    /\ Leave
    /\ spent' = [spent EXCEPT !.crashes = @ + 1]
    /\ UNCHANGED <<telegram, state, journal, marker>>

-----------------------------------------------------------------------------
(* The specification *)

Init ==
    /\ msgs = [id \in IDs |-> 0] /\ head = 0
    /\ state = ZeroState /\ journal = NoJournal
    /\ stage = <<>> /\ staged = 0
    /\ out = [p \in Paths |-> <<>>] /\ synced = [p \in Paths |-> 0]
    /\ marker = [p \in Paths |-> NoOwner] /\ holder = [p \in Paths |-> NoOwner]
    /\ pc = "idle" /\ opt = NoOpt /\ st = ZeroState /\ jn = NoJournal
    /\ top = 0 /\ offset = 0 /\ page = NoPage /\ pos = 1
    /\ spent = [crashes |-> 0, resets |-> 0, deletes |-> 0]

Environment == Post \/ Edit \/ Delete

\* The steps of a run under way.
Step ==
    \/ OpenStage \/ SaveJournal \/ ReadPage \/ CheckpointPage \/ MarkReady
    \/ Plan \/ Verify \/ Mark \/ Compare \/ Copy \/ Flush \/ Commit \/ Unmark
    \/ RemoveJournal \/ RemoveStage
    \/ OpenOutput \/ ReadHistoryPage \/ CheckpointHistory \/ Finish
    \/ Refuse

Next == Environment \/ (\E o \in Options : Start(o)) \/ Step \/ Crash

Spec == Init /\ [][Next]_vars

\* A process that runs takes its steps.  That a command is repeated until it
\* succeeds is the operator's part; docs/collection-integrity.md asks for it.
Fairness == /\ WF_vars(Step)
            /\ \A o \in Options : WF_vars(Start(o))
FairSpec == Spec /\ Fairness

-----------------------------------------------------------------------------
(* Properties *)

Locs == {"idle", "openStage", "saveJournal", "read", "checkpoint", "ready",
         "plan", "verify", "mark", "compare", "copy", "flush", "commit",
         "unmark", "removeJournal", "removeStage", "openOutput", "finish"}

TelegramOK    == msgs \in [IDs -> Versions] /\ head \in MaybeID
CheckpointsOK == state \in SyncStates /\ journal \in Journals
StageOK       == stage \in Seq(Records) /\ staged \in Nat
OutputsOK     == out \in [Paths -> Seq(Records)] /\ synced \in [Paths -> Nat]
MarkersOK     == marker \in [Paths -> Owners \cup {NoOwner}]
LocksOK       == holder \in [Paths -> Owners \cup {NoOwner}]
RunOK         == /\ pc \in Locs /\ opt \in OptionSet /\ pos \in 1..Len(Outputs)
                 /\ top \in MaybeID /\ offset \in MaybeID
MemoryOK      == st \in SyncStates /\ jn \in Journals
PageOK        == page \in Pages
SpentOK       == spent \in [crashes : 0..MaxCrashes, resets : 0..MaxResets,
                            deletes : 0..MaxDeletes]

\* The types of the variables.
TypeOK == /\ TelegramOK /\ CheckpointsOK /\ StageOK /\ OutputsOK /\ MarkersOK
          /\ LocksOK /\ RunOK /\ MemoryOK /\ PageOK /\ SpentOK

IDsIn(log) == {log[i].id : i \in DOMAIN log}
Archived(id) == id \in IDsIn(out[Stream])

\* Readers accept an output (EnsurePublished under the lock).
Readable(p) == marker[p] = NoOwner /\ holder[p] = NoOwner

\* The journal never promises staged records that a power loss can take: the
\* run that resumes it finds them (incremental.go:99, "incremental stage shorter
\* than durable checkpoint").
JournalDurable == journal.phase # "absent" => journal.bytes <= staged

\* The boundary is verified: every message at or below LastID that Telegram
\* still has is in the stream, whatever was interrupted on the way
\* (incremental.go:17).
BoundaryCovered == \A id \in IDs : id <= state.lastID /\ msgs[id] # 0 => Archived(id)

\* A stored message is stored again only when its content changed, and then as
\* a revision: neither a replayed publication nor a repeated reconciliation
\* duplicates records.
NoRepeats ==
    \A i, k \in DOMAIN out[Stream] :
        LET log == out[Stream] IN
        /\ i < k /\ log[i].id = log[k].id
        /\ \A m \in (i + 1)..(k - 1) : log[m].id # log[i].id
        => log[i].ver # log[k].ver /\ log[k].rev

\* Outputs that readers accept (EnsurePublished: no marker, and no lock) hold
\* the committed records and nothing else, and agree with each other.
ReadableIsCommitted ==
    (\A p \in Mine : Readable(p)) =>
        \A p \in Mine : Len(out[p]) = state.records /\ out[p] = out[Stream]

\* A journal on disk can be resumed: its base or its next checkpoint is the
\* state on disk (incremental.go:84 refuses any other).
JournalResumable ==
    journal.phase # "absent" => \/ state = journal.base
                                \/ journal.phase = "planned" /\ state = journal.next

\* The range of an active backfill that lies above its resume position is in
\* the stream, so that continuing below it loses nothing.
BackfillCovered ==
    state.bf = "active" =>
        \A id \in IDs : msgs[id] # 0 /\ state.next > 0 /\ id \in state.next..state.latest
                        => Archived(id)

\* A stream that readers accept lacks nothing below the boundary its state
\* claims: an interrupted backfill is never taken for a complete one.
ReadableIsComplete == Readable(Stream) => BoundaryCovered

\* An interrupted publication is finished by the runs that follow.
PendingIsFinished == \A p \in Paths : marker[p] = Self ~> marker[p] = NoOwner

\* When Telegram falls silent, repeated runs archive every message.
CatchesUp == <>[](\A id \in IDs : msgs[id] # 0 => Archived(id))

\* The part of the stream that the state on disk accounts for: an unfinished
\* publication may have written more.
CommittedLog ==
    IF journal.phase = "planned" /\ state # journal.next
    THEN Prefix(out[Stream], journal.sizes[Stream]) ELSE out[Stream]

Archive == INSTANCE AtomicArchive WITH log <- CommittedLog, boundary <- state.lastID

\* Under plain and reconciling runs the stream and its state implement the
\* atomic archive, with interruptions at any step.
ImplementsArchive == Archive!Spec
=============================================================================
