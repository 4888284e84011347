------------------------- MODULE ChatArchive_proofs -------------------------
(***************************************************************************)
(* Proofs about runs of ChatSync for every value of its constants.  First  *)
(* incremental runs: whatever is interrupted, the outputs hold the archive *)
(* that the checkpoint accounts for, no message twice, and nothing below   *)
(* the boundary is missing; the stream and its state implement             *)
(* AtomicArchive.  Then full runs (--all, --reset) and plain runs that     *)
(* follow each other: an unfinished backfill holds everything above the    *)
(* place it goes on from, and nothing is missing below a boundary.         *)
(***************************************************************************)
EXTENDS ChatSync_proofs

(***************************************************************************)
(* Incremental runs                                                        *)
(***************************************************************************)

\* No run walks the full history (--all, --reset).
Incremental == \A o \in Options : Start(o) => ~o.all /\ ~o.reset

\* A date of --refresh-from is not past the boundary: it would let the boundary
\* jump over what was never read.
Reconciling == \A o \in Options : Start(o) => o.start <= state.lastID + 1

(***************************************************************************)
(* The invariant of the publication                                        *)
(***************************************************************************)

\* A range is on its way to the outputs.
Publishing == journal.phase = "planned" /\ state # journal.next

\* What Telegram ever posted bounds every id.
Posted ==
    /\ \A id \in IDs : msgs[id] # 0 => id <= head
    /\ state.lastID <= head
    /\ journal.phase # "absent" => journal.last <= head
    /\ pc = "checkpoint" => page.last <= head

NotStale(s) == s.top = 0 \/ s.lastID <= s.top

LowerBound(j) == j.minID = (IF j.start = 0 THEN j.base.lastID ELSE 0)

\* The journal on disk continues the state on disk, and promises what it says.
Continues ==
    /\ NotStale(state)
    /\ journal.phase # "absent" =>
           /\ state = journal.base \/ Committed
           /\ LowerBound(journal) /\ journal.added = journal.bytes
    /\ journal.phase = "planned" =>
           /\ journal.next # journal.base /\ NotStale(journal.next)
           /\ journal.next.lastID = Max2(journal.base.lastID, journal.last)
           /\ journal.next.records = journal.base.records + journal.bytes
           /\ \A p \in Mine : journal.sizes[p] = journal.base.records

Writing == {"verify", "mark", "compare", "copy", "flush", "commit"}

\* Where the run is, and which phase the journal is in.
Located ==
    /\ ~Full
    /\ pc \in {"openStage", "saveJournal"} /\ journal.phase = "absent" =>
           jn = [NoJournal EXCEPT !.minID = jn.minID, !.start = jn.start, !.base = state]
           /\ LowerBound(jn)
    /\ pc \in {"openStage", "saveJournal", "read", "checkpoint", "ready", "plan"} => st = state
    /\ pc = "openStage" /\ journal.phase # "absent" => state = journal.base
    /\ pc \in {"saveJournal", "removeStage"} => journal.phase = "absent"
    /\ pc \in {"read", "checkpoint", "ready"} => journal.phase = "reading"
    /\ pc = "plan" => journal.phase = "ready"
    /\ pc \in Writing => Publishing
    /\ pc \in {"unmark", "removeJournal"} => Committed
    /\ pc \notin {"openOutput", "finish"}
    /\ pc \in {"openStage", "saveJournal", "read", "checkpoint", "ready", "plan", "verify"} =>
           pos = 1
    /\ pc = "saveJournal" => stage = <<>>
    /\ pc \in {"read", "ready", "plan"} \cup Writing => Len(stage) = journal.bytes
    /\ pc = "checkpoint" => Len(stage) = journal.bytes + page.count

\* Every output begins with the records the state accounts for, synced; past
\* them there is at most the beginning of the stage.
Accounted ==
    \A p \in Mine :
        /\ state.records <= synced[p] /\ synced[p] <= Len(out[p])
        /\ ~Publishing => Len(out[p]) = state.records
        /\ \A i \in 1..state.records : out[p][i] = out[Stream][i]
        /\ Publishing => /\ Len(out[p]) <= state.records + journal.bytes
                         /\ \A i \in 1..Len(out[p]) - state.records :
                                out[p][state.records + i] = stage[i]

Whole(p) == Len(out[p]) = state.records + journal.bytes

\* The outputs before the one at hand are copied and synced.
Copied ==
    /\ pc \in {"copy", "flush"} => \A i \in 1..pos - 1 :
           Whole(Outputs[i]) /\ synced[Outputs[i]] = Len(out[Outputs[i]])
    /\ pc = "flush" => Whole(Outputs[pos])
    /\ pc = "commit" => \A p \in Mine : Whole(p) /\ synced[p] = Len(out[p])

\* Nothing is written to an output before all are marked, and they stay marked
\* until the checkpoint is committed.
Marked ==
    /\ \A p \in Paths : marker[p] \in {NoOwner, Self}
    /\ pc = "mark" => \A i \in 1..pos - 1 : marker[Outputs[i]] = Self
    /\ pc \in {"compare", "copy", "flush", "commit"} => \A p \in Mine : marker[p] = Self
    /\ Publishing /\ (\E p \in Mine : Len(out[p]) # state.records) =>
           \A p \in Mine : marker[p] = Self

PublicationInv == IInv /\ Posted /\ Continues /\ Located /\ Accounted /\ Copied /\ Marked

(***************************************************************************)
(* The invariant of the records                                            *)
(***************************************************************************)

\* Of two neighbouring records of one message the second is a revision.
Revised(log, n) ==
    \A i, k \in 1..n :
        /\ i < k /\ log[i].id = log[k].id
        /\ \A m \in (i + 1)..(k - 1) : log[m].id # log[i].id
        => log[i].ver # log[k].ver /\ log[k].rev

\* The first n staged records were read down to low and up to last: each once,
\* and if the archive has the message, then as a revision of its last record.
Sound(n, low, last) ==
    /\ low = 0 => last = 0
    /\ \A i \in 1..n :
           /\ stage[i].id > journal.minID /\ stage[i].id >= low /\ stage[i].id <= last
           /\ \A k \in 1..n : stage[k].id = stage[i].id => k = i
           /\ \A k \in 1..state.records :
                  /\ out[Stream][k].id = stage[i].id
                  /\ \A m \in (k + 1)..state.records : out[Stream][m].id # stage[i].id
                  => stage[i].rev /\ stage[i].ver # out[Stream][k].ver

Staged == journal.phase # "absent" /\ ~Committed

StageSound ==
    /\ Staged => Sound(journal.bytes, journal.offset, journal.last)
    /\ pc = "checkpoint" => Sound(Len(stage), page.next, Max2(journal.last, page.last))

LogSound ==
    /\ \A i \in 1..state.records : out[Stream][i].id <= state.lastID
    /\ Revised(out[Stream], state.records)

RecordInv == PublicationInv /\ StageSound /\ LogSound

(***************************************************************************)
(* The invariant of the boundary                                           *)
(***************************************************************************)

StoredIDs == {out[Stream][i].id : i \in 1..state.records}
StagedIDs(n) == {stage[i].id : i \in 1..n}

\* What was read of the range from low up to last is staged or stored.
ReadDown(n, low, last) ==
    \A id \in IDs :
        /\ msgs[id] # 0 /\ id >= low /\ id <= last
        /\ id > journal.minID /\ id >= journal.start
        => id \in StagedIDs(n) \cup StoredIDs

RangeRead ==
    /\ Staged => ReadDown(journal.bytes, journal.offset, journal.last)
    /\ Staged /\ (journal.phase # "reading" \/ pc = "ready") =>
           ReadDown(journal.bytes, 0, journal.last)
    /\ pc = "checkpoint" =>
           LET last == Max2(journal.last, page.last)
           IN  /\ ReadDown(Len(stage), page.next, last)
               /\ page.done => ReadDown(Len(stage), 0, last)

BoundaryStored == \A id \in IDs : id <= state.lastID /\ msgs[id] # 0 => id \in StoredIDs

StartsBelow ==
    /\ journal.phase # "absent" => journal.start <= journal.base.lastID + 1
    /\ pc \in {"openStage", "saveJournal"} => jn.start <= state.lastID + 1

BoundaryInv == RecordInv /\ RangeRead /\ BoundaryStored /\ StartsBelow

(***************************************************************************)
(* What the invariant says where                                           *)
(***************************************************************************)

\* The values the steps work with.
LEMMA Values ==
    ASSUME PublicationInv
    PROVE  /\ journal \in Journals /\ jn \in Journals /\ state \in SyncStates /\ st \in SyncStates
           /\ stage \in Seq(Records) /\ Len(stage) \in Nat /\ staged \in Nat
           /\ out \in [Paths -> Seq(Records)] /\ synced \in [Paths -> Nat]
           /\ \A p \in Mine : p \in Paths /\ out[p] \in Seq(Records) /\ Len(out[p]) \in Nat
                              /\ synced[p] \in Nat
           /\ Stream \in Mine /\ \A i \in 1..Len(Outputs) : Outputs[i] \in Mine
           /\ pos \in 1..Len(Outputs) /\ page \in Pages /\ opt \in OptionSet
<1>1. TypeOK
  BY DEF PublicationInv, IInv
<1>2. /\ stage \in Seq(Records) /\ out \in [Paths -> Seq(Records)] /\ Mine \subseteq Paths
  BY <1>1, ConstantTypes DEF TypeOK, StageOK, OutputsOK
<1>3. Len(stage) \in Nat
  BY <1>2, LenProperties
<1>4. \A p \in Mine : p \in Paths /\ out[p] \in Seq(Records)
  BY <1>2
<1>5. \A p \in Mine : Len(out[p]) \in Nat
  BY <1>4, LenProperties
<1> QED
  BY <1>1, <1>2, <1>3, <1>4, <1>5, ConstantTypes
     DEF TypeOK, StageOK, OutputsOK, CheckpointsOK, MemoryOK, RunOK, PageOK

\* The numbers the steps calculate with.
LEMMA Numbers ==
    ASSUME PublicationInv
    PROVE  /\ state.records \in Nat /\ state.lastID \in Nat /\ state.top \in Nat
           /\ journal.bytes \in Nat /\ journal.last \in Nat /\ journal.offset \in Nat
           /\ journal.minID \in Nat /\ journal.start \in Nat /\ journal.added \in Nat
           /\ jn.bytes \in Nat /\ jn.last \in Nat /\ jn.offset \in Nat /\ jn.minID \in Nat
           /\ jn.start \in Nat /\ jn.added \in Nat /\ jn.top \in Nat
           /\ page.next \in Nat /\ page.last \in Nat /\ page.count \in Nat
           /\ journal.base \in SyncStates /\ journal.next \in SyncStates
           /\ journal.base.records \in Nat /\ journal.base.lastID \in Nat
           /\ MaxID \in Nat
<1>1. /\ state \in SyncStates /\ journal \in Journals /\ jn \in Journals /\ page \in Pages
      /\ MaybeID \subseteq Nat /\ MaxID \in Nat
  BY Values, BoundsAssumption DEF MaybeID
<1>2. journal.base \in SyncStates /\ journal.next \in SyncStates
  BY <1>1 DEF Journals
<1>3. /\ state.records \in Nat /\ state.lastID \in Nat /\ state.top \in Nat
      /\ journal.base.records \in Nat /\ journal.base.lastID \in Nat
  BY <1>1, <1>2 DEF SyncStates
<1>4. /\ journal.bytes \in Nat /\ journal.last \in Nat /\ journal.offset \in Nat
      /\ journal.minID \in Nat /\ journal.start \in Nat /\ journal.added \in Nat
      /\ jn.bytes \in Nat /\ jn.last \in Nat /\ jn.offset \in Nat /\ jn.minID \in Nat
      /\ jn.start \in Nat /\ jn.added \in Nat /\ jn.top \in Nat
  BY <1>1 DEF Journals
<1>5. page.next \in Nat /\ page.last \in Nat /\ page.count \in Nat
  BY <1>1 DEF Pages
<1> QED BY <1>1, <1>2, <1>3, <1>4, <1>5

\* While the range is staged or published, the journal in memory is the one on
\* disk, and the state is the one the range began with.
LEMMA Underway ==
    ASSUME PublicationInv
    PROVE  /\ pc \in {"read", "checkpoint", "ready", "plan"} \cup Writing =>
                  jn = journal /\ journal.phase # "absent" /\ state = journal.base /\ ~Committed
           /\ pc = "openStage" /\ journal.phase # "absent" =>
                  jn = journal /\ state = journal.base /\ ~Committed
           /\ Staged => state = journal.base
           /\ Publishing => journal.phase = "planned" /\ state = journal.base /\ ~Committed
           /\ journal.phase = "planned" => (Publishing <=> ~Committed)
<1>1. pc \in {"read", "checkpoint", "ready", "plan"} \cup Writing =>
          jn = journal /\ journal.phase # "absent"
  BY DEF PublicationInv, IInv, JournalInMemory, Staging, Located, Writing
<1>2. journal.phase # "absent" => state = journal.base \/ Committed
  BY DEF PublicationInv, Continues
<1>3. journal.phase = "planned" => journal.next # journal.base
  BY DEF PublicationInv, Continues
<1>4. Committed <=> journal.phase = "planned" /\ journal.next = state
  BY DEF Committed
<1>5. Publishing <=> journal.phase = "planned" /\ state # journal.next
  BY DEF Publishing
<1>6. pc \in {"read", "checkpoint", "ready", "plan"} => journal.phase # "planned"
  BY DEF PublicationInv, Located
<1>7. pc \in Writing => Publishing
  BY DEF PublicationInv, Located
<1>8. pc = "openStage" /\ journal.phase # "absent" => jn = journal /\ state = journal.base
  <2>1. pc = "openStage" /\ journal.phase # "absent" => jn = journal
    BY DEF PublicationInv, IInv, JournalInMemory
  <2> QED BY <2>1 DEF PublicationInv, Located
<1>9. Staged <=> journal.phase # "absent" /\ ~Committed
  BY DEF Staged
<1> QED BY <1>1, <1>2, <1>3, <1>4, <1>5, <1>6, <1>7, <1>8, <1>9

\* How long the outputs are, compared with the records the state accounts for.
LEMMA Lengths ==
    ASSUME PublicationInv, NEW p \in Mine
    PROVE  /\ state.records <= synced[p] /\ synced[p] <= Len(out[p])
           /\ ~Publishing => Len(out[p]) = state.records /\ synced[p] = state.records
           /\ Publishing => /\ Len(out[p]) <= state.records + journal.bytes
                            /\ journal.sizes[p] = state.records
<1>1. Publishing => journal.sizes[p] = state.records
  BY Underway DEF PublicationInv, Continues
<1>2. /\ state.records <= synced[p] /\ synced[p] <= Len(out[p])
      /\ ~Publishing => Len(out[p]) = state.records
      /\ Publishing => Len(out[p]) <= state.records + journal.bytes
  BY DEF PublicationInv, Accounted
<1>3. synced[p] \in Nat /\ Len(out[p]) \in Nat /\ state.records \in Nat
  BY Values, Numbers
<1>4. ~Publishing => synced[p] = state.records
  BY <1>2, <1>3
<1> QED BY <1>1, <1>2, <1>4

(***************************************************************************)
(* The publication: steps that leave the state and the outputs alone       *)
(***************************************************************************)

\* The invariant of ChatSync_proofs is kept.
LEMMA KeepsTypes == ASSUME IInv, [Next]_vars PROVE IInv'
BY TypeStep, SizesStep, JournalStep, StageStep DEF IInv

\* A step that writes neither checkpoint, journal nor outputs.
LEMMA DiskStands ==
    ASSUME PublicationInv, UNCHANGED <<state, journal, out, synced>>,
           \A i \in 1..journal.bytes : stage'[i] = stage[i]
    PROVE  Continues' /\ Accounted' /\ (Committed' <=> Committed) /\ (Publishing' <=> Publishing)
<1>1. (Committed' <=> Committed) /\ (Publishing' <=> Publishing)
  BY DEF Committed, Publishing
<1>2. Continues'
  BY <1>1 DEF PublicationInv, Continues, LowerBound, NotStale
<1>3. Accounted'
  <2> SUFFICES ASSUME NEW p \in Mine
               PROVE  /\ state.records <= synced[p] /\ synced[p] <= Len(out[p])
                      /\ ~Publishing => Len(out[p]) = state.records
                      /\ \A i \in 1..state.records : out[p][i] = out[Stream][i]
                      /\ Publishing => /\ Len(out[p]) <= state.records + journal.bytes
                                       /\ \A i \in 1..Len(out[p]) - state.records :
                                              out[p][state.records + i] = stage'[i]
    BY <1>1 DEF Accounted
  <2>1. /\ state.records <= synced[p] /\ synced[p] <= Len(out[p])
        /\ ~Publishing => Len(out[p]) = state.records
        /\ \A i \in 1..state.records : out[p][i] = out[Stream][i]
        /\ Publishing => /\ Len(out[p]) <= state.records + journal.bytes
                         /\ \A i \in 1..Len(out[p]) - state.records :
                                out[p][state.records + i] = stage[i]
    BY DEF PublicationInv, Accounted
  <2>2. state.records \in Nat /\ journal.bytes \in Nat /\ Len(out[p]) \in Nat
    BY Values, Numbers
  <2>3. Publishing => \A i \in 1..Len(out[p]) - state.records : i \in 1..journal.bytes
    BY <2>1, <2>2
  <2> QED BY <2>1, <2>3
<1> QED BY <1>1, <1>2, <1>3

\* A step that neither posts nor reads a message.
LEMMA TelegramStands ==
    ASSUME PublicationInv, UNCHANGED <<telegram, state, journal>>, pc' # "checkpoint"
    PROVE  Posted'
BY DEF PublicationInv, Posted, telegram

\* Markers that stand, or are set.
LEMMA MarkersStand ==
    ASSUME PublicationInv, UNCHANGED <<state, journal, out>>,
           \A p \in Paths : marker'[p] = marker[p] \/ marker'[p] = Self,
           pc' \in {"compare", "copy", "flush", "commit"} => \A p \in Mine : marker'[p] = Self,
           pc' = "mark" => \A i \in 1..pos' - 1 : marker'[Outputs[i]] = Self
    PROVE  Marked'
<1>1. Publishing' <=> Publishing
  BY DEF Publishing
<1>2. \A p \in Mine : p \in Paths
  BY Values
<1> QED BY <1>1, <1>2 DEF PublicationInv, Marked

\* What happens in Telegram meanwhile.
LEMMA TelegramPublication ==
    ASSUME PublicationInv, Environment, IInv' PROVE PublicationInv'
<1>1. UNCHANGED <<disk, holder, pc, memory>>
  BY DEF Environment, Post, Edit, Delete
<1>2. UNCHANGED <<state, journal, stage, staged, out, synced, marker, pc, opt, st, jn, top,
                  offset, page, pos>>
  BY <1>1 DEF disk, memory
<1>3. Continues' /\ Accounted' /\ (Committed' <=> Committed) /\ (Publishing' <=> Publishing)
  BY <1>2, DiskStands
<1>4. Posted'
  <2>1. msgs \in [IDs -> Versions] /\ head \in Nat
    BY BoundsAssumption DEF PublicationInv, IInv, TypeOK, TelegramOK, MaybeID
  <2>2. head' >= head /\ head' \in Nat /\ \A id \in IDs : msgs'[id] # 0 => id <= head'
    <3>1. \A id \in IDs : id \in Nat /\ (msgs[id] # 0 => id <= head)
      BY BoundsAssumption DEF PublicationInv, Posted, IDs
    <3>2. CASE Post
      BY <2>1, <3>1, <3>2 DEF Post
    <3>3. CASE Edit
      BY <2>1, <3>1, <3>3 DEF Edit
    <3>4. CASE Delete
      BY <2>1, <3>1, <3>4 DEF Delete
    <3> QED BY <3>2, <3>3, <3>4 DEF Environment
  <2>3. /\ state.lastID <= head'
        /\ journal.phase # "absent" => journal.last <= head'
        /\ pc = "checkpoint" => page.last <= head'
    BY <2>1, <2>2, Numbers DEF PublicationInv, Posted
  <2> QED BY <1>2, <2>2, <2>3 DEF Posted
<1>5. Located'
  BY <1>2, <1>3 DEF PublicationInv, Located, Full, LowerBound
<1>6. Copied' /\ Marked'
  BY <1>2, <1>3 DEF PublicationInv, Copied, Whole, Marked
<1> QED BY <1>3, <1>4, <1>5, <1>6 DEF PublicationInv

\* A run begins a range, or takes one over.
LEMMA StartPublication ==
    ASSUME PublicationInv, NEW o \in Options, StartIncremental(o), IInv' PROVE PublicationInv'
<1>1. /\ ~o.all /\ ~o.reset /\ pos' = 1 /\ page' = NoPage /\ st' = state
      /\ opt' = [o EXCEPT !.start = RunStart(o)]
      /\ UNCHANGED <<telegram, state, journal, stage, staged, out, synced, marker>>
      /\ pc' \in {"openStage", "unmark"}
  BY DEF StartIncremental, Acquire, disk
<1>2. Continues' /\ Accounted' /\ (Committed' <=> Committed) /\ (Publishing' <=> Publishing)
  BY <1>1, DiskStands
<1>3. Posted' /\ Copied' /\ Marked'
  BY <1>1, TelegramStands, MarkersStand DEF Copied
<1>4. ~Full'
  BY <1>1, OptionsAssumption DEF Full, OptionSet
<1>5. CASE journal.phase = "absent"
  <2>1. /\ pc' = "openStage"
        /\ jn' = [NoJournal EXCEPT !.minID = RunMinID(o), !.start = o.start, !.base = state]
    BY <1>5 DEF StartIncremental
  <2>2. RunMinID(o) = IF o.start = 0 THEN state.lastID ELSE 0
    <3>1. ~Adopts(o)
      BY <1>5 DEF Adopts
    <3>2. ~Stale(state)
      BY Numbers DEF PublicationInv, Continues, NotStale, Stale
    <3> QED BY <3>1, <3>2 DEF RunMinID, IncrementalMinID
  <2>3. jn'.minID = RunMinID(o) /\ jn'.start = o.start /\ jn'.base = state
    BY <2>1 DEF NoJournal
  <2>4. LowerBound(jn')
    BY <2>2, <2>3 DEF LowerBound
  <2>5. jn' = [NoJournal EXCEPT !.minID = jn'.minID, !.start = jn'.start, !.base = state']
    BY <1>1, <2>1, <2>3
  <2>6. Located'
    BY <1>1, <1>4, <1>5, <2>1, <2>4, <2>5 DEF Located, Writing, LowerBound
  <2> QED BY <1>2, <1>3, <2>6 DEF PublicationInv
<1>6. CASE journal.phase # "absent"
  <2>1. IF Committed THEN pc' = "unmark" ELSE state = journal.base /\ pc' = "openStage"
    BY <1>6 DEF StartIncremental
  <2>2. Located'
    BY <1>1, <1>2, <1>4, <1>6, <2>1 DEF Located, Writing
  <2> QED BY <1>2, <1>3, <2>2 DEF PublicationInv
<1> QED BY <1>5, <1>6

\* A run that ends.
LEMMA LeavePublication ==
    ASSUME PublicationInv, IInv', Leave, UNCHANGED <<telegram, state, journal>>,
           Continues', Accounted', Marked'
    PROVE  PublicationInv'
<1>1. pc' = "idle" /\ opt' = NoOpt
  BY DEF Leave
<1>2. Posted'
  BY <1>1, TelegramStands
<1>3. ~Full'
  BY <1>1 DEF Full, NoOpt
<1>4. Located' /\ Copied'
  BY <1>1, <1>3 DEF Located, Copied, Writing
<1> QED BY <1>2, <1>4 DEF PublicationInv

\* A run that a check refuses leaves everything on disk.
LEMMA RefusePublication ==
    ASSUME PublicationInv, Refuse, IInv' PROVE PublicationInv'
<1>1. Leave /\ UNCHANGED <<telegram, state, journal, stage, staged, out, synced, marker>>
  BY DEF Refuse, disk
<1>2. Continues' /\ Accounted'
  BY <1>1, DiskStands
<1>3. Marked'
  BY <1>1, MarkersStand DEF Leave
<1> QED BY <1>1, <1>2, <1>3, LeavePublication

\* A run ends with no journal left.
LEMMA RemoveStagePublication ==
    ASSUME PublicationInv, RemoveStage, IInv' PROVE PublicationInv'
<1>1. /\ Leave /\ UNCHANGED <<telegram, state, journal, out, synced, marker>>
      /\ journal.phase = "absent"
  BY DEF RemoveStage, PublicationInv, Located
<1>2. Continues'
  BY <1>1 DEF PublicationInv, Continues, LowerBound, NotStale, Committed
<1>3. ~Publishing /\ ~Publishing'
  BY <1>1 DEF Publishing
<1>4. Accounted'
  BY <1>1, <1>3 DEF PublicationInv, Accounted
<1>5. Marked'
  BY <1>1, MarkersStand DEF Leave
<1> QED BY <1>1, <1>2, <1>4, <1>5, LeavePublication

\* What a power loss leaves of the stage and of an output.
LEMMA LoseFacts ==
    ASSUME PublicationInv, Lose
    PROVE  /\ journal.phase # "absent" => \A i \in 1..journal.bytes : stage'[i] = stage[i]
           /\ \A p \in Mine :
                  /\ synced'[p] = Len(out'[p]) /\ Len(out'[p]) \in Nat
                  /\ synced[p] <= Len(out'[p]) /\ Len(out'[p]) <= Len(out[p])
                  /\ \A i \in 1..Len(out'[p]) : out'[p][i] = out[p][i]
<1>1. PICK n \in staged..Len(stage) : stage' = Prefix(stage, n) /\ staged' = n
  BY DEF Lose
<1>2. PICK keep \in [Mine -> Nat] :
         /\ \A p \in Mine : keep[p] \in synced[p]..Len(out[p])
         /\ out' = [p \in Paths |-> IF p \in Mine THEN Prefix(out[p], keep[p]) ELSE out[p]]
         /\ synced' = [p \in Paths |-> IF p \in Mine THEN keep[p] ELSE synced[p]]
  <2>1. UNION {synced[p]..Len(out[p]) : p \in Mine} \subseteq Nat
    BY Values
  <2> QED BY <2>1 DEF Lose
<1>3. n \in 0..Len(stage) /\ n \in Nat /\ (journal.phase # "absent" => journal.bytes <= n)
  <2>1. Len(stage) \in Nat /\ staged \in Nat /\ journal.bytes \in Nat
    BY Values, Numbers
  <2>2. journal.phase # "absent" => journal.bytes <= staged
    BY DEF PublicationInv, IInv, JournalDurable
  <2>3. n \in Nat /\ staged <= n /\ n <= Len(stage)
    BY <1>1, <2>1
  <2> QED BY <2>1, <2>2, <2>3
<1>4. \A i \in 1..n : stage'[i] = stage[i]
  BY <1>1, <1>3, CutFacts, Values
<1>5. journal.phase # "absent" => \A i \in 1..journal.bytes : stage'[i] = stage[i]
  <2>1. journal.bytes \in Nat
    BY Numbers
  <2>2. journal.phase # "absent" => \A i \in 1..journal.bytes : i \in 1..n
    BY <1>3, <2>1
  <2> QED BY <1>4, <2>2
<1>6. ASSUME NEW p \in Mine
      PROVE  /\ Len(out'[p]) = keep[p] /\ synced'[p] = keep[p]
             /\ keep[p] \in Nat /\ synced[p] <= keep[p] /\ keep[p] <= Len(out[p])
             /\ \A i \in 1..keep[p] : out'[p][i] = out[p][i]
  <2>1. p \in Paths /\ out[p] \in Seq(Records) /\ synced[p] \in Nat /\ Len(out[p]) \in Nat
    BY Values
  <2>2. keep[p] \in 0..Len(out[p]) /\ synced[p] <= keep[p] /\ keep[p] \in Nat
    BY <1>2, <2>1
  <2>3. out'[p] = Prefix(out[p], keep[p]) /\ synced'[p] = keep[p]
    BY <1>2, <2>1
  <2>4. /\ Len(Prefix(out[p], keep[p])) = keep[p]
        /\ \A i \in 1..keep[p] : Prefix(out[p], keep[p])[i] = out[p][i]
    BY <2>1, <2>2, CutFacts
  <2> QED BY <2>1, <2>2, <2>3, <2>4
<1> QED BY <1>5, <1>6

\* An interruption loses at most what was not synced.
LEMMA CrashPublication ==
    ASSUME PublicationInv, Crash, IInv' PROVE PublicationInv'
<1>1. /\ Leave /\ UNCHANGED <<telegram, state, journal, marker>>
      /\ Lose \/ UNCHANGED <<stage, staged, out, synced>>
  BY DEF Crash
<1>2. CASE UNCHANGED <<stage, staged, out, synced>>
  <2>1. Continues' /\ Accounted'
    BY <1>1, <1>2, DiskStands
  <2>2. Marked'
    BY <1>1, <1>2, MarkersStand DEF Leave
  <2> QED BY <1>1, <2>1, <2>2, LeavePublication
<1>3. CASE Lose
  <2>1. journal.phase # "absent" => \A i \in 1..journal.bytes : stage'[i] = stage[i]
    BY <1>3, LoseFacts
  <2>2. ASSUME NEW p \in Mine
        PROVE  /\ synced'[p] = Len(out'[p]) /\ Len(out'[p]) \in Nat
               /\ synced[p] <= Len(out'[p]) /\ Len(out'[p]) <= Len(out[p])
               /\ \A i \in 1..Len(out'[p]) : out'[p][i] = out[p][i]
    BY <1>3, LoseFacts
  <2>3. (Committed' <=> Committed) /\ (Publishing' <=> Publishing)
    BY <1>1 DEF Committed, Publishing
  <2>4. Continues'
    BY <1>1, <2>3 DEF PublicationInv, Continues, LowerBound, NotStale
  <2>5. ASSUME NEW p \in Mine
        PROVE  /\ state.records <= synced'[p] /\ synced'[p] <= Len(out'[p])
               /\ ~Publishing => Len(out'[p]) = state.records
               /\ \A i \in 1..state.records : out'[p][i] = out'[Stream][i]
               /\ Publishing => Len(out'[p]) <= state.records + journal.bytes
               /\ Publishing => \A i \in 1..Len(out'[p]) - state.records :
                                    out'[p][state.records + i] = stage'[i]
    <3>1. /\ state.records \in Nat /\ journal.bytes \in Nat /\ Len(out[p]) \in Nat
          /\ synced[p] \in Nat
      BY Values, Numbers
    <3>2. /\ state.records <= synced[p] /\ synced[p] <= Len(out[p])
          /\ ~Publishing => Len(out[p]) = state.records
          /\ Publishing => Len(out[p]) <= state.records + journal.bytes
      BY Lengths
    <3>0. /\ synced'[p] = Len(out'[p])
          /\ Len(out'[p]) \in Nat /\ synced[p] <= Len(out'[p]) /\ Len(out'[p]) <= Len(out[p])
      BY <2>2
    <3>3. /\ state.records <= synced'[p] /\ synced'[p] <= Len(out'[p])
          /\ ~Publishing => Len(out'[p]) = state.records
          /\ Publishing => Len(out'[p]) <= state.records + journal.bytes
      <4>1. state.records <= Len(out'[p])
        BY <3>0, <3>1, <3>2
      <4>2. ~Publishing => Len(out'[p]) = state.records
        BY <3>0, <3>1, <3>2, <4>1
      <4>3. Publishing => Len(out'[p]) <= state.records + journal.bytes
        BY <3>0, <3>1, <3>2
      <4> QED BY <3>0, <4>1, <4>2, <4>3
    <3>4. ASSUME NEW q \in Mine, NEW i \in 1..state.records PROVE out'[q][i] = out[q][i]
      <4>1. Len(out'[q]) \in Nat /\ synced[q] <= Len(out'[q]) /\ \A k \in 1..Len(out'[q]) : out'[q][k] = out[q][k]
        BY <2>2
      <4>2. state.records <= synced[q] /\ synced[q] \in Nat
        BY Lengths, Values
      <4>3. i \in 1..Len(out'[q])
        <5>1. i \in Nat /\ 1 <= i /\ i <= state.records
          BY <3>1
        <5>2. state.records <= Len(out'[q])
          BY <3>1, <4>1, <4>2
        <5> QED BY <3>1, <4>1, <5>1, <5>2
      <4> QED BY <4>1, <4>3
    <3>5. ASSUME NEW i \in 1..state.records PROVE out'[p][i] = out'[Stream][i]
      <4>1. out[p][i] = out[Stream][i] /\ Stream \in Mine
        BY Values DEF PublicationInv, Accounted
      <4> QED BY <3>4, <4>1
    <3>6. ASSUME Publishing, NEW i \in 1..Len(out'[p]) - state.records
          PROVE  out'[p][state.records + i] = stage'[i]
      <4>1. /\ i \in 1..Len(out[p]) - state.records /\ i \in 1..journal.bytes
            /\ state.records + i \in 1..Len(out'[p])
        <5>1. i \in Nat /\ 1 <= i /\ i <= Len(out'[p]) - state.records
          BY <3>0, <3>1, <3>6
        <5>2. Len(out[p]) <= state.records + journal.bytes
          BY <3>2, <3>6
        <5>3. state.records + i \in Nat /\ state.records + i <= Len(out'[p]) /\ 1 <= state.records + i
          BY <3>0, <3>1, <5>1
        <5>4. i <= Len(out[p]) - state.records /\ i <= journal.bytes
          BY <3>0, <3>1, <5>1, <5>2
        <5>5. i \in 1..Len(out[p]) - state.records /\ i \in 1..journal.bytes
          BY <3>1, <5>1, <5>4
        <5>6. state.records + i \in 1..Len(out'[p])
          BY <3>0, <5>3
        <5> QED BY <5>5, <5>6
      <4>2. out[p][state.records + i] = stage[i]
        BY <3>6, <4>1 DEF PublicationInv, Accounted
      <4>3. stage'[i] = stage[i]
        BY <2>1, <3>6, <4>1, Underway
      <4> QED BY <2>2, <4>1, <4>2, <4>3
    <3> QED BY <3>3, <3>5, <3>6
  <2>6. Accounted'
    BY <1>1, <2>3, <2>5 DEF Accounted
  <2>7. Marked'
    <3>1. \A p \in Mine : Len(out'[p]) # state.records => Len(out[p]) # state.records
      <4> SUFFICES ASSUME NEW p \in Mine, Len(out[p]) = state.records
                   PROVE  Len(out'[p]) = state.records
        OBVIOUS
      <4>1. /\ Len(out'[p]) \in Nat /\ Len(out'[p]) <= Len(out[p])
            /\ synced[p] <= Len(out'[p]) /\ state.records <= synced[p]
            /\ synced[p] \in Nat /\ state.records \in Nat
        BY <2>2, Lengths, Values, Numbers
      <4> QED BY <4>1
    <3>2. pc' = "idle"
      BY <1>1 DEF Leave
    <3> QED BY <1>1, <2>3, <3>1, <3>2 DEF PublicationInv, Marked
  <2> QED BY <1>1, <2>4, <2>6, <2>7, LeavePublication
<1> QED BY <1>1, <1>2, <1>3

(***************************************************************************)
(* The publication: the range is staged                                    *)
(***************************************************************************)

\* The stage is cut to what the journal promises.
LEMMA OpenStagePublication ==
    ASSUME PublicationInv, OpenStage, IInv' PROVE PublicationInv'
<1>1. /\ pc = "openStage" /\ jn.bytes <= Len(stage) /\ stage' = Prefix(stage, jn.bytes)
      /\ UNCHANGED <<telegram, state, journal, out, synced, marker, opt, st, jn, page, pos>>
      /\ pc' = CASE journal.phase = "absent"  -> "saveJournal"
                 [] journal.phase = "reading" -> "read"
                 [] journal.phase = "ready"   -> "plan"
                 [] journal.phase = "planned" -> "verify"
  BY DEF OpenStage, memory
<1>3. /\ Len(stage') = jn.bytes /\ \A i \in 1..jn.bytes : stage'[i] = stage[i]
      /\ stage' \in Seq(Records)
  <2>1. jn.bytes \in Nat /\ Len(stage) \in Nat /\ stage \in Seq(Records)
    BY Values, Numbers
  <2>2. jn.bytes \in 0..Len(stage)
    BY <1>1, <2>1
  <2> QED BY <1>1, <2>1, <2>2, CutFacts
<1>4. journal.phase \in Phases
  BY Values DEF Journals
<1>5. (Committed' <=> Committed) /\ (Publishing' <=> Publishing)
  BY <1>1 DEF Committed, Publishing
<1>6. Posted' /\ Copied' /\ Marked'
  BY <1>1, <1>4, TelegramStands, MarkersStand DEF Phases, Copied
<1>7. CASE journal.phase = "absent"
  <2>1. pc' = "saveJournal"
    BY <1>1, <1>7
  <2>2. jn.bytes = 0
    BY <1>1, <1>7 DEF PublicationInv, IInv, JournalInMemory
  <2>3. stage' = <<>>
    BY <1>3, <2>2
  <2>4. Continues'
    BY <1>1, <1>7 DEF PublicationInv, Continues, NotStale
  <2>5. Accounted'
    BY <1>1, <1>7 DEF PublicationInv, Accounted, Publishing
  <2>6. Located'
    BY <1>1, <1>7, <2>1, <2>3 DEF PublicationInv, Located, Writing, Full, LowerBound
  <2> QED BY <1>6, <2>4, <2>5, <2>6 DEF PublicationInv
<1>8. CASE journal.phase # "absent"
  <2>1. jn = journal /\ state = journal.base /\ ~Committed /\ st = state /\ pos = 1 /\ ~Full
    BY <1>1, <1>8, Underway DEF PublicationInv, Located
  <2>2. Continues' /\ Accounted'
    BY <1>1, <1>3, <2>1, DiskStands
  <2>3. \/ journal.phase = "reading" /\ pc' = "read"
        \/ journal.phase = "ready" /\ pc' = "plan"
        \/ journal.phase = "planned" /\ pc' = "verify"
    BY <1>1, <1>4, <1>8 DEF Phases
  <2>4. journal.phase = "planned" => Publishing
    BY <2>1, Underway
  <2>5. Located'
    BY <1>1, <1>3, <1>5, <1>8, <2>1, <2>3, <2>4 DEF Located, Writing, Full
  <2> QED BY <1>6, <2>2, <2>5 DEF PublicationInv
<1> QED BY <1>7, <1>8

\* The journal begins a range, or takes it further, with nothing published.
LEMMA StagingPublication ==
    ASSUME PublicationInv, IInv', UNCHANGED <<telegram, state, stage, out, synced, marker, st, opt, pos>>,
           ~Publishing, journal'.base = state,
           LowerBound(journal'), journal'.bytes = Len(stage), journal'.added = journal'.bytes,
           journal'.last <= head, jn' = journal', st = state, pos = 1,
           journal'.phase = (IF pc' = "plan" THEN "ready" ELSE "reading"),
           pc' \in {"read", "ready", "plan"}
    PROVE  PublicationInv'
<1>1. ~Committed' /\ ~Publishing'
  BY DEF Committed, Publishing
<1>2. Posted'
  BY DEF PublicationInv, Posted, telegram
<1>3. Continues'
  BY <1>1 DEF PublicationInv, Continues, NotStale, LowerBound
<1>4. Located'
  BY <1>1 DEF PublicationInv, Located, Writing, Full
<1>5. Accounted'
  BY <1>1 DEF PublicationInv, Accounted
<1>6. Copied'
  BY DEF Copied
<1>7. Marked'
  BY <1>1 DEF PublicationInv, Marked
<1> QED BY <1>2, <1>3, <1>4, <1>5, <1>6, <1>7 DEF PublicationInv

\* The journal of an empty range is written.
LEMMA SaveJournalPublication ==
    ASSUME PublicationInv, SaveJournal, IInv' PROVE PublicationInv'
<1>1. /\ pc = "saveJournal" /\ journal' = [jn EXCEPT !.phase = "reading"] /\ jn' = journal'
      /\ pc' = "read" /\ UNCHANGED <<telegram, state, stage, out, synced, marker, st, opt, pos>>
  BY DEF SaveJournal
<1>2. /\ journal.phase = "absent" /\ stage = <<>> /\ st = state /\ pos = 1
      /\ LowerBound(jn)
      /\ jn = [NoJournal EXCEPT !.minID = jn.minID, !.start = jn.start, !.base = state]
  BY <1>1 DEF PublicationInv, Located
<1>3. /\ jn.base = state /\ jn.bytes = 0 /\ jn.added = 0 /\ jn.last = 0
  BY <1>2 DEF NoJournal
<1>4. jn \in Journals
  BY Values
<1>5. /\ journal'.phase = "reading" /\ journal'.base = jn.base /\ journal'.bytes = jn.bytes
      /\ journal'.added = jn.added /\ journal'.last = jn.last /\ journal'.minID = jn.minID
      /\ journal'.start = jn.start
  BY <1>1, <1>4 DEF Journals
<1>6. LowerBound(journal')
  BY <1>2, <1>5 DEF LowerBound
<1>7. ~Publishing
  BY <1>2 DEF Publishing
<1>8. head \in Nat
  BY BoundsAssumption DEF PublicationInv, IInv, TypeOK, TelegramOK, MaybeID
<1>9. Len(stage) = 0
  BY <1>2
<1>10. /\ journal'.phase = "reading" /\ journal'.base = state /\ journal'.bytes = Len(stage)
       /\ journal'.added = journal'.bytes
  BY <1>3, <1>5, <1>9
<1>11. journal'.last <= head
  BY <1>3, <1>5, <1>8
<1>12. journal'.phase = (IF pc' = "plan" THEN "ready" ELSE "reading")
  BY <1>1, <1>10
<1>13. pc' \in {"read", "ready", "plan"}
  BY <1>1
<1> QED BY <1>1, <1>2, <1>6, <1>7, <1>10, <1>11, <1>12, <1>13, StagingPublication

\* What a page of the range reports and stages.
LEMMA PageFacts ==
    ASSUME PublicationInv, ReadPage
    PROVE  /\ pc = "read" /\ pc' = "checkpoint" /\ jn = journal /\ journal.phase = "reading"
           /\ UNCHANGED <<telegram, state, journal, staged, out, synced, marker, opt, st, jn, pos>>
           /\ \E P \in Answers(journal.offset, journal.minID), n \in 0..PageSize :
              \E ids \in [1..n -> IDs] :
                 /\ Listing(ids, {id \in InRange(P, journal.minID, journal.start) : ~Unchanged(id)})
                 /\ stage' = stage \o Encoded(ids)
                 /\ Encoded(ids) \in Seq(Records) /\ Len(Encoded(ids)) = n
                 /\ ReportPage(P, journal.offset, journal.minID, journal.start, n)
                 /\ page'.count = n
<1>1. /\ pc = "read" /\ pc' = "checkpoint"
      /\ UNCHANGED <<telegram, state, journal, staged, out, synced, marker, opt, st, jn, pos>>
  BY DEF ReadPage
<1>2. jn = journal /\ journal.phase = "reading"
  BY <1>1, Underway DEF PublicationInv, Located
<1>3. PICK P \in Answers(jn.offset, jn.minID), n \in 0..PageSize :
         \E ids \in [1..n -> IDs] :
            /\ Listing(ids, {id \in InRange(P, jn.minID, jn.start) : ~Unchanged(id)})
            /\ stage' = stage \o Encoded(ids)
            /\ ReportPage(P, jn.offset, jn.minID, jn.start, n)
  BY DEF ReadPage
<1>4. PICK ids \in [1..n -> IDs] :
            /\ Listing(ids, {id \in InRange(P, jn.minID, jn.start) : ~Unchanged(id)})
            /\ stage' = stage \o Encoded(ids)
            /\ ReportPage(P, jn.offset, jn.minID, jn.start, n)
  BY <1>3
<1>5. n \in Nat /\ TypeOK
  BY BoundsAssumption DEF PublicationInv, IInv
<1>6. Encoded(ids) \in Seq(Records)
  <2>1. {id \in InRange(P, jn.minID, jn.start) : ~Unchanged(id)} \subseteq P
    BY DEF InRange
  <2> QED BY <1>4, <1>5, <2>1, PageRecordsType
<1>7. Len(Encoded(ids)) = n
  BY <1>5 DEF Encoded
<1>8. page'.count = n
  BY <1>4 DEF ReportPage
<1> QED BY <1>1, <1>2, <1>4, <1>6, <1>7, <1>8

\* A page is appended to the stage.
LEMMA ReadPagePublication ==
    ASSUME PublicationInv, ReadPage, IInv' PROVE PublicationInv'
<1>1. /\ pc = "read" /\ pc' = "checkpoint" /\ jn = journal /\ journal.phase = "reading"
      /\ UNCHANGED <<telegram, state, journal, staged, out, synced, marker, opt, st, jn, pos>>
  BY PageFacts
<1>2. PICK P \in Answers(journal.offset, journal.minID), n \in 0..PageSize :
         \E ids \in [1..n -> IDs] :
            /\ stage' = stage \o Encoded(ids)
            /\ Encoded(ids) \in Seq(Records) /\ Len(Encoded(ids)) = n
            /\ ReportPage(P, journal.offset, journal.minID, journal.start, n)
            /\ page'.count = n
  BY PageFacts
<1>3. PICK ids \in [1..n -> IDs] :
            /\ stage' = stage \o Encoded(ids)
            /\ Encoded(ids) \in Seq(Records) /\ Len(Encoded(ids)) = n
            /\ ReportPage(P, journal.offset, journal.minID, journal.start, n)
            /\ page'.count = n
  BY <1>2
<1>4. Len(stage) = journal.bytes /\ st = state /\ pos = 1 /\ ~Full
  BY <1>1 DEF PublicationInv, Located
<1>5. /\ Len(stage') = Len(stage) + n
      /\ \A i \in 1..Len(stage) : stage'[i] = stage[i]
  <2>1. stage \in Seq(Records) /\ Encoded(ids) \in Seq(Records)
    BY <1>3, Values
  <2>2. /\ Len(stage \o Encoded(ids)) = Len(stage) + Len(Encoded(ids))
        /\ \A i \in 1..Len(stage) : (stage \o Encoded(ids))[i] = stage[i]
    BY <2>1, JoinFacts
  <2> QED BY <1>3, <2>2
<1>6. Continues' /\ Accounted' /\ (Committed' <=> Committed) /\ (Publishing' <=> Publishing)
  BY <1>1, <1>4, <1>5, DiskStands
<1>7. page'.last <= head
  <2>1. PICK high \in MaybeID : /\ IsHighest(high, InRange(P, journal.minID, journal.start))
                                /\ page'.last = high
    BY <1>3 DEF ReportPage
  <2>2. InRange(P, journal.minID, journal.start) \subseteq {id \in IDs : msgs[id] # 0}
    BY <1>2 DEF InRange, Answers
  <2>3. head \in Nat
    BY BoundsAssumption DEF PublicationInv, IInv, TypeOK, TelegramOK, MaybeID
  <2> QED BY <2>1, <2>2, <2>3 DEF IsHighest, PublicationInv, Posted
<1>8. Posted'
  BY <1>1, <1>7 DEF PublicationInv, Posted, telegram
<1>9. Located'
  BY <1>1, <1>3, <1>4, <1>5 DEF Located, Writing, Full
<1>10. Copied' /\ Marked'
  BY <1>1, MarkersStand DEF Copied
<1> QED BY <1>6, <1>8, <1>9, <1>10 DEF PublicationInv

\* The journal takes the page in.
LEMMA CheckpointPublication ==
    ASSUME PublicationInv, CheckpointPage, IInv' PROVE PublicationInv'
<1>1. /\ pc = "checkpoint" /\ jn' = journal' /\ pc' \in {"ready", "read"}
      /\ journal' = [jn EXCEPT !.bytes = Len(stage), !.offset = page.next,
                               !.last = Max2(@, page.last), !.added = @ + page.count]
      /\ UNCHANGED <<telegram, state, stage, out, synced, marker, st, opt, pos>>
  BY DEF CheckpointPage
<1>2. /\ jn = journal /\ journal.phase = "reading" /\ state = journal.base /\ ~Committed
      /\ st = state /\ pos = 1 /\ Len(stage) = journal.bytes + page.count
  BY <1>1, Underway DEF PublicationInv, Located
<1>3. jn \in Journals
  BY Values
<1>4. /\ journal'.phase = jn.phase /\ journal'.base = jn.base /\ journal'.bytes = Len(stage)
      /\ journal'.added = jn.added + page.count /\ journal'.last = Max2(jn.last, page.last)
      /\ journal'.minID = jn.minID /\ journal'.start = jn.start
  BY <1>1, <1>3 DEF Journals
<1>5. LowerBound(journal') /\ journal'.added = journal'.bytes
  BY <1>2, <1>4 DEF PublicationInv, Continues, LowerBound
<1>6. journal'.last <= head
  <2>1. journal.last <= head /\ page.last <= head
    BY <1>1, <1>2 DEF PublicationInv, Posted
  <2> QED BY <1>2, <1>4, <2>1 DEF Max2
<1>7. ~Publishing
  BY <1>2 DEF Publishing
<1>8. journal'.phase = "reading" /\ journal'.base = state /\ journal'.bytes = Len(stage)
  BY <1>2, <1>4
<1>9. journal'.phase = (IF pc' = "plan" THEN "ready" ELSE "reading")
  BY <1>1, <1>8
<1>10. pc' \in {"read", "ready", "plan"}
  BY <1>1
<1> QED BY <1>1, <1>2, <1>5, <1>6, <1>7, <1>8, <1>9, <1>10, StagingPublication

\* The journal says that the range is complete.
LEMMA MarkReadyPublication ==
    ASSUME PublicationInv, MarkReady, IInv' PROVE PublicationInv'
<1>1. /\ pc = "ready" /\ jn' = journal' /\ pc' = "plan"
      /\ journal' = [jn EXCEPT !.phase = "ready", !.bytes = Len(stage), !.top = top]
      /\ UNCHANGED <<telegram, state, stage, out, synced, marker, st, opt, pos>>
  BY DEF MarkReady
<1>2. /\ jn = journal /\ journal.phase = "reading" /\ state = journal.base /\ ~Committed
      /\ st = state /\ pos = 1 /\ Len(stage) = journal.bytes
  BY <1>1, Underway DEF PublicationInv, Located
<1>3. jn \in Journals
  BY Values
<1>4. /\ journal'.phase = "ready" /\ journal'.base = jn.base /\ journal'.bytes = Len(stage)
      /\ journal'.added = jn.added /\ journal'.last = jn.last
      /\ journal'.minID = jn.minID /\ journal'.start = jn.start
  BY <1>1, <1>3 DEF Journals
<1>5. LowerBound(journal') /\ journal'.added = journal'.bytes /\ journal'.last <= head
  BY <1>2, <1>4 DEF PublicationInv, Continues, LowerBound, Posted
<1>6. ~Publishing
  BY <1>2 DEF Publishing
<1> QED BY <1>1, <1>2, <1>4, <1>5, <1>6, StagingPublication

\* The journal says what the commit will write.
LEMMA PlanPublication ==
    ASSUME PublicationInv, Plan, IInv' PROVE PublicationInv'
<1>1. /\ pc = "plan" /\ jn' = journal' /\ pc' = "verify"
      /\ journal' = [jn EXCEPT !.phase = "planned", !.next = NextState,
                               !.sizes = [p \in Paths |-> IF p \in Mine THEN Len(out[p]) ELSE 0]]
      /\ UNCHANGED <<telegram, state, stage, out, synced, marker, opt, pos>>
  BY DEF Plan
<1>2. /\ jn = journal /\ journal.phase = "ready" /\ state = journal.base /\ ~Committed
      /\ st = state /\ pos = 1 /\ Len(stage) = journal.bytes /\ ~Publishing
  BY <1>1, Underway DEF PublicationInv, Located, Publishing
<1>3. jn \in Journals
  BY Values
<1>4. /\ journal'.phase = "planned" /\ journal'.base = jn.base /\ journal'.bytes = jn.bytes
      /\ journal'.added = jn.added /\ journal'.last = jn.last /\ journal'.next = NextState
      /\ journal'.minID = jn.minID /\ journal'.start = jn.start
      /\ journal'.sizes = [p \in Paths |-> IF p \in Mine THEN Len(out[p]) ELSE 0]
  BY <1>1, <1>3 DEF Journals
<1>5. NextLastID = Max2(journal.base.lastID, journal.last) /\ NextLastID \in Nat
  <2>1. ~Stale(st)
    BY <1>2, Numbers DEF PublicationInv, Continues, NotStale, Stale
  <2>2. NextLastID = Max2(st.lastID, jn.last)
    BY <2>1 DEF NextLastID
  <2>3. NextLastID \in Nat
    BY <1>2, <2>2, Numbers, Max2Type
  <2> QED BY <1>2, <2>2, <2>3
<1>6. /\ NextState.lastID = NextLastID /\ NextState.records = st.records + jn.added
      /\ NextState.stamp = Fresh
      /\ NextState.top = IF jn.top > 0 THEN Max2(jn.top, NextLastID) ELSE 0
  <2>1. st \in SyncStates
    BY Values
  <2> QED BY <2>1 DEF NextState, SyncStates
<1>7. NextState # state /\ NotStale(NextState)
  <2>1. NextState # state
    BY <1>6, FreshDiffers
  <2>2. jn.top \in Nat
    BY Numbers
  <2> QED BY <1>5, <1>6, <2>1, <2>2 DEF NotStale, Max2
<1>8. Publishing' /\ ~Committed'
  BY <1>1, <1>2, <1>4, <1>7 DEF Publishing, Committed
<1>9. Posted'
  BY <1>1, <1>2, <1>4 DEF PublicationInv, Posted, telegram
<1>10. \A p \in Mine : journal'.sizes[p] = state.records /\ Len(out[p]) = state.records
  BY <1>2, <1>4, Values, Lengths
<1>11. NextState.records = journal.base.records + journal.bytes
  BY <1>2, <1>6 DEF PublicationInv, Continues
<1>12. LowerBound(journal') /\ journal'.added = journal'.bytes
  BY <1>2, <1>4 DEF PublicationInv, Continues, LowerBound
<1>13. NotStale(state')
  BY <1>1 DEF PublicationInv, Continues
<1>14. Continues'
  <2>1. state' = journal'.base
    BY <1>1, <1>2, <1>4
  <2>2. /\ journal'.next # journal'.base /\ NotStale(journal'.next)
        /\ journal'.next.lastID = Max2(journal'.base.lastID, journal'.last)
    BY <1>2, <1>4, <1>5, <1>6, <1>7
  <2>3. journal'.next.records = journal'.base.records + journal'.bytes
    BY <1>2, <1>4, <1>11
  <2>4. \A p \in Mine : journal'.sizes[p] = journal'.base.records
    BY <1>2, <1>4, <1>10
  <2> QED BY <1>12, <1>13, <2>1, <2>2, <2>3, <2>4 DEF Continues
<1>15. Located'
  BY <1>1, <1>2, <1>4, <1>8 DEF PublicationInv, Located, Writing, Full
<1>16. Accounted'
  <2> SUFFICES ASSUME NEW p \in Mine
               PROVE  /\ state.records <= synced[p] /\ synced[p] <= Len(out[p])
                      /\ \A i \in 1..state.records : out[p][i] = out[Stream][i]
                      /\ Len(out[p]) <= state.records + journal'.bytes
                      /\ \A i \in 1..Len(out[p]) - state.records :
                             out[p][state.records + i] = stage[i]
    BY <1>1, <1>8 DEF Accounted
  <2>1. Len(out[p]) - state.records = 0 /\ Len(out[p]) <= state.records + journal'.bytes
    <3>1. Len(out[p]) = state.records /\ journal'.bytes = journal.bytes
      BY <1>2, <1>4, <1>10
    <3>2. state.records \in Nat /\ journal.bytes \in Nat
      BY Numbers
    <3>3. state.records <= state.records + journal.bytes /\ state.records - state.records = 0
      BY <3>2
    <3> QED BY <3>1, <3>3
  <2>2. \A i \in 1..Len(out[p]) - state.records : FALSE
    BY <2>1
  <2> QED BY <2>1, <2>2 DEF PublicationInv, Accounted
<1>17. Copied'
  BY <1>1 DEF Copied
<1>18. Marked'
  BY <1>1, <1>10 DEF PublicationInv, Marked
<1> QED BY <1>9, <1>14, <1>15, <1>16, <1>17, <1>18 DEF PublicationInv

(***************************************************************************)
(* The publication: the range is copied to the outputs                     *)
(***************************************************************************)

\* The lengths of the outputs are checked.
LEMMA VerifyPublication ==
    ASSUME PublicationInv, Verify, IInv' PROVE PublicationInv'
<1>1. /\ pc = "verify" /\ pc' = "mark" /\ pos' = pos
      /\ UNCHANGED <<telegram, state, journal, stage, out, synced, marker, opt, page>>
  BY DEF Verify, disk, memory
<1>2. Continues' /\ Accounted' /\ (Publishing' <=> Publishing)
  BY <1>1, DiskStands
<1>3. Posted' /\ Copied'
  BY <1>1, TelegramStands DEF Copied
<1>4. Located'
  BY <1>1, <1>2 DEF PublicationInv, Located, Writing, Full
<1>5. pos' = 1
  BY <1>1 DEF PublicationInv, Located
<1>6. Marked'
  BY <1>1, <1>5, MarkersStand
<1> QED BY <1>2, <1>3, <1>4, <1>6 DEF PublicationInv

\* One more output is marked.
LEMMA MarkPublication ==
    ASSUME PublicationInv, Mark, IInv' PROVE PublicationInv'
<1>1. /\ pc = "mark" /\ ~Full
      /\ marker' = [marker EXCEPT ![Outputs[pos]] = Self]
      /\ IF pos < Len(Outputs) THEN pc' = "mark" /\ pos' = pos + 1
                               ELSE pc' = "compare" /\ pos' = 1
      /\ UNCHANGED <<telegram, state, journal, stage, out, synced, opt, page>>
  BY DEF Mark, PublicationInv, Located
<1>2. Continues' /\ Accounted' /\ (Publishing' <=> Publishing)
  BY <1>1, DiskStands
<1>3. Posted' /\ Copied'
  BY <1>1, TelegramStands DEF Copied
<1>4. Located'
  BY <1>1, <1>2 DEF PublicationInv, Located, Writing, Full
<1>5. marker \in [Paths -> Owners \cup {NoOwner}] /\ Outputs[pos] \in Mine /\ pos \in 1..Len(Outputs)
  BY Values DEF PublicationInv, IInv, TypeOK, MarkersOK
<1>6. \A i \in 1..pos : marker'[Outputs[i]] = Self
  <2> SUFFICES ASSUME NEW i \in 1..pos PROVE marker'[Outputs[i]] = Self
    OBVIOUS
  <2>1. i \in 1..Len(Outputs) /\ (i = pos \/ i \in 1..pos - 1)
    BY <1>5, OutputNumbers
  <2>2. Outputs[i] \in Paths
    BY <2>1, Values
  <2>3. i # pos => marker[Outputs[i]] = Self
    BY <1>1, <2>1 DEF PublicationInv, Marked
  <2> QED BY <1>1, <1>5, <2>2, <2>3
<1>7. pc' = "mark" => \A i \in 1..pos' - 1 : marker'[Outputs[i]] = Self
  BY <1>1, <1>5, <1>6
<1>8. pc' = "compare" => \A p \in Mine : marker'[p] = Self
  <2>1. pc' = "compare" => pos = Len(Outputs)
    BY <1>1, <1>5, OutputNumbers
  <2> QED BY <1>6, <2>1, OutputNumbers
<1>9. Marked'
  <2>1. \A p \in Paths : marker'[p] = marker[p] \/ marker'[p] = Self
    BY <1>1, <1>5
  <2>2. pc' \in {"mark", "compare"}
    BY <1>1
  <2> QED BY <1>1, <1>7, <1>8, <2>1, <2>2, MarkersStand
<1> QED BY <1>2, <1>3, <1>4, <1>9 DEF PublicationInv

\* What the outputs hold of the range is checked.
LEMMA ComparePublication ==
    ASSUME PublicationInv, Compare, IInv' PROVE PublicationInv'
<1>1. /\ pc = "compare" /\ pc' = "copy" /\ pos' = 1
      /\ UNCHANGED <<telegram, state, journal, stage, out, synced, marker, opt, page>>
  BY DEF Compare, disk
<1>2. Continues' /\ Accounted' /\ (Publishing' <=> Publishing)
  BY <1>1, DiskStands
<1>3. Posted' /\ Copied'
  BY <1>1, TelegramStands DEF Copied
<1>4. Located'
  BY <1>1, <1>2 DEF PublicationInv, Located, Writing, Full
<1>5. \A p \in Mine : marker[p] = Self
  BY <1>1 DEF PublicationInv, Marked
<1>6. Marked'
  BY <1>1, <1>5, MarkersStand
<1> QED BY <1>2, <1>3, <1>4, <1>6 DEF PublicationInv

\* What copying does to the output at hand.
LEMMA CopyFacts ==
    ASSUME PublicationInv, Copy
    PROVE  LET p == Outputs[pos]
           IN  /\ p \in Mine
               /\ Len(out'[p]) = state.records + journal.bytes
               /\ \A i \in 1..state.records : out'[p][i] = out[p][i]
               /\ \A i \in 1..journal.bytes : out'[p][state.records + i] = stage[i]
               /\ \A q \in Paths \ {p} : out'[q] = out[q]
               /\ Len(out[p]) <= Len(out'[p])
<1> DEFINE p == Outputs[pos]
<1>1. /\ pc = "copy" /\ out' = [out EXCEPT ![p] = Overwrite(out[p], jn.sizes[p], stage)]
  BY DEF Copy
<1>2. p \in Mine /\ p \in Paths /\ out[p] \in Seq(Records) /\ out \in [Paths -> Seq(Records)]
      /\ stage \in Seq(Records) /\ Len(out[p]) \in Nat
  BY Values
<1> HIDE DEF p
<1>3. jn = journal /\ Publishing /\ Len(stage) = journal.bytes
  BY <1>1, Underway DEF PublicationInv, Located, Writing
<1>4. /\ journal.sizes[p] = state.records /\ state.records <= Len(out[p])
      /\ Len(out[p]) <= state.records + journal.bytes
  <2>1. /\ journal.sizes[p] = state.records /\ state.records <= synced[p]
        /\ synced[p] <= Len(out[p]) /\ Len(out[p]) <= state.records + journal.bytes
    BY <1>2, <1>3, Lengths
  <2>2. synced[p] \in Nat /\ state.records \in Nat
    BY <1>2, Values, Numbers
  <2> QED BY <1>2, <2>1, <2>2
<1>5. out[p] \in Seq(Records) /\ stage \in Seq(Records) /\ state.records \in 0..Len(out[p])
      /\ Len(out[p]) <= state.records + Len(stage)
  <2>1. state.records \in Nat
    BY Numbers
  <2>2. state.records \in 0..Len(out[p])
    BY <1>2, <1>4, <2>1
  <2> QED BY <1>2, <1>3, <1>4, <2>2
<1>6. /\ Len(Overwrite(out[p], state.records, stage)) = state.records + Len(stage)
      /\ \A i \in 1..state.records : Overwrite(out[p], state.records, stage)[i] = out[p][i]
      /\ \A i \in 1..Len(stage) :
             Overwrite(out[p], state.records, stage)[state.records + i] = stage[i]
  BY <1>5, OverwriteFacts
<1>7. /\ out'[p] = Overwrite(out[p], state.records, stage)
      /\ \A q \in Paths \ {p} : out'[q] = out[q]
  BY <1>1, <1>2, <1>3, <1>4
<1>8. /\ p \in Mine /\ Len(out'[p]) = state.records + journal.bytes
      /\ \A i \in 1..state.records : out'[p][i] = out[p][i]
      /\ \A i \in 1..journal.bytes : out'[p][state.records + i] = stage[i]
      /\ \A q \in Paths \ {p} : out'[q] = out[q]
      /\ Len(out[p]) <= Len(out'[p])
  BY <1>2, <1>3, <1>4, <1>6, <1>7
<1> QED BY <1>8 DEF p

\* One output receives the whole stage.
LEMMA CopyPublication ==
    ASSUME PublicationInv, Copy, IInv' PROVE PublicationInv'
<1> DEFINE p == Outputs[pos]
<1>1. /\ pc = "copy" /\ pc' = "flush" /\ pos' = pos
      /\ UNCHANGED <<telegram, state, journal, stage, synced, marker, opt, page>>
  BY DEF Copy, memory
<1>2. /\ p \in Mine
      /\ Len(out'[p]) = state.records + journal.bytes
      /\ \A i \in 1..state.records : out'[p][i] = out[p][i]
      /\ \A i \in 1..journal.bytes : out'[p][state.records + i] = stage[i]
      /\ \A q \in Paths \ {p} : out'[q] = out[q]
      /\ Len(out[p]) <= Len(out'[p])
  BY CopyFacts
<1>3. pos \in 1..Len(Outputs)
  BY Values
<1> HIDE DEF p
<1>4. Publishing /\ Publishing' /\ (Committed' <=> Committed)
  BY <1>1 DEF PublicationInv, Located, Writing, Publishing, Committed
<1>5. Posted'
  BY <1>1, TelegramStands
<1>6. Continues'
  BY <1>1, <1>4 DEF PublicationInv, Continues, LowerBound, NotStale
<1>7. Located'
  BY <1>1, <1>4 DEF PublicationInv, Located, Writing, Full
<1>8. \A q \in Mine : \A i \in 1..state.records : out'[q][i] = out[q][i]
  BY <1>2, Values
<1>9. Accounted'
  <2> SUFFICES ASSUME NEW q \in Mine
               PROVE  /\ state.records <= synced[q] /\ synced[q] <= Len(out'[q])
                      /\ \A i \in 1..state.records : out'[q][i] = out'[Stream][i]
                      /\ Len(out'[q]) <= state.records + journal.bytes
                      /\ \A i \in 1..Len(out'[q]) - state.records :
                             out'[q][state.records + i] = stage[i]
    BY <1>1, <1>4 DEF Accounted
  <2>1. \A i \in 1..state.records : out'[q][i] = out'[Stream][i]
    BY <1>8, Values DEF PublicationInv, Accounted
  <2>2. CASE q = p
    <3>1. state.records \in Nat /\ journal.bytes \in Nat /\ synced[q] \in Nat /\ Len(out[q]) \in Nat
      BY Values, Numbers
    <3>2. state.records <= synced[q] /\ synced[q] <= Len(out[q])
      BY Lengths
    <3>3. synced[q] <= Len(out'[q]) /\ Len(out'[q]) - state.records = journal.bytes
      BY <1>2, <2>2, <3>1, <3>2
    <3> QED BY <1>2, <2>1, <2>2, <3>1, <3>2, <3>3
  <2>3. CASE q # p
    <3>1. out'[q] = out[q]
      BY <1>2, <2>3, Values
    <3> QED BY <1>4, <2>1, <3>1 DEF PublicationInv, Accounted
  <2> QED BY <2>2, <2>3
<1>10. Copied'
  <2>1. Len(out'[Outputs[pos]]) = state.records + journal.bytes
    BY <1>2 DEF p
  <2>2. ASSUME NEW i \in 1..pos - 1
        PROVE  out'[Outputs[i]] = out[Outputs[i]]
    <3>1. i \in 1..Len(Outputs) /\ i # pos
      BY <1>3, OutputNumbers
    <3>2. Outputs[i] # p /\ Outputs[i] \in Paths
      BY <1>3, <3>1, OutputNumbers, Values DEF p
    <3> QED BY <1>2, <3>2
  <2>3. \A i \in 1..pos - 1 : Whole(Outputs[i]) /\ synced[Outputs[i]] = Len(out[Outputs[i]])
    BY <1>1 DEF PublicationInv, Copied
  <2> QED BY <1>1, <2>1, <2>2, <2>3 DEF Copied, Whole
<1>11. Marked'
  <2>1. \A q \in Mine : marker[q] = Self
    BY <1>1 DEF PublicationInv, Marked
  <2> QED BY <1>1, <2>1 DEF PublicationInv, Marked
<1> QED BY <1>5, <1>6, <1>7, <1>9, <1>10, <1>11 DEF PublicationInv

\* One output is synced.
LEMMA FlushPublication ==
    ASSUME PublicationInv, Flush, IInv' PROVE PublicationInv'
<1> DEFINE p == Outputs[pos]
<1>1. /\ pc = "flush" /\ synced' = [synced EXCEPT ![p] = Len(out[p])]
      /\ IF pos < Len(Outputs) THEN pc' = "copy" /\ pos' = pos + 1
                               ELSE pc' = "commit" /\ pos' = 1
      /\ UNCHANGED <<telegram, state, journal, stage, out, marker, opt, page>>
  BY DEF Flush
<1>2. pos \in 1..Len(Outputs) /\ p \in Mine /\ p \in Paths /\ synced \in [Paths -> Nat]
  BY Values
<1>3. synced'[p] = Len(out[p]) /\ \A q \in Mine : q # p => synced'[q] = synced[q]
  BY <1>1, <1>2, Values
<1>4. Publishing /\ Publishing' /\ (Committed' <=> Committed)
  BY <1>1 DEF PublicationInv, Located, Writing, Publishing, Committed
<1>5. Posted'
  BY <1>1, TelegramStands
<1>6. Continues'
  BY <1>1, <1>4 DEF PublicationInv, Continues, LowerBound, NotStale
<1>7. Located'
  BY <1>1, <1>4 DEF PublicationInv, Located, Writing, Full
<1>8. Accounted'
  <2>1. ASSUME NEW q \in Mine PROVE state.records <= synced'[q] /\ synced'[q] <= Len(out[q])
    <3>1. state.records <= synced[q] /\ synced[q] <= Len(out[q])
      BY Lengths
    <3>2. state.records \in Nat /\ synced[q] \in Nat /\ Len(out[q]) \in Nat
      BY Values, Numbers
    <3> QED BY <1>3, <3>1, <3>2
  <2> QED BY <1>1, <1>4, <2>1 DEF PublicationInv, Accounted
<1>9. \A i \in 1..pos : Whole(Outputs[i]) /\ synced'[Outputs[i]] = Len(out[Outputs[i]])
  <2> SUFFICES ASSUME NEW i \in 1..pos
               PROVE  Whole(Outputs[i]) /\ synced'[Outputs[i]] = Len(out[Outputs[i]])
    OBVIOUS
  <2>1. i \in 1..Len(Outputs) /\ (i = pos \/ i \in 1..pos - 1)
    BY <1>2, OutputNumbers
  <2>2. CASE i = pos
    BY <1>1, <1>3, <2>2 DEF PublicationInv, Copied
  <2>3. CASE i \in 1..pos - 1
    <3>1. Whole(Outputs[i]) /\ synced[Outputs[i]] = Len(out[Outputs[i]])
      BY <1>1, <2>3 DEF PublicationInv, Copied
    <3>2. Outputs[i] \in Mine
      BY <2>1, Values
    <3> QED BY <1>3, <3>1, <3>2
  <2> QED BY <2>1, <2>2, <2>3
<1>10. Copied'
  <2>1. CASE pos < Len(Outputs)
    <3>1. pc' = "copy" /\ pos' - 1 = pos
      BY <1>1, <1>2, <2>1
    <3> QED BY <1>1, <1>9, <3>1 DEF Copied, Whole
  <2>2. CASE ~(pos < Len(Outputs))
    <3>1. pc' = "commit" /\ pos = Len(Outputs)
      BY <1>1, <1>2, <2>2, OutputNumbers
    <3>2. \A q \in Mine : Whole(q) /\ synced'[q] = Len(out[q])
      BY <1>9, <3>1, OutputNumbers
    <3> QED BY <1>1, <3>1, <3>2 DEF Copied, Whole
  <2> QED BY <2>1, <2>2
<1>11. Marked'
  <2>1. \A q \in Mine : marker[q] = Self
    BY <1>1 DEF PublicationInv, Marked
  <2> QED BY <1>1, <2>1 DEF PublicationInv, Marked
<1> QED BY <1>5, <1>6, <1>7, <1>8, <1>10, <1>11 DEF PublicationInv

\* What the commit adds to what the state accounts for.
LEMMA CommitFacts ==
    ASSUME PublicationInv, Commit
    PROVE  /\ Staged /\ Publishing /\ state' = journal.next /\ journal' = journal /\ out' = out
           /\ state'.records = state.records + journal.bytes
           /\ state'.lastID = Max2(state.lastID, journal.last)
           /\ Len(stage) = journal.bytes /\ stage' = stage
           /\ \A p \in Mine :
                  /\ Len(out[p]) = state'.records /\ synced[p] = state'.records
                  /\ \A i \in 1..journal.bytes : out[p][state.records + i] = stage[i]
           /\ Committed' /\ ~Publishing'
<1>1. /\ pc = "commit" /\ state' = jn.next /\ UNCHANGED <<journal, out, stage>>
  BY DEF Commit
<1>2. jn = journal /\ Publishing /\ state = journal.base /\ ~Committed /\ journal.phase = "planned"
      /\ Len(stage) = journal.bytes
  BY <1>1, Underway DEF PublicationInv, Located, Writing
<1>3. /\ journal.next.lastID = Max2(journal.base.lastID, journal.last)
      /\ journal.next.records = journal.base.records + journal.bytes
  BY <1>2 DEF PublicationInv, Continues
<1>4. ASSUME NEW p \in Mine
      PROVE  /\ Len(out[p]) = state.records + journal.bytes /\ synced[p] = Len(out[p])
             /\ \A i \in 1..journal.bytes : out[p][state.records + i] = stage[i]
  <2>1. Len(out[p]) = state.records + journal.bytes /\ synced[p] = Len(out[p])
    BY <1>1 DEF PublicationInv, Copied, Whole
  <2>2. Len(out[p]) - state.records = journal.bytes
    <3>1. state.records \in Nat /\ journal.bytes \in Nat
      BY Numbers
    <3> QED BY <2>1, <3>1
  <2> QED BY <1>2, <2>1, <2>2 DEF PublicationInv, Accounted
<1>5. Committed' /\ ~Publishing' /\ Staged
  BY <1>1, <1>2 DEF Committed, Publishing, Staged
<1> QED BY <1>1, <1>2, <1>3, <1>4, <1>5

\* The planned checkpoint replaces the state.
LEMMA CommitPublication ==
    ASSUME PublicationInv, Commit, IInv' PROVE PublicationInv'
<1>1. /\ pc = "commit" /\ pc' = "unmark" /\ pos' = 1
      /\ UNCHANGED <<telegram, journal, stage, out, synced, marker, opt, page>>
  BY DEF Commit
<1>2. /\ Publishing /\ state' = journal.next /\ journal.phase = "planned"
      /\ state'.records = state.records + journal.bytes
      /\ state'.lastID = Max2(state.lastID, journal.last)
      /\ \A p \in Mine :
             /\ Len(out[p]) = state'.records /\ synced[p] = state'.records
             /\ \A i \in 1..journal.bytes : out[p][state.records + i] = stage[i]
      /\ Committed' /\ ~Publishing'
  BY CommitFacts DEF Publishing
<1>3. Posted'
  <2>1. state.lastID <= head /\ journal.last <= head
    BY <1>2 DEF PublicationInv, Posted
  <2> QED BY <1>1, <1>2, <2>1 DEF PublicationInv, Posted, Max2, telegram
<1>4. Continues'
  <2>1. NotStale(journal.next)
    BY <1>2 DEF PublicationInv, Continues
  <2> QED BY <1>1, <1>2, <2>1 DEF PublicationInv, Continues, LowerBound, NotStale
<1>5. Located'
  BY <1>1, <1>2 DEF PublicationInv, Located, Writing, Full
<1>6. Accounted'
  <2> SUFFICES ASSUME NEW p \in Mine, NEW i \in 1..state'.records
               PROVE  out[p][i] = out[Stream][i]
    <3>1. \A p \in Mine : Len(out[p]) \in Nat
      BY Values
    <3> QED BY <1>1, <1>2, <3>1 DEF Accounted
  <2>1. state.records \in Nat /\ journal.bytes \in Nat /\ Stream \in Mine
    BY Values, Numbers
  <2>2. CASE i <= state.records
    BY <2>1, <2>2 DEF PublicationInv, Accounted
  <2>3. CASE i > state.records
    <3>1. i - state.records \in 1..journal.bytes /\ state.records + (i - state.records) = i
      BY <1>2, <2>1, <2>3
    <3>2. \A q \in Mine : out[q][state.records + (i - state.records)] = stage[i - state.records]
      BY <1>2, <3>1
    <3> QED BY <2>1, <3>1, <3>2
  <2> QED BY <1>2, <2>1, <2>2, <2>3
<1>7. Copied'
  BY <1>1 DEF Copied
<1>8. Marked'
  BY <1>1, <1>2 DEF PublicationInv, Marked
<1> QED BY <1>3, <1>4, <1>5, <1>6, <1>7, <1>8 DEF PublicationInv

\* One more marker is removed.
LEMMA UnmarkPublication ==
    ASSUME PublicationInv, Unmark, IInv' PROVE PublicationInv'
<1>1. /\ pc = "unmark" /\ marker' = [marker EXCEPT ![Outputs[pos]] = NoOwner]
      /\ pc' \in {"unmark", "removeJournal"} /\ UNCHANGED <<opt, page>>
      /\ UNCHANGED <<telegram, state, journal, stage, out, synced>>
  BY DEF Unmark, PublicationInv, Located
<1>2. Continues' /\ Accounted' /\ (Committed' <=> Committed) /\ (Publishing' <=> Publishing)
  BY <1>1, DiskStands
<1>3. Committed /\ ~Publishing
  BY <1>1 DEF PublicationInv, Located, Committed, Publishing
<1>4. Posted' /\ Copied'
  BY <1>1, TelegramStands DEF Copied
<1>5. Located'
  BY <1>1, <1>2, <1>3 DEF PublicationInv, Located, Writing, Full
<1>6. Marked'
  <2>1. marker \in [Paths -> Owners \cup {NoOwner}]
    BY DEF PublicationInv, IInv, TypeOK, MarkersOK
  <2>2. \A q \in Paths : marker'[q] \in {NoOwner, Self}
    BY <1>1, <2>1 DEF PublicationInv, Marked
  <2> QED BY <1>1, <1>2, <1>3, <2>2 DEF Marked
<1> QED BY <1>2, <1>4, <1>5, <1>6 DEF PublicationInv

\* The journal is removed.
LEMMA RemoveJournalPublication ==
    ASSUME PublicationInv, RemoveJournal, IInv' PROVE PublicationInv'
<1>1. /\ pc = "removeJournal" /\ pc' = "removeStage" /\ journal' = NoJournal
      /\ UNCHANGED <<telegram, state, stage, out, synced, marker, opt, page>>
  BY DEF RemoveJournal, memory
<1>2. journal'.phase = "absent" /\ ~Publishing /\ ~Publishing' /\ ~Committed'
  BY <1>1 DEF NoJournal, PublicationInv, Located, Committed, Publishing
<1>3. Posted'
  BY <1>1, <1>2 DEF PublicationInv, Posted, telegram
<1>4. Continues'
  BY <1>1, <1>2 DEF PublicationInv, Continues, NotStale
<1>5. Located'
  BY <1>1, <1>2 DEF PublicationInv, Located, Writing, Full
<1>6. Accounted'
  BY <1>1, <1>2 DEF PublicationInv, Accounted
<1>7. Copied' /\ Marked'
  BY <1>1, <1>2 DEF PublicationInv, Copied, Marked
<1> QED BY <1>3, <1>4, <1>5, <1>6, <1>7 DEF PublicationInv

(***************************************************************************)
(* The publication: every step, and what follows                           *)
(***************************************************************************)

\* Before the first run nothing is published.
LEMMA InitPublication == Init => PublicationInv
<1> SUFFICES ASSUME Init PROVE PublicationInv
  OBVIOUS
<1>1. /\ msgs = [id \in IDs |-> 0] /\ head = 0 /\ state = ZeroState /\ journal = NoJournal
      /\ out = [p \in Paths |-> <<>>] /\ synced = [p \in Paths |-> 0]
      /\ marker = [p \in Paths |-> NoOwner] /\ pc = "idle" /\ opt = NoOpt
  BY DEF Init
<1>2. IInv
  BY InitInv
<1>3. journal.phase = "absent" /\ ~Publishing
  BY <1>1 DEF NoJournal, Publishing
<1>4. Posted
  BY <1>1, <1>3 DEF Posted, ZeroState
<1>5. Continues
  BY <1>1, <1>3 DEF Continues, NotStale, ZeroState
<1>6. Located /\ Copied
  BY <1>1 DEF Located, Copied, Writing, Full, NoOpt
<1>7. \A p \in Mine : out[p] = <<>> /\ synced[p] = 0
  BY <1>1, ConstantTypes
<1>8. Accounted
  BY <1>1, <1>3, <1>7 DEF Accounted, ZeroState
<1>9. Marked
  BY <1>1, <1>3 DEF Marked
<1> QED BY <1>2, <1>4, <1>5, <1>6, <1>8, <1>9 DEF PublicationInv

\* Every step of a run under way.
LEMMA RunPublication ==
    ASSUME PublicationInv, Step, IInv' PROVE PublicationInv'
<1>1. ~(OpenOutput \/ ReadHistoryPage \/ CheckpointHistory \/ Finish)
  BY DEF OpenOutput, ReadHistoryPage, CheckpointHistory, Finish, PublicationInv, Located
<1>2. \/ OpenStage \/ SaveJournal \/ ReadPage \/ CheckpointPage \/ MarkReady
      \/ Plan \/ Verify \/ Mark \/ Compare \/ Copy \/ Flush \/ Commit \/ Unmark
      \/ RemoveJournal \/ RemoveStage \/ Refuse
  BY <1>1 DEF Step
<1> QED
  BY <1>2, OpenStagePublication, SaveJournalPublication, ReadPagePublication,
     CheckpointPublication, MarkReadyPublication, PlanPublication, VerifyPublication,
     MarkPublication, ComparePublication, CopyPublication, FlushPublication,
     CommitPublication, UnmarkPublication, RemoveJournalPublication,
     RemoveStagePublication, RefusePublication

\* Nothing changes.
LEMMA StutterPublication ==
    ASSUME PublicationInv, UNCHANGED vars, IInv' PROVE PublicationInv'
<1>1. UNCHANGED <<telegram, state, journal, stage, out, synced, marker, pc, opt, st, jn,
                  page, pos>>
  BY DEF vars, disk, memory
<1>2. (Committed' <=> Committed) /\ (Publishing' <=> Publishing)
  BY <1>1 DEF Committed, Publishing
<1>3. Posted' /\ Continues'
  BY <1>1, <1>2 DEF PublicationInv, Posted, Continues, LowerBound, NotStale, telegram
<1>4. Located'
  BY <1>1, <1>2 DEF PublicationInv, Located, Full, LowerBound
<1>5. Accounted' /\ Copied' /\ Marked'
  BY <1>1, <1>2 DEF PublicationInv, Accounted, Copied, Whole, Marked
<1> QED BY <1>3, <1>4, <1>5 DEF PublicationInv

\* Every step of incremental runs.
LEMMA PublicationStep ==
    PublicationInv /\ [Next]_vars /\ [Incremental]_vars => PublicationInv'
<1> SUFFICES ASSUME PublicationInv, [Next]_vars, [Incremental]_vars PROVE PublicationInv'
  OBVIOUS
<1>1. IInv'
  BY KeepsTypes DEF PublicationInv
<1>2. CASE UNCHANGED vars
  BY <1>1, <1>2, StutterPublication
<1>3. CASE Next /\ Incremental
  <2>1. CASE Environment
    BY <1>1, <2>1, TelegramPublication
  <2>2. ASSUME NEW o \in Options, Start(o) PROVE PublicationInv'
    <3>1. StartIncremental(o)
      BY <1>3, <2>2 DEF Incremental, Start, StartFull
    <3> QED BY <1>1, <3>1, StartPublication
  <2>3. CASE Step
    BY <1>1, <2>3, RunPublication
  <2>4. CASE Crash
    BY <1>1, <2>4, CrashPublication
  <2> QED BY <1>3, <2>1, <2>2, <2>3, <2>4 DEF Next
<1> QED BY <1>2, <1>3

\* Every behaviour of incremental runs keeps the invariant of the publication.
LEMMA PublicationInvariance == Spec /\ [][Incremental]_vars => []PublicationInv
BY InitPublication, PublicationStep, PTL DEF Spec

\* A journal that an interruption leaves can be resumed: the state on disk is the
\* one it began with, or the one it promised (incremental.go:84 refuses others).
THEOREM JournalContinues == Spec /\ [][Incremental]_vars => []JournalResumable
<1>1. PublicationInv => JournalResumable
  BY DEF PublicationInv, Continues, JournalResumable, Committed
<1> QED BY <1>1, PublicationInvariance, PTL

\* Outputs without marker and lock hold what the checkpoint accounts for, record
\* for record, and nothing else (publication.go, EnsurePublished).
THEOREM MarkerCoversPublication == Spec /\ [][Incremental]_vars => []ReadableIsCommitted
<1>1. PublicationInv => ReadableIsCommitted
  <2> SUFFICES ASSUME PublicationInv, \A p \in Mine : Readable(p), NEW p \in Mine
               PROVE  Len(out[p]) = state.records /\ out[p] = out[Stream]
    BY DEF ReadableIsCommitted
  <2>1. Self # NoOwner /\ Stream \in Mine /\ \A q \in Mine : marker[q] = NoOwner
    BY OwnersAssumption, Values DEF Readable
  <2>2. \A q \in Mine : Len(out[q]) = state.records
    <3>1. Publishing => \A q \in Mine : Len(out[q]) = state.records
      BY <2>1 DEF PublicationInv, Marked
    <3> QED BY <3>1 DEF PublicationInv, Accounted
  <2>3. out[p] \in Seq(Records) /\ out[Stream] \in Seq(Records)
    BY Values
  <2>4. \A i \in 1..Len(out[p]) : out[p][i] = out[Stream][i]
    BY <2>2 DEF PublicationInv, Accounted
  <2>5. out[p] = out[Stream]
    BY <2>1, <2>2, <2>3, <2>4, SeqEqual
  <2> QED BY <2>2, <2>5
<1> QED BY <1>1, PublicationInvariance, PTL

\* No check in the middle of a run fails.
NeverRefused == ~CheckFails

\* Whatever was interrupted before, a run that was let in is never refused: the
\* stage is as long as promised, the outputs are as long as recorded, and what
\* they hold past that is the beginning of the stage (incremental.go:99 and
\* verifyIncrementalOutputs; Refuse is never taken).
THEOREM ResumedRunsGoOn == Spec /\ [][Incremental]_vars => []NeverRefused
<1>1. PublicationInv => NeverRefused
  <2> SUFFICES ASSUME PublicationInv PROVE ~CheckFails
    BY DEF NeverRefused
  <2>1. ~(pc = "openStage" /\ jn.bytes > Len(stage))
    <3>1. pc = "openStage" => (jn = journal /\ journal.phase # "absent") \/ jn.bytes = 0
      BY DEF PublicationInv, IInv, JournalInMemory
    <3>2. journal.phase # "absent" => journal.bytes <= staged
      BY DEF PublicationInv, IInv, JournalDurable
    <3>3. staged <= Len(stage)
      BY DEF PublicationInv, IInv, StageDurable
    <3>4. staged \in Nat /\ Len(stage) \in Nat /\ journal.bytes \in Nat /\ jn.bytes \in Nat
      BY Values, Numbers
    <3> QED BY <3>1, <3>2, <3>3, <3>4
  <2>2. ASSUME pc \in Writing, NEW p \in Mine
        PROVE  /\ jn.sizes[p] = state.records /\ Len(out[p]) >= jn.sizes[p]
               /\ Len(out[p]) <= jn.sizes[p] + jn.bytes /\ SuffixOurs(p)
    <3>1. jn = journal /\ Publishing
      BY <2>2, Underway DEF PublicationInv, Located
    <3>2. /\ journal.sizes[p] = state.records /\ state.records <= synced[p]
          /\ synced[p] <= Len(out[p]) /\ Len(out[p]) <= state.records + journal.bytes
      BY <3>1, Lengths
    <3>3. /\ state.records \in Nat /\ journal.bytes \in Nat /\ synced[p] \in Nat
          /\ Len(out[p]) \in Nat /\ stage \in Seq(Records)
      BY Values, Numbers
    <3>4. Len(out[p]) >= state.records
      BY <3>2, <3>3
    <3>5. Len(stage) = journal.bytes
      BY <2>2 DEF PublicationInv, Located
    <3>6. \A i \in 1..Len(out[p]) - state.records : i \in 1..Len(stage)
      BY <3>2, <3>3, <3>5
    <3>7. SuffixOurs(p)
      BY <3>1, <3>2, <3>3, <3>6 DEF SuffixOurs, PublicationInv, Accounted
    <3> QED BY <3>1, <3>2, <3>4, <3>7
  <2>3. pc = "verify" => SizesFit(jn)
    BY <2>2 DEF SizesFit, Writing
  <2>4. pc = "mark" => marker[Outputs[pos]] \in {NoOwner, Self}
    BY Values DEF PublicationInv, Marked
  <2>5. pc = "compare" => \A p \in Mine : SuffixOurs(p)
    BY <2>2 DEF Writing
  <2> QED BY <2>1, <2>3, <2>4, <2>5 DEF CheckFails
<1> QED BY <1>1, PublicationInvariance, PTL

(***************************************************************************)
(* The records: each message once, then only its revisions                 *)
(***************************************************************************)

\* The ids of the records the state accounts for and of the stage.
LEMMA RecordIDs ==
    ASSUME PublicationInv
    PROVE  /\ \A i \in 1..Len(stage) : stage[i] \in Records /\ stage[i].id \in IDs
           /\ \A i \in 1..Len(out[Stream]) :
                  out[Stream][i] \in Records /\ out[Stream][i].id \in IDs
           /\ \A i \in 1..state.records : i \in 1..Len(out[Stream])
           /\ Staged => \A i \in 1..journal.bytes : i \in 1..Len(stage)
<1>1. /\ stage \in Seq(Records) /\ out[Stream] \in Seq(Records) /\ Len(stage) \in Nat
      /\ Stream \in Mine /\ Len(out[Stream]) \in Nat /\ staged \in Nat /\ synced[Stream] \in Nat
  BY Values
<1>2. \A i \in 1..Len(stage) : stage[i] \in Records
  BY <1>1, ElementOfSeq
<1>3. \A i \in 1..Len(out[Stream]) : out[Stream][i] \in Records
  BY <1>1, ElementOfSeq
<1>4. state.records <= Len(out[Stream])
  <2>1. state.records <= synced[Stream] /\ synced[Stream] <= Len(out[Stream])
    BY <1>1, Lengths
  <2>2. state.records \in Nat
    BY Numbers
  <2> QED BY <1>1, <2>1, <2>2
<1>5. Staged => journal.bytes <= Len(stage)
  <2>1. Staged => journal.bytes <= staged
    BY DEF PublicationInv, IInv, JournalDurable, Staged
  <2>2. staged <= Len(stage)
    BY DEF PublicationInv, IInv, StageDurable
  <2>3. journal.bytes \in Nat
    BY Numbers
  <2> QED BY <1>1, <2>1, <2>2, <2>3
<1>6. \A r \in Records : r.id \in IDs
  BY DEF Records
<1>7. state.records \in Nat /\ journal.bytes \in Nat
  BY Numbers
<1> QED BY <1>1, <1>2, <1>3, <1>4, <1>5, <1>6, <1>7

\* Staged records after the stored ones leave each message once and revised.
LEMMA RevisedGrows ==
    ASSUME RecordInv, Staged, NEW n \in 0..journal.bytes,
           \A i \in 1..n : out[Stream][state.records + i] = stage[i]
    PROVE  Revised(out[Stream], state.records + n)
<1> DEFINE log == out[Stream]
           N == state.records
<1>1. N \in Nat /\ n \in Nat /\ journal.bytes \in Nat /\ n <= journal.bytes
  BY Numbers DEF RecordInv
<1>2. Revised(log, N)
  BY DEF RecordInv, LogSound
<1>3. \A i \in 1..journal.bytes :
          /\ \A k \in 1..journal.bytes : stage[k].id = stage[i].id => k = i
          /\ \A k \in 1..N :
                 /\ log[k].id = stage[i].id
                 /\ \A m \in (k + 1)..N : log[m].id # stage[i].id
                 => stage[i].rev /\ stage[i].ver # log[k].ver
  BY DEF RecordInv, StageSound, Sound
<1> HIDE DEF log, N
<1>4. \A i \in 1..n : log[N + i] = stage[i]
  BY DEF log, N
<1> SUFFICES ASSUME NEW i \in 1..N + n, NEW k \in 1..N + n, i < k, log[i].id = log[k].id,
                    \A m \in (i + 1)..(k - 1) : log[m].id # log[i].id
             PROVE  log[i].ver # log[k].ver /\ log[k].rev
  BY DEF Revised, log, N
<1>5. CASE k <= N
  <2>1. i \in 1..N /\ k \in 1..N
    BY <1>1, <1>5
  <2> QED BY <1>2, <2>1 DEF Revised
<1>6. CASE k > N
  <2>1. PICK j \in 1..n : k = N + j
    <3>1. k - N \in 1..n /\ k = N + (k - N)
      BY <1>1, <1>6
    <3> QED BY <3>1
  <2>2. log[k] = stage[j] /\ j \in 1..journal.bytes
    BY <1>1, <1>4, <2>1
  <2>3. CASE i <= N
    <3>1. i \in 1..N
      BY <1>1, <2>3
    <3>2. \A m \in (i + 1)..N : m \in (i + 1)..(k - 1)
      BY <1>1, <1>6
    <3>3. \A m \in (i + 1)..N : log[m].id # stage[j].id
      BY <2>2, <3>2
    <3> QED BY <1>3, <2>2, <3>1, <3>3
  <2>4. CASE i > N
    <3>1. PICK l \in 1..n : i = N + l
      <4>1. i - N \in 1..n /\ i = N + (i - N)
        BY <1>1, <2>4
      <4> QED BY <4>1
    <3>2. log[i] = stage[l] /\ l \in 1..journal.bytes
      BY <1>1, <1>4, <3>1
    <3>3. l = j
      BY <1>3, <2>2, <3>2
    <3> QED BY <2>1, <3>1, <3>3
  <2> QED BY <1>1, <2>3, <2>4
<1> QED BY <1>1, <1>5, <1>6

\* The records accounted for, and those of the range, stay as they are.
LEMMA RecordsStand ==
    ASSUME RecordInv, PublicationInv', pc' # "checkpoint", state' = state,
           \A i \in 1..state.records : out'[Stream][i] = out[Stream][i],
           Staged' => /\ Staged /\ \A i \in 1..journal.bytes : stage'[i] = stage[i]
                      /\ journal'.minID = journal.minID /\ journal'.offset = journal.offset
                      /\ journal'.last = journal.last /\ journal'.bytes = journal.bytes
    PROVE  RecordInv'
<1>1. LogSound'
  <2>1. \A i \in 1..state.records : out'[Stream][i].id <= state.lastID
    BY DEF RecordInv, LogSound
  <2>2. Revised(out'[Stream], state.records)
    <3>1. state.records \in Nat
      BY Numbers DEF RecordInv
    <3>2. Revised(out[Stream], state.records)
      BY DEF RecordInv, LogSound
    <3>3. \A i, k \in 1..state.records : \A m \in (i + 1)..(k - 1) : m \in 1..state.records
      BY <3>1
    <3> QED BY <3>2, <3>3 DEF Revised
  <2> QED BY <2>1, <2>2 DEF LogSound
<1>2. StageSound'
  <2> SUFFICES ASSUME Staged' PROVE Sound(journal.bytes, journal.offset, journal.last)'
    BY DEF StageSound
  <2>1. Sound(journal.bytes, journal.offset, journal.last)
    BY DEF RecordInv, StageSound
  <2>2. state.records \in Nat
    BY Numbers DEF RecordInv
  <2>3. \A k \in 1..state.records : \A m \in (k + 1)..state.records : m \in 1..state.records
    BY <2>2
  <2>4. /\ journal'.minID = journal.minID /\ journal'.offset = journal.offset
        /\ journal'.last = journal.last /\ journal'.bytes = journal.bytes
        /\ \A i \in 1..journal.bytes : stage'[i] = stage[i]
        /\ \A i \in 1..state.records : out'[Stream][i] = out[Stream][i]
        /\ state' = state
    OBVIOUS
  <2> QED BY <2>1, <2>3, <2>4 DEF Sound
<1> QED BY <1>1, <1>2 DEF RecordInv

\* A step that writes neither records nor journal.
LEMMA RecordsUntouched ==
    ASSUME RecordInv, PublicationInv', UNCHANGED <<state, journal, stage, out, pc, page>>
    PROVE  RecordInv'
<1>1. Committed' <=> Committed
  BY DEF Committed
<1> QED BY <1>1 DEF RecordInv, StageSound, LogSound, Sound, Staged, Revised

\* The journal begins with an empty range.
LEMMA SaveJournalFacts ==
    ASSUME PublicationInv, SaveJournal
    PROVE  /\ pc = "saveJournal" /\ pc' = "read" /\ UNCHANGED <<telegram, state, stage, out>>
           /\ journal.phase = "absent" /\ journal'.phase = "reading"
           /\ journal'.bytes = 0 /\ journal'.offset = 0 /\ journal'.last = 0
           /\ journal'.base = state /\ journal'.start = jn.start
<1>1. /\ pc = "saveJournal" /\ journal' = [jn EXCEPT !.phase = "reading"]
      /\ pc' = "read" /\ UNCHANGED <<telegram, state, stage, out>>
  BY DEF SaveJournal
<1>2. /\ journal.phase = "absent"
      /\ jn = [NoJournal EXCEPT !.minID = jn.minID, !.start = jn.start, !.base = state]
  BY <1>1 DEF PublicationInv, Located
<1>3. jn.base = state /\ jn.bytes = 0 /\ jn.offset = 0 /\ jn.last = 0
  BY <1>2 DEF NoJournal
<1>4. jn \in Journals
  BY Values
<1>5. /\ journal'.phase = "reading" /\ journal'.base = jn.base /\ journal'.bytes = jn.bytes
      /\ journal'.offset = jn.offset /\ journal'.last = jn.last /\ journal'.start = jn.start
  BY <1>1, <1>4 DEF Journals
<1> QED BY <1>1, <1>2, <1>3, <1>5

\* An empty range holds no records.
LEMMA SaveJournalRecords ==
    ASSUME RecordInv, SaveJournal, PublicationInv' PROVE RecordInv'
<1>1. /\ pc' = "read" /\ UNCHANGED <<state, stage, out>>
      /\ journal'.bytes = 0 /\ journal'.offset = 0 /\ journal'.last = 0
  BY SaveJournalFacts DEF RecordInv
<1>2. Sound(journal.bytes, journal.offset, journal.last)'
  BY <1>1 DEF Sound
<1> QED BY <1>1, <1>2 DEF RecordInv, StageSound, LogSound, Revised

\* A page P of the range is read: the messages ids of it are staged.
PageRead(P, n, ids) ==
    /\ Listing(ids, {id \in InRange(P, journal.minID, journal.start) : ~Unchanged(id)})
    /\ Len(stage') = journal.bytes + n
    /\ \A i \in 1..journal.bytes : stage'[i] = stage[i]
    /\ \A i \in 1..n : stage'[journal.bytes + i] = RecordOf(ids[i])
    /\ IsLowest(page'.next, P, journal.offset)
    /\ IsHighest(page'.last, InRange(P, journal.minID, journal.start))
    /\ page'.done = WalkDone(P, journal.minID, journal.start)

\* A step that reads a page reads it so.
LEMMA ReadFacts ==
    ASSUME PublicationInv, ReadPage
    PROVE  \E P \in Answers(journal.offset, journal.minID), n \in Nat :
           \E ids \in [1..n -> IDs] : PageRead(P, n, ids)
<1>1. PICK P \in Answers(journal.offset, journal.minID), n \in 0..PageSize :
         \E ids \in [1..n -> IDs] :
            /\ Listing(ids, {id \in InRange(P, journal.minID, journal.start) : ~Unchanged(id)})
            /\ stage' = stage \o Encoded(ids)
            /\ Encoded(ids) \in Seq(Records) /\ Len(Encoded(ids)) = n
            /\ ReportPage(P, journal.offset, journal.minID, journal.start, n)
            /\ page'.count = n
  BY PageFacts
<1>2. PICK ids \in [1..n -> IDs] :
            /\ Listing(ids, {id \in InRange(P, journal.minID, journal.start) : ~Unchanged(id)})
            /\ stage' = stage \o Encoded(ids)
            /\ Encoded(ids) \in Seq(Records) /\ Len(Encoded(ids)) = n
            /\ ReportPage(P, journal.offset, journal.minID, journal.start, n)
            /\ page'.count = n
  BY <1>1
<1>3. n \in Nat
  BY BoundsAssumption
<1>4. Len(stage) = journal.bytes /\ stage \in Seq(Records)
  BY PageFacts, Values DEF PublicationInv, Located
<1>5. /\ Len(stage') = journal.bytes + n
      /\ \A i \in 1..journal.bytes : stage'[i] = stage[i]
      /\ \A i \in 1..n : stage'[journal.bytes + i] = Encoded(ids)[i]
  <2>1. /\ Len(stage \o Encoded(ids)) = Len(stage) + Len(Encoded(ids))
        /\ \A i \in 1..Len(stage) : (stage \o Encoded(ids))[i] = stage[i]
        /\ \A i \in 1..Len(Encoded(ids)) :
               (stage \o Encoded(ids))[Len(stage) + i] = Encoded(ids)[i]
    <3>1. stage \in Seq(Records) /\ Encoded(ids) \in Seq(Records)
      BY <1>2, <1>4
    <3> QED BY <3>1, JoinFacts
  <2> QED BY <1>2, <1>4, <2>1
<1>6. \A i \in 1..n : Encoded(ids)[i] = RecordOf(ids[i])
  BY <1>2 DEF Encoded
<1>7. /\ IsLowest(page'.next, P, journal.offset)
      /\ IsHighest(page'.last, InRange(P, journal.minID, journal.start))
      /\ page'.done = WalkDone(P, journal.minID, journal.start)
  BY <1>2 DEF ReportPage
<1>8. PageRead(P, n, ids)
  BY <1>2, <1>5, <1>6, <1>7 DEF PageRead
<1> QED BY <1>3, <1>8

\* What an answer holds, and what lies between its messages.
LEMMA AnswerFacts ==
    ASSUME NEW off \in Nat, NEW minID \in Nat, NEW P \in Answers(off, minID)
    PROVE  /\ \A id \in P : id \in IDs /\ id \in Nat /\ id >= 1 /\ msgs[id] # 0 /\ (off = 0 \/ id < off)
           /\ \A id \in IDs : /\ msgs[id] # 0 /\ id > minID /\ (off = 0 \/ id < off)
                              => /\ P # {}
                                 /\ id \in P \/ \A a \in P : id < a
<1>1. PICK lo \in {0, minID} :
         LET window == {id \in IDs : msgs[id] # 0 /\ id > lo /\ (off = 0 \/ id < off)}
         IN  /\ P \subseteq window
             /\ P = {} <=> window = {}
             /\ \A a \in P, b \in window \ P : b < a
  BY DEF Answers
<1> DEFINE window == {id \in IDs : msgs[id] # 0 /\ id > lo /\ (off = 0 \/ id < off)}
<1>2. P \subseteq window /\ (P = {} <=> window = {}) /\ \A a \in P, b \in window \ P : b < a
  BY <1>1
<1>3. \A id \in IDs : id \in Nat /\ id >= 1
  BY BoundsAssumption DEF IDs
<1>4. ASSUME NEW id \in IDs, msgs[id] # 0, id > minID, off = 0 \/ id < off
      PROVE  id \in window
  <2>1. id > lo
    BY <1>3, <1>4
  <2> QED BY <1>4, <2>1
<1> QED BY <1>2, <1>3, <1>4

\* The last record of a message is the one with the highest position.
LEMMA LastStoredFacts ==
    ASSUME PublicationInv, pc = "read", NEW id, NEW k \in 1..state.records,
           out[Stream][k].id = id,
           \A m \in (k + 1)..state.records : out[Stream][m].id # id
    PROVE  Stored(id) # {} /\ LastStored(id) = out[Stream][k]
<1>1. Stream \in Mine /\ out[Stream] \in Seq(Records)
  BY Values
<1>2. Len(out[Stream]) = state.records
  <2>1. ~Publishing
    BY DEF PublicationInv, Located, Publishing
  <2> QED BY <1>1, <2>1, Lengths
<1>3. state.records \in Nat
  BY Numbers
<1>4. DOMAIN out[Stream] = 1..state.records
  BY <1>1, <1>2, LenProperties
<1>5. k \in Stored(id)
  BY <1>4 DEF Stored
<1>6. \A i \in Stored(id) : i <= k
  <2> SUFFICES ASSUME NEW i \in Stored(id), i > k PROVE FALSE
    BY <1>3, <1>4 DEF Stored
  <2>1. i \in 1..state.records /\ out[Stream][i].id = id
    BY <1>4 DEF Stored
  <2>2. i \in (k + 1)..state.records
    BY <1>3, <2>1
  <2> QED BY <2>1, <2>2
<1>7. \A i \in Stored(id) : (\A l \in Stored(id) : l <= i) => i = k
  <2> SUFFICES ASSUME NEW i \in Stored(id), \A l \in Stored(id) : l <= i PROVE i = k
    OBVIOUS
  <2>1. i <= k /\ k <= i /\ i \in Nat /\ k \in Nat
    BY <1>3, <1>4, <1>5, <1>6 DEF Stored
  <2> QED BY <2>1
<1>8. (CHOOSE i \in Stored(id) : \A l \in Stored(id) : l <= i) = k
  BY <1>5, <1>6, <1>7
<1> QED BY <1>5, <1>8 DEF LastStored

\* The page adds each of its messages once, below what was read before.
LEMMA ReadPageRecords ==
    ASSUME RecordInv, ReadPage, PublicationInv' PROVE RecordInv'
<1>1. /\ pc = "read" /\ pc' = "checkpoint" /\ jn = journal /\ journal.phase = "reading"
      /\ UNCHANGED <<state, journal, out, jn>>
  BY PageFacts DEF RecordInv
<1>0. PICK P \in Answers(journal.offset, journal.minID), n \in Nat :
         \E ids \in [1..n -> IDs] : PageRead(P, n, ids)
  BY ReadFacts DEF RecordInv
<1>2. PICK ids \in [1..n -> IDs] : PageRead(P, n, ids)
  BY <1>0
<1>3. PublicationInv /\ Staged /\ (Staged' <=> Staged)
  BY <1>1, Underway DEF RecordInv, Staged, Committed
<1> DEFINE b == journal.bytes
           last == Max2(journal.last, page'.last)
           low == page'.next
<1>4. /\ b \in Nat /\ journal.last \in Nat /\ journal.offset \in Nat /\ journal.minID \in Nat
      /\ journal.start \in Nat /\ state.records \in Nat /\ state.lastID \in Nat
      /\ page'.next \in Nat /\ page'.last \in Nat
  <2>1. page'.next \in Nat /\ page'.last \in Nat
    <3>1. page' \in Pages
      BY DEF PublicationInv, IInv, TypeOK, PageOK
    <3> QED BY <3>1, BoundsAssumption DEF Pages, MaybeID
  <2> QED BY <1>3, <2>1, Numbers
<1>5. Sound(b, journal.offset, journal.last)
  BY <1>3 DEF RecordInv, StageSound
<1>6. /\ \A id \in P : id \in IDs /\ id \in Nat /\ id >= 1 /\ (journal.offset = 0 \/ id < journal.offset)
  BY <1>4, AnswerFacts
<1>7. /\ Len(stage') = b + n
      /\ \A i \in 1..b : stage'[i] = stage[i]
      /\ \A i \in 1..n : stage'[b + i] = RecordOf(ids[i])
      /\ IsLowest(low, P, journal.offset)
      /\ IsHighest(page'.last, InRange(P, journal.minID, journal.start))
  BY <1>2 DEF PageRead
<1>8. last \in Nat /\ last >= journal.last /\ last >= page'.last
  BY <1>4 DEF Max2
<1>9. low = 0 => last = 0
  <2> SUFFICES ASSUME low = 0 PROVE last = 0
    OBVIOUS
  <2>1. P = {} /\ journal.offset = 0
    BY <1>6, <1>7 DEF IsLowest
  <2>2. journal.last = 0
    BY <1>5, <2>1 DEF Sound
  <2>3. page'.last = 0
    BY <1>7, <2>1 DEF IsHighest, InRange
  <2> QED BY <2>2, <2>3 DEF Max2
<1>10. ASSUME NEW i \in 1..n
       PROVE  /\ ids[i] \in P /\ ids[i] > journal.minID /\ ids[i] >= low /\ ids[i] <= last
              /\ ids[i] >= journal.start
              /\ ~Unchanged(ids[i])
  <2>1. ids[i] \in InRange(P, journal.minID, journal.start) /\ ~Unchanged(ids[i])
    BY <1>2 DEF PageRead, Listing
  <2>2. ids[i] \in P /\ ids[i] > journal.minID /\ ids[i] >= journal.start
    BY <2>1 DEF InRange
  <2>3. ids[i] >= low
    BY <1>4, <1>6, <1>7, <2>2 DEF IsLowest
  <2>4. ids[i] <= page'.last
    BY <1>7, <2>1 DEF IsHighest
  <2>5. ids[i] <= last
    BY <1>4, <1>6, <1>8, <2>2, <2>4
  <2> QED BY <2>1, <2>2, <2>3, <2>5
<1>11. ASSUME NEW i \in 1..b
       PROVE  /\ stage[i].id \in IDs /\ stage[i].id \in Nat /\ stage[i].id >= 1
              /\ stage[i].id > journal.minID /\ stage[i].id >= low /\ stage[i].id <= last
              /\ \A id \in P : stage[i].id # id
  <2>1. /\ stage[i].id > journal.minID /\ stage[i].id >= journal.offset
        /\ stage[i].id <= journal.last /\ (journal.offset = 0 => journal.last = 0)
    BY <1>5 DEF Sound
  <2>2. stage[i].id \in IDs
    BY <1>3, RecordIDs
  <2>3. stage[i].id \in Nat /\ stage[i].id >= 1
    BY <2>2, BoundsAssumption DEF IDs
  <2>4. journal.offset # 0
    BY <1>4, <2>1, <2>3
  <2>5. \A id \in P : id < stage[i].id
    BY <1>4, <1>6, <2>1, <2>3, <2>4
  <2>6. low <= stage[i].id
    <3>1. CASE P = {}
      BY <1>7, <2>1, <3>1 DEF IsLowest
    <3>2. CASE P # {}
      <4>1. low \in P
        BY <1>7, <3>2 DEF IsLowest
      <4> QED BY <1>4, <2>3, <2>5, <4>1
    <3> QED BY <3>1, <3>2
  <2>7. stage[i].id <= last
    BY <1>4, <1>8, <2>1, <2>3
  <2>8. \A id \in P : stage[i].id # id
    BY <1>6, <2>3, <2>5
  <2> QED BY <1>4, <2>1, <2>2, <2>3, <2>6, <2>7, <2>8
<1>12. ASSUME NEW i \in 1..n, NEW k \in 1..state.records, out[Stream][k].id = ids[i],
              \A m \in (k + 1)..state.records : out[Stream][m].id # ids[i]
       PROVE  RecordOf(ids[i]).rev /\ RecordOf(ids[i]).ver # out[Stream][k].ver
  <2>1. Stored(ids[i]) # {} /\ LastStored(ids[i]) = out[Stream][k]
    BY <1>1, <1>3, <1>12, LastStoredFacts
  <2>2. jn.start # 0
    <3> SUFFICES ASSUME jn.start = 0 PROVE FALSE
      OBVIOUS
    <3>1. journal.minID = journal.base.lastID /\ journal.base = state
      BY <1>1, <1>3, Underway DEF PublicationInv, Continues, LowerBound
    <3>2. out[Stream][k].id <= state.lastID
      BY DEF RecordInv, LogSound
    <3>3. ids[i] > state.lastID /\ ids[i] \in Nat
      BY <1>6, <1>10, <3>1
    <3> QED BY <1>4, <1>12, <3>2, <3>3
  <2>3. Known(ids[i])
    BY <2>1, <2>2 DEF Known
  <2>4. LastStored(ids[i]).ver # msgs[ids[i]]
    BY <1>10, <2>3 DEF Unchanged
  <2> QED BY <2>1, <2>3, <2>4 DEF RecordOf
<1>13. \A i \in 1..n : RecordOf(ids[i]).id = ids[i]
  BY DEF RecordOf
<1>14. \A i, k \in 1..n : ids[i] = ids[k] => i = k
  <2>1. \A i, k \in 1..n : i < k => ids[i] < ids[k]
    BY <1>2 DEF PageRead, Listing
  <2>2. \A i \in 1..n : ids[i] \in Nat
    BY <1>6, <1>10
  <2> SUFFICES ASSUME NEW i \in 1..n, NEW k \in 1..n, ids[i] = ids[k] PROVE i = k
    OBVIOUS
  <2>3. ~(i < k) /\ ~(k < i)
    BY <2>1, <2>2
  <2> QED BY <1>4, <2>3
<1> DEFINE part(i) == \/ i \in 1..b /\ stage'[i] = stage[i]
                      \/ \E j \in 1..n : i = b + j /\ stage'[i] = RecordOf(ids[j])
<1>15. \A i \in 1..(b + n) : part(i)
  <2> SUFFICES ASSUME NEW i \in 1..(b + n) PROVE part(i)
    OBVIOUS
  <2>1. CASE i <= b
    <3>1. i \in 1..b
      BY <1>4, <2>1
    <3> QED BY <1>7, <3>1
  <2>2. CASE i > b
    <3>1. i - b \in 1..n /\ i = b + (i - b)
      BY <1>4, <2>2
    <3> QED BY <1>7, <3>1
  <2> QED BY <1>4, <2>1, <2>2
<1> HIDE DEF b, last, low
<1>16. ASSUME NEW i \in 1..(b + n)
       PROVE  /\ stage'[i].id > journal.minID /\ stage'[i].id >= low /\ stage'[i].id <= last
              /\ \A k \in 1..(b + n) : stage'[k].id = stage'[i].id => k = i
              /\ \A k \in 1..state.records :
                     /\ out[Stream][k].id = stage'[i].id
                     /\ \A m \in (k + 1)..state.records : out[Stream][m].id # stage'[i].id
                     => stage'[i].rev /\ stage'[i].ver # out[Stream][k].ver
  <2>1. CASE i \in 1..b /\ stage'[i] = stage[i]
    <3>1. \A k \in 1..(b + n) : stage'[k].id = stage'[i].id => k = i
      <4> SUFFICES ASSUME NEW k \in 1..(b + n), stage'[k].id = stage'[i].id PROVE k = i
        OBVIOUS
      <4>1. CASE k \in 1..b /\ stage'[k] = stage[k]
        BY <1>5, <2>1, <4>1 DEF Sound, b
      <4>2. ASSUME NEW j \in 1..n, stage'[k] = RecordOf(ids[j]) PROVE FALSE
        BY <1>10, <1>11, <1>13, <2>1, <4>2
      <4> QED BY <1>15, <4>1, <4>2
    <3>2. \A k \in 1..state.records :
              /\ out[Stream][k].id = stage[i].id
              /\ \A m \in (k + 1)..state.records : out[Stream][m].id # stage[i].id
              => stage[i].rev /\ stage[i].ver # out[Stream][k].ver
      BY <1>5, <2>1 DEF Sound, b
    <3> QED BY <1>11, <2>1, <3>1, <3>2
  <2>2. ASSUME NEW j \in 1..n, i = b + j, stage'[i] = RecordOf(ids[j])
        PROVE  /\ stage'[i].id > journal.minID /\ stage'[i].id >= low /\ stage'[i].id <= last
               /\ \A k \in 1..(b + n) : stage'[k].id = stage'[i].id => k = i
               /\ \A k \in 1..state.records :
                      /\ out[Stream][k].id = stage'[i].id
                      /\ \A m \in (k + 1)..state.records : out[Stream][m].id # stage'[i].id
                      => stage'[i].rev /\ stage'[i].ver # out[Stream][k].ver
    <3>1. stage'[i].id = ids[j]
      BY <1>13, <2>2
    <3>2. \A k \in 1..(b + n) : stage'[k].id = stage'[i].id => k = i
      <4> SUFFICES ASSUME NEW k \in 1..(b + n), stage'[k].id = stage'[i].id PROVE k = i
        OBVIOUS
      <4>1. CASE k \in 1..b /\ stage'[k] = stage[k]
        BY <1>10, <1>11, <3>1, <4>1
      <4>2. ASSUME NEW l \in 1..n, k = b + l, stage'[k] = RecordOf(ids[l]) PROVE k = i
        BY <1>13, <1>14, <2>2, <3>1, <4>2
      <4> QED BY <1>15, <4>1, <4>2
    <3> QED BY <1>10, <1>12, <2>2, <3>1, <3>2
  <2> QED BY <1>15, <2>1, <2>2
<1>17. Sound(Len(stage), page.next, Max2(journal.last, page.last))'
  BY <1>1, <1>7, <1>9, <1>16 DEF Sound, last, low, Max2
<1>18. Sound(journal.bytes, journal.offset, journal.last)'
  <2>1. \A i \in 1..b : stage'[i] = stage[i]
    BY <1>7
  <2> QED BY <1>1, <1>5, <2>1 DEF Sound, b
<1>19. LogSound'
  BY <1>1 DEF RecordInv, LogSound, Revised
<1> QED BY <1>17, <1>18, <1>19 DEF RecordInv, StageSound

\* The page is taken into the journal.
LEMMA CheckpointFacts ==
    ASSUME PublicationInv, CheckpointPage
    PROVE  /\ pc = "checkpoint" /\ pc' = (IF page.done THEN "ready" ELSE "read")
           /\ UNCHANGED <<telegram, state, stage, out>> /\ journal.phase = "reading" /\ Staged
           /\ journal'.phase = "reading" /\ journal'.bytes = Len(stage)
           /\ journal'.offset = page.next /\ journal'.last = Max2(journal.last, page.last)
           /\ journal'.minID = journal.minID /\ journal'.start = journal.start
           /\ journal'.base = journal.base
<1>1. /\ pc = "checkpoint" /\ pc' = (IF page.done THEN "ready" ELSE "read")
      /\ journal' = [jn EXCEPT !.bytes = Len(stage), !.offset = page.next,
                               !.last = Max2(@, page.last), !.added = @ + page.count]
      /\ UNCHANGED <<telegram, state, stage, out>>
  BY DEF CheckpointPage
<1>2. jn = journal /\ journal.phase = "reading" /\ Staged
  BY <1>1, Underway DEF PublicationInv, Located, Staged
<1>3. jn \in Journals
  BY Values
<1>4. /\ journal'.phase = jn.phase /\ journal'.bytes = Len(stage)
      /\ journal'.offset = page.next /\ journal'.last = Max2(jn.last, page.last)
      /\ journal'.minID = jn.minID /\ journal'.start = jn.start /\ journal'.base = jn.base
  BY <1>1, <1>3 DEF Journals
<1> QED BY <1>1, <1>2, <1>4

\* The journal takes the records of the page in.
LEMMA CheckpointRecords ==
    ASSUME RecordInv, CheckpointPage, PublicationInv' PROVE RecordInv'
<1>1. /\ pc = "checkpoint" /\ pc' # "checkpoint" /\ UNCHANGED <<state, stage, out>>
      /\ journal'.bytes = Len(stage) /\ journal'.offset = page.next
      /\ journal'.last = Max2(journal.last, page.last) /\ journal'.minID = journal.minID
  BY CheckpointFacts DEF RecordInv
<1>2. Sound(Len(stage), page.next, Max2(journal.last, page.last))
  BY <1>1 DEF RecordInv, StageSound
<1>3. Sound(journal.bytes, journal.offset, journal.last)'
  BY <1>1, <1>2 DEF Sound
<1> QED BY <1>1, <1>3 DEF RecordInv, StageSound, LogSound, Revised

\* The range is complete, or its publication is planned.
LEMMA RangeFacts ==
    ASSUME PublicationInv, MarkReady \/ Plan
    PROVE  /\ pc \in {"ready", "plan"} /\ pc' \in {"plan", "verify"}
           /\ UNCHANGED <<telegram, state, stage, out>> /\ Staged
           /\ pc = "ready" \/ journal.phase = "ready"
           /\ journal'.phase # "absent"
           /\ journal'.bytes = journal.bytes /\ journal'.offset = journal.offset
           /\ journal'.last = journal.last /\ journal'.minID = journal.minID
           /\ journal'.start = journal.start /\ journal'.base = journal.base
<1>1. CASE MarkReady
  <2>1. /\ pc = "ready" /\ pc' = "plan" /\ UNCHANGED <<telegram, state, stage, out>>
        /\ journal' = [jn EXCEPT !.phase = "ready", !.bytes = Len(stage), !.top = top]
    BY <1>1 DEF MarkReady
  <2>2. jn = journal /\ Staged /\ Len(stage) = journal.bytes
    BY <2>1, Underway DEF PublicationInv, Located, Staged
  <2>3. jn \in Journals
    BY Values
  <2>4. /\ journal'.phase = "ready" /\ journal'.bytes = Len(stage)
        /\ journal'.offset = jn.offset /\ journal'.last = jn.last
        /\ journal'.minID = jn.minID /\ journal'.start = jn.start /\ journal'.base = jn.base
    BY <2>1, <2>3 DEF Journals
  <2> QED BY <2>1, <2>2, <2>4
<1>2. CASE Plan
  <2>1. /\ pc = "plan" /\ pc' = "verify" /\ UNCHANGED <<telegram, state, stage, out>>
        /\ journal' = [jn EXCEPT !.phase = "planned", !.next = NextState,
                             !.sizes = [p \in Paths |-> IF p \in Mine THEN Len(out[p]) ELSE 0]]
    BY <1>2 DEF Plan
  <2>2. jn = journal /\ Staged /\ journal.phase = "ready"
    BY <2>1, Underway DEF PublicationInv, Located, Staged
  <2>3. jn \in Journals
    BY Values
  <2>4. /\ journal'.phase = "planned" /\ journal'.bytes = jn.bytes
        /\ journal'.offset = jn.offset /\ journal'.last = jn.last
        /\ journal'.minID = jn.minID /\ journal'.start = jn.start /\ journal'.base = jn.base
    BY <2>1, <2>3 DEF Journals
  <2> QED BY <2>1, <2>2, <2>4
<1> QED BY <1>1, <1>2

\* Copying leaves what the state accounts for.
LEMMA CopyKeeps ==
    ASSUME PublicationInv, Copy
    PROVE  \A i \in 1..state.records : out'[Stream][i] = out[Stream][i]
<1>1. /\ \A i \in 1..state.records : out'[Outputs[pos]][i] = out[Outputs[pos]][i]
      /\ \A q \in Paths \ {Outputs[pos]} : out'[q] = out[q]
  BY CopyFacts
<1> QED BY <1>1, Values

\* Cutting the stage to what the journal promises leaves that.
LEMMA OpenStageKeeps ==
    ASSUME PublicationInv, OpenStage, journal.phase # "absent"
    PROVE  \A i \in 1..journal.bytes : stage'[i] = stage[i]
<1>1. jn = journal /\ jn.bytes <= Len(stage) /\ stage' = Prefix(stage, jn.bytes)
  BY DEF OpenStage, PublicationInv, IInv, JournalInMemory
<1>2. jn.bytes \in Nat /\ Len(stage) \in Nat /\ stage \in Seq(Records)
  BY Values, Numbers
<1>3. jn.bytes \in 0..Len(stage)
  BY <1>1, <1>2
<1> QED BY <1>1, <1>2, <1>3, CutFacts

\* What every other step of a run leaves of the records and of the range.
Keeps ==
    /\ state' = state /\ \A i \in 1..state.records : out'[Stream][i] = out[Stream][i]
    /\ pc' \notin {"checkpoint", "ready"}
    /\ Staged' => /\ Staged /\ \A i \in 1..journal.bytes : stage'[i] = stage[i]
                  /\ journal'.minID = journal.minID /\ journal'.offset = journal.offset
                  /\ journal'.last = journal.last /\ journal'.bytes = journal.bytes
                  /\ journal'.start = journal.start
                  /\ journal'.phase # "reading" => journal.phase # "reading" \/ pc = "ready"
    /\ journal'.phase # "absent" =>
           /\ journal.phase # "absent"
           /\ journal'.start = journal.start /\ journal'.base = journal.base
    /\ UNCHANGED msgs

\* Which steps those are.
LEMMA KeepingSteps ==
    ASSUME PublicationInv,
           \/ \E o \in Options : StartIncremental(o)
           \/ OpenStage \/ MarkReady \/ Plan \/ Verify \/ Mark \/ Compare \/ Copy \/ Flush
           \/ Unmark \/ RemoveJournal \/ RemoveStage \/ Refuse \/ Crash
    PROVE  Keeps
<1>1. ASSUME UNCHANGED <<msgs, state, journal>>, pc' \notin {"checkpoint", "ready"},
             \A i \in 1..state.records : out'[Stream][i] = out[Stream][i],
             journal.phase # "absent" => \A i \in 1..journal.bytes : stage'[i] = stage[i]
      PROVE  Keeps
  <2>1. Staged' <=> Staged
    BY <1>1 DEF Staged, Committed
  <2> QED BY <1>1, <2>1 DEF Keeps, Staged
<1>2. ASSUME NEW o \in Options, StartIncremental(o) PROVE Keeps
  <2>1. /\ UNCHANGED <<msgs, state, journal, stage, out>> /\ pc' \in {"openStage", "unmark"}
    BY <1>2 DEF StartIncremental, disk, telegram
  <2> QED BY <1>1, <2>1
<1>3. CASE OpenStage
  <2>1. UNCHANGED <<msgs, state, journal, out>> /\ pc' \notin {"checkpoint", "ready"}
    <3>1. journal.phase \in Phases
      BY Values DEF Journals
    <3> QED BY <1>3, <3>1 DEF OpenStage, telegram, Phases
  <2> QED BY <1>1, <1>3, <2>1, OpenStageKeeps
<1>4. CASE MarkReady \/ Plan
  <2>1. Staged /\ UNCHANGED <<telegram, state, stage, out>>
    BY <1>4, RangeFacts
  <2> QED BY <1>4, <2>1, RangeFacts DEF Keeps, Staged, telegram
<1>5. CASE Verify \/ Mark \/ Compare \/ Flush \/ Unmark \/ Refuse
  <2>1. UNCHANGED <<msgs, state, journal, stage, out>> /\ pc' \notin {"checkpoint", "ready"}
    BY <1>5 DEF Verify, Mark, Compare, Flush, Unmark, Refuse, Leave, disk, telegram
  <2> QED BY <1>1, <2>1
<1>6. CASE Copy
  <2>1. UNCHANGED <<msgs, state, journal, stage>> /\ pc' = "flush"
    BY <1>6 DEF Copy, telegram
  <2> QED BY <1>1, <1>6, <2>1, CopyKeeps
<1>7. CASE RemoveJournal \/ RemoveStage
  <2>1. /\ UNCHANGED <<msgs, state, out>> /\ pc' \in {"removeStage", "idle"}
        /\ journal'.phase = "absent"
    BY <1>7 DEF RemoveJournal, RemoveStage, Leave, NoJournal, PublicationInv, Located, telegram
  <2>2. ~Staged'
    BY <2>1 DEF Staged
  <2> QED BY <2>1, <2>2 DEF Keeps
<1>8. CASE Crash
  <2>1. UNCHANGED <<msgs, state, journal>> /\ pc' = "idle" /\ (Lose \/ UNCHANGED <<stage, out>>)
    BY <1>8 DEF Crash, Leave, telegram
  <2>2. ASSUME Lose, NEW i \in 1..state.records PROVE out'[Stream][i] = out[Stream][i]
    <3>1. /\ Len(out'[Stream]) \in Nat /\ synced[Stream] <= Len(out'[Stream])
          /\ \A k \in 1..Len(out'[Stream]) : out'[Stream][k] = out[Stream][k]
      BY <2>2, LoseFacts, Values
    <3>2. state.records <= synced[Stream] /\ synced[Stream] \in Nat /\ state.records \in Nat
      BY Lengths, Values, Numbers
    <3>3. i \in 1..Len(out'[Stream])
      BY <3>1, <3>2
    <3> QED BY <3>1, <3>3
  <2>3. CASE Lose
    BY <1>1, <2>1, <2>2, <2>3, LoseFacts
  <2> QED BY <1>1, <2>1, <2>3
<1> QED BY <1>2, <1>3, <1>4, <1>5, <1>6, <1>7, <1>8

\* The state accounts for the records of the range.
LEMMA CommitRecords ==
    ASSUME RecordInv, Commit, PublicationInv' PROVE RecordInv'
<1>1. /\ Staged /\ Committed' /\ pc' = "unmark" /\ UNCHANGED out
      /\ state'.records = state.records + journal.bytes
      /\ state'.lastID = Max2(state.lastID, journal.last)
      /\ \A i \in 1..journal.bytes : out[Stream][state.records + i] = stage[i]
  BY CommitFacts, Values DEF RecordInv, Commit
<1>2. /\ state.records \in Nat /\ journal.bytes \in Nat /\ state.lastID \in Nat
      /\ journal.last \in Nat /\ journal.bytes \in 0..journal.bytes
  BY Numbers DEF RecordInv
<1>3. Revised(out[Stream], state'.records)
  BY <1>1, <1>2, RevisedGrows
<1>4. ASSUME NEW i \in 1..state'.records PROVE out[Stream][i].id <= state'.lastID
  <2>1. out[Stream][i].id \in Nat
    <3>1. i \in 1..state'.records /\ PublicationInv'
      BY <1>4
    <3>2. state'.records = Len(out[Stream])
      BY <1>1, CommitFacts, Values DEF RecordInv
    <3>3. out[Stream][i].id \in IDs
      BY <3>2, RecordIDs DEF RecordInv
    <3> QED BY <3>3, BoundsAssumption DEF IDs
  <2>2. state'.lastID >= state.lastID /\ state'.lastID >= journal.last /\ state'.lastID \in Nat
    BY <1>1, <1>2 DEF Max2
  <2>3. CASE i <= state.records
    <3>1. i \in 1..state.records
      BY <1>1, <1>2, <2>3
    <3>2. out[Stream][i].id <= state.lastID
      BY <3>1 DEF RecordInv, LogSound
    <3> QED BY <1>2, <2>1, <2>2, <3>2
  <2>4. CASE i > state.records
    <3>1. i - state.records \in 1..journal.bytes /\ state.records + (i - state.records) = i
      BY <1>1, <1>2, <2>4
    <3>2. out[Stream][i] = stage[i - state.records]
      BY <1>1, <3>1
    <3>3. out[Stream][i].id <= journal.last
      BY <1>1, <3>1, <3>2 DEF RecordInv, StageSound, Sound
    <3> QED BY <1>2, <2>1, <2>2, <3>3
  <2> QED BY <1>1, <1>2, <2>3, <2>4
<1>5. LogSound'
  BY <1>1, <1>3, <1>4 DEF LogSound, Revised
<1>6. StageSound'
  BY <1>1 DEF StageSound, Staged
<1> QED BY <1>5, <1>6 DEF RecordInv

\* The steps of incremental runs.
LEMMA StepKinds ==
    ASSUME PublicationInv, [Next]_vars, [Incremental]_vars
    PROVE  \/ Environment \/ UNCHANGED vars
           \/ SaveJournal \/ ReadPage \/ CheckpointPage \/ Commit
           \/ \E o \in Options : StartIncremental(o)
           \/ OpenStage \/ MarkReady \/ Plan \/ Verify \/ Mark \/ Compare \/ Copy \/ Flush
           \/ Unmark \/ RemoveJournal \/ RemoveStage \/ Refuse \/ Crash
<1>1. ~(OpenOutput \/ ReadHistoryPage \/ CheckpointHistory \/ Finish)
  BY DEF OpenOutput, ReadHistoryPage, CheckpointHistory, Finish, PublicationInv, Located
<1>2. CASE UNCHANGED vars
  BY <1>2
<1>3. ASSUME Next, Incremental, NEW o \in Options, Start(o) PROVE StartIncremental(o)
  BY <1>3 DEF Incremental, Start, StartFull
<1> QED BY <1>1, <1>2, <1>3 DEF Next, Step

\* Every step of incremental runs keeps the invariant of the records.
LEMMA RecordStep == RecordInv /\ [Next]_vars /\ [Incremental]_vars => RecordInv'
<1> SUFFICES ASSUME RecordInv, [Next]_vars, [Incremental]_vars PROVE RecordInv'
  OBVIOUS
<1>1. PublicationInv /\ PublicationInv'
  BY PublicationStep DEF RecordInv
<1>2. CASE Environment \/ UNCHANGED vars
  <2>1. UNCHANGED <<state, journal, stage, out, pc, page>>
    BY <1>2 DEF Environment, Post, Edit, Delete, vars, disk, memory
  <2> QED BY <1>1, <2>1, RecordsUntouched
<1>3. CASE SaveJournal
  BY <1>1, <1>3, SaveJournalRecords
<1>4. CASE ReadPage
  BY <1>1, <1>4, ReadPageRecords
<1>5. CASE CheckpointPage
  BY <1>1, <1>5, CheckpointRecords
<1>6. CASE Commit
  BY <1>1, <1>6, CommitRecords
<1>7. CASE \/ \E o \in Options : StartIncremental(o)
           \/ OpenStage \/ MarkReady \/ Plan \/ Verify \/ Mark \/ Compare \/ Copy \/ Flush
           \/ Unmark \/ RemoveJournal \/ RemoveStage \/ Refuse \/ Crash
  <2>1. Keeps
    BY <1>1, <1>7, KeepingSteps
  <2> QED BY <1>1, <2>1, RecordsStand DEF Keeps
<1> QED BY <1>1, <1>2, <1>3, <1>4, <1>5, <1>6, <1>7, StepKinds

\* Every behaviour of incremental runs keeps the invariant of the records.
LEMMA RecordInvariance == Spec /\ [][Incremental]_vars => []RecordInv
<1>1. Init => RecordInv
  <2> SUFFICES ASSUME Init PROVE RecordInv
    OBVIOUS
  <2>1. PublicationInv
    BY InitPublication
  <2>2. journal.phase = "absent" /\ pc = "idle" /\ state.records = 0
    BY DEF Init, NoJournal, ZeroState
  <2> QED BY <2>1, <2>2 DEF RecordInv, StageSound, LogSound, Staged, Revised
<1> QED BY <1>1, RecordStep, PTL DEF Spec

\* A stored message is stored again only with other content, and then as a
\* revision: no replayed copy and no repeated reconciliation repeats a record,
\* in the unpublished part of the stream neither.
THEOREM NothingRepeated == Spec /\ [][Incremental]_vars => []NoRepeats
<1>1. RecordInv => NoRepeats
  <2> SUFFICES ASSUME RecordInv PROVE NoRepeats
    OBVIOUS
  <2>1. /\ Stream \in Mine /\ out[Stream] \in Seq(Records) /\ Len(out[Stream]) \in Nat
        /\ state.records \in Nat /\ journal.bytes \in Nat /\ synced[Stream] \in Nat
    BY Values, Numbers DEF RecordInv
  <2>2. Revised(out[Stream], Len(out[Stream]))
    <3>1. CASE ~Publishing
      <4>1. Len(out[Stream]) = state.records
        BY <2>1, <3>1, Lengths DEF RecordInv
      <4> QED BY <4>1 DEF RecordInv, LogSound
    <3>2. CASE Publishing
      <4> DEFINE n == Len(out[Stream]) - state.records
      <4>1. /\ state.records <= synced[Stream] /\ synced[Stream] <= Len(out[Stream])
            /\ Len(out[Stream]) <= state.records + journal.bytes
        BY <2>1, <3>2, Lengths DEF RecordInv
      <4>2. n \in 0..journal.bytes /\ state.records + n = Len(out[Stream])
        BY <2>1, <4>1
      <4>3. Staged
        BY <3>2, Underway DEF RecordInv, Staged
      <4>4. \A i \in 1..n : out[Stream][state.records + i] = stage[i]
        BY <2>1, <3>2 DEF RecordInv, PublicationInv, Accounted
      <4> HIDE DEF n
      <4>5. Revised(out[Stream], state.records + n)
        BY <4>2, <4>3, <4>4, RevisedGrows
      <4> QED BY <4>2, <4>5
    <3> QED BY <3>1, <3>2
  <2>3. DOMAIN out[Stream] = 1..Len(out[Stream])
    BY <2>1, LenProperties
  <2> QED BY <2>2, <2>3 DEF Revised, NoRepeats
<1> QED BY <1>1, RecordInvariance, PTL

(***************************************************************************)
(* The boundary: nothing below it is missing                               *)
(***************************************************************************)

\* Records and range stay, and Telegram has no message it did not have.
LEMMA BoundaryStands ==
    ASSUME BoundaryInv, RecordInv', Keeps,
           pc' \in {"openStage", "saveJournal"} => jn'.start <= state.lastID + 1
    PROVE  BoundaryInv'
<1>1. state.records \in Nat /\ journal.bytes \in Nat
  BY Numbers DEF BoundaryInv, RecordInv
<1>2. StoredIDs' = StoredIDs
  BY DEF Keeps, StoredIDs
<1>3. RangeRead'
  <2> SUFFICES ASSUME Staged'
               PROVE  /\ ReadDown(journal.bytes, journal.offset, journal.last)'
                      /\ journal'.phase # "reading" \/ pc' = "ready" =>
                             ReadDown(journal.bytes, 0, journal.last)'
    BY DEF RangeRead, Keeps
  <2>1. StagedIDs(journal.bytes)' = StagedIDs(journal.bytes)
    BY DEF Keeps, StagedIDs
  <2>2. ReadDown(journal.bytes, journal.offset, journal.last)
    BY DEF BoundaryInv, RangeRead, Keeps
  <2>3. journal'.phase # "reading" \/ pc' = "ready" => ReadDown(journal.bytes, 0, journal.last)
    BY DEF BoundaryInv, RangeRead, Keeps
  <2> QED BY <1>2, <2>1, <2>2, <2>3 DEF ReadDown, Keeps
<1>4. BoundaryStored'
  BY <1>2 DEF BoundaryInv, BoundaryStored, Keeps
<1>5. StartsBelow'
  BY DEF BoundaryInv, StartsBelow, Keeps
<1> QED BY <1>3, <1>4, <1>5 DEF BoundaryInv

\* A run that starts keeps the lower bound of its range at the boundary.
LEMMA StartBoundary ==
    ASSUME BoundaryInv, RecordInv', NEW o \in Options, StartIncremental(o),
           o.start <= state.lastID + 1
    PROVE  BoundaryInv'
<1>1. Keeps
  BY KeepingSteps DEF BoundaryInv, RecordInv
<1>2. pc' = "openStage" => jn'.start <= state.lastID + 1
  <2>1. CASE journal.phase = "absent"
    <3>1. jn' = [NoJournal EXCEPT !.minID = RunMinID(o), !.start = o.start, !.base = state]
      BY <2>1 DEF StartIncremental
    <3>2. jn'.start = o.start
      BY <3>1 DEF NoJournal
    <3> QED BY <3>2
  <2>2. CASE journal.phase # "absent"
    <3>1. jn' = journal /\ (pc' = "openStage" => state = journal.base)
      BY <2>2 DEF StartIncremental
    <3>2. journal.start <= journal.base.lastID + 1
      BY <2>2 DEF BoundaryInv, StartsBelow
    <3> QED BY <3>1, <3>2
  <2> QED BY <2>1, <2>2
<1>3. pc' \in {"openStage", "unmark"}
  BY DEF StartIncremental
<1> QED BY <1>1, <1>2, <1>3, BoundaryStands

\* What Telegram posts is above everything read and everything stored.
LEMMA TelegramBoundary ==
    ASSUME BoundaryInv, RecordInv', Environment PROVE BoundaryInv'
<1>1. UNCHANGED <<state, journal, stage, out, pc, jn, page>>
  BY DEF Environment, Post, Edit, Delete, disk, memory
<1>2. msgs \in [IDs -> Versions] /\ head \in Nat /\ \A id \in IDs : id \in Nat
  BY BoundsAssumption DEF BoundaryInv, RecordInv, PublicationInv, IInv, TypeOK, TelegramOK,
                          MaybeID, IDs
<1>3. \A id \in IDs : msgs'[id] # 0 => msgs[id] # 0 \/ id > head
  <2>1. CASE Post
    BY <1>2, <2>1 DEF Post
  <2>2. CASE Edit
    BY <1>2, <2>2 DEF Edit, Versions
  <2>3. CASE Delete
    BY <1>2, <2>3 DEF Delete
  <2> QED BY <2>1, <2>2, <2>3 DEF Environment
<1>4. /\ state.lastID <= head /\ (journal.phase # "absent" => journal.last <= head)
      /\ (pc = "checkpoint" => page.last <= head)
  BY DEF BoundaryInv, RecordInv, PublicationInv, Posted
<1>5. /\ state.lastID \in Nat /\ journal.last \in Nat /\ page.last \in Nat
  BY Numbers DEF BoundaryInv, RecordInv
<1>6. (Staged' <=> Staged) /\ StoredIDs' = StoredIDs
  BY <1>1 DEF Staged, Committed, StoredIDs
<1>7. ASSUME NEW n, NEW low, NEW last \in Nat, last <= head,
             \A id \in IDs :
                 /\ msgs[id] # 0 /\ id >= low /\ id <= last
                 /\ id > journal.minID /\ id >= journal.start
                 => id \in StagedIDs(n) \cup StoredIDs
      PROVE  \A id \in IDs :
                 /\ msgs'[id] # 0 /\ id >= low /\ id <= last
                 /\ id > journal.minID /\ id >= journal.start
                 => id \in StagedIDs(n) \cup StoredIDs
  <2> SUFFICES ASSUME NEW id \in IDs, msgs'[id] # 0, id >= low, id <= last,
                      id > journal.minID, id >= journal.start
               PROVE  id \in StagedIDs(n) \cup StoredIDs
    OBVIOUS
  <2>1. msgs[id] # 0
    BY <1>2, <1>3, <1>7
  <2> QED BY <1>7, <2>1
<1>8. journal.phase # "absent" => Max2(journal.last, page.last) \in Nat
  BY <1>5 DEF Max2
<1>9. RangeRead'
  <2>1. Staged => /\ ReadDown(journal.bytes, journal.offset, journal.last)'
                  /\ journal.phase # "reading" \/ pc = "ready" =>
                         ReadDown(journal.bytes, 0, journal.last)'
    <3> SUFFICES ASSUME Staged
                 PROVE  /\ ReadDown(journal.bytes, journal.offset, journal.last)'
                        /\ journal.phase # "reading" \/ pc = "ready" =>
                               ReadDown(journal.bytes, 0, journal.last)'
      OBVIOUS
    <3>1. journal.last \in Nat /\ journal.last <= head
      BY <1>4, <1>5 DEF Staged
    <3>2. ReadDown(journal.bytes, journal.offset, journal.last)
      BY DEF BoundaryInv, RangeRead
    <3>3. journal.phase # "reading" \/ pc = "ready" => ReadDown(journal.bytes, 0, journal.last)
      BY DEF BoundaryInv, RangeRead
    <3>4. StagedIDs(journal.bytes)' = StagedIDs(journal.bytes)
      BY <1>1 DEF StagedIDs
    <3>5. ReadDown(journal.bytes, journal.offset, journal.last)'
      BY <1>1, <1>6, <1>7, <3>1, <3>2, <3>4 DEF ReadDown
    <3>6. journal.phase # "reading" \/ pc = "ready" => ReadDown(journal.bytes, 0, journal.last)'
      BY <1>1, <1>6, <1>7, <3>1, <3>3, <3>4 DEF ReadDown
    <3> QED BY <3>5, <3>6
  <2>2. ASSUME pc = "checkpoint"
        PROVE  /\ ReadDown(Len(stage), page.next, Max2(journal.last, page.last))'
               /\ page.done => ReadDown(Len(stage), 0, Max2(journal.last, page.last))'
    <3> DEFINE last == Max2(journal.last, page.last)
    <3>1. journal.phase # "absent"
      BY <2>2 DEF BoundaryInv, RecordInv, PublicationInv, Located
    <3>2. last \in Nat /\ last <= head
      BY <1>4, <1>5, <2>2, <3>1 DEF Max2
    <3>3. /\ ReadDown(Len(stage), page.next, last)
          /\ page.done => ReadDown(Len(stage), 0, last)
      BY <2>2 DEF BoundaryInv, RangeRead
    <3>4. StagedIDs(Len(stage))' = StagedIDs(Len(stage)) /\ last' = last
      BY <1>1 DEF StagedIDs, Max2
    <3> HIDE DEF last
    <3>5. ReadDown(Len(stage), page.next, last)'
      BY <1>1, <1>6, <1>7, <3>2, <3>3, <3>4 DEF ReadDown
    <3>6. page.done => ReadDown(Len(stage), 0, last)'
      BY <1>1, <1>6, <1>7, <3>2, <3>3, <3>4 DEF ReadDown
    <3> QED BY <3>5, <3>6 DEF last
  <2> QED BY <1>1, <1>6, <2>1, <2>2 DEF RangeRead
<1>10. BoundaryStored'
  <2> SUFFICES ASSUME NEW id \in IDs, id <= state.lastID, msgs'[id] # 0 PROVE id \in StoredIDs
    BY <1>1, <1>6 DEF BoundaryStored
  <2>1. msgs[id] # 0
    BY <1>2, <1>3, <1>4, <1>5
  <2> QED BY <2>1 DEF BoundaryInv, BoundaryStored
<1>11. StartsBelow'
  BY <1>1 DEF BoundaryInv, StartsBelow
<1> QED BY <1>9, <1>10, <1>11 DEF BoundaryInv

\* An empty range begins at the boundary.
LEMMA SaveJournalBoundary ==
    ASSUME BoundaryInv, SaveJournal, RecordInv' PROVE BoundaryInv'
<1>1. /\ pc = "saveJournal" /\ pc' = "read" /\ UNCHANGED <<telegram, state, stage, out>>
      /\ journal'.phase = "reading" /\ journal'.last = 0
      /\ journal'.base = state /\ journal'.start = jn.start
  BY SaveJournalFacts DEF BoundaryInv, RecordInv
<1>2. \A id \in IDs : ~(id <= 0)
  BY BoundsAssumption DEF IDs
<1>3. RangeRead'
  BY <1>1, <1>2 DEF RangeRead, ReadDown
<1>4. BoundaryStored'
  BY <1>1 DEF BoundaryInv, BoundaryStored, StoredIDs, telegram
<1>5. StartsBelow'
  BY <1>1 DEF BoundaryInv, StartsBelow
<1> QED BY <1>3, <1>4, <1>5 DEF BoundaryInv

\* Between the pages of the walk nothing is left out, and the walk ends at the lower bound.
LEMMA ReadPageBoundary ==
    ASSUME BoundaryInv, ReadPage, RecordInv' PROVE BoundaryInv'
<1>1. /\ pc = "read" /\ pc' = "checkpoint" /\ jn = journal /\ journal.phase = "reading"
      /\ UNCHANGED <<telegram, state, journal, out, jn>> /\ PublicationInv
  BY PageFacts DEF BoundaryInv, RecordInv
<1>0. PICK P \in Answers(journal.offset, journal.minID), n \in Nat :
         \E ids \in [1..n -> IDs] : PageRead(P, n, ids)
  BY <1>1, ReadFacts
<1>2. PICK ids \in [1..n -> IDs] : PageRead(P, n, ids)
  BY <1>0
<1>3. Staged /\ (Staged' <=> Staged)
  BY <1>1, Underway DEF Staged, Committed
<1> DEFINE b == journal.bytes
           last == Max2(journal.last, page'.last)
           low == page'.next
           InRead(id) == id \in StagedIDs(Len(stage))' \/ id \in StoredIDs
<1>4. /\ b \in Nat /\ journal.last \in Nat /\ journal.offset \in Nat /\ journal.minID \in Nat
      /\ journal.start \in Nat /\ state.records \in Nat /\ low \in Nat /\ page'.last \in Nat
  <2>1. page' \in Pages
    BY DEF RecordInv, PublicationInv, IInv, TypeOK, PageOK
  <2>2. page'.next \in Nat /\ page'.last \in Nat
    BY <2>1, BoundsAssumption DEF Pages, MaybeID
  <2> QED BY <1>1, <2>2, Numbers
<1>5. /\ \A id \in P : id \in IDs /\ id \in Nat /\ id >= 1 /\ (journal.offset = 0 \/ id < journal.offset)
      /\ \A id \in IDs : /\ msgs[id] # 0 /\ id > journal.minID
                         /\ journal.offset = 0 \/ id < journal.offset
                         => /\ P # {}
                            /\ id \in P \/ \A a \in P : id < a
  BY <1>4, AnswerFacts
<1>6. /\ Len(stage') = b + n
      /\ \A i \in 1..b : stage'[i] = stage[i]
      /\ \A i \in 1..n : stage'[b + i] = RecordOf(ids[i])
      /\ IsLowest(low, P, journal.offset)
      /\ IsHighest(page'.last, InRange(P, journal.minID, journal.start))
      /\ page'.done = WalkDone(P, journal.minID, journal.start)
      /\ {ids[i] : i \in DOMAIN ids} = {id \in InRange(P, journal.minID, journal.start) : ~Unchanged(id)}
  BY <1>2 DEF PageRead, Listing
<1>7. StoredIDs' = StoredIDs
  BY <1>1 DEF StoredIDs
<1>8. journal.offset = 0 => journal.last = 0
  BY <1>3 DEF BoundaryInv, RecordInv, StageSound, Sound
<1>9. \A id \in StagedIDs(b) : InRead(id)
  <2> SUFFICES ASSUME NEW i \in 1..b PROVE stage[i].id \in StagedIDs(Len(stage))'
    BY DEF StagedIDs
  <2>1. i \in 1..(b + n) /\ stage'[i] = stage[i]
    BY <1>4, <1>6
  <2> QED BY <1>6, <2>1 DEF StagedIDs
<1>10. ASSUME NEW id \in P, id > journal.minID, id >= journal.start
       PROVE  InRead(id)
  <2>1. CASE Unchanged(id)
    <3>1. Stored(id) # {}
      BY <2>1 DEF Unchanged, Known
    <3>2. PICK i \in DOMAIN out[Stream] : out[Stream][i].id = id
      BY <3>1 DEF Stored
    <3>3. DOMAIN out[Stream] = 1..state.records
      <4>1. ~Publishing
        BY <1>1 DEF Publishing
      <4>2. Len(out[Stream]) = state.records /\ out[Stream] \in Seq(Records)
        BY <1>1, <4>1, Lengths, Values
      <4> QED BY <4>2, LenProperties
    <3> QED BY <3>2, <3>3 DEF StoredIDs
  <2>2. CASE ~Unchanged(id)
    <3>1. PICK i \in 1..n : ids[i] = id
      BY <1>6, <1>10, <2>2 DEF InRange
    <3>2. b + i \in 1..(b + n) /\ stage'[b + i].id = id
      <4>1. b + i \in 1..(b + n)
        BY <1>4
      <4>2. stage'[b + i] = RecordOf(id)
        BY <1>6, <3>1
      <4> QED BY <4>1, <4>2 DEF RecordOf
    <3> QED BY <1>6, <3>2 DEF StagedIDs
  <2> QED BY <2>1, <2>2
<1>11. ASSUME NEW id \in IDs, msgs[id] # 0, id >= low, id <= last,
              id > journal.minID, id >= journal.start
       PROVE  InRead(id)
  <2>0. id \in Nat /\ id >= 1
    BY BoundsAssumption DEF IDs
  <2>1. CASE journal.offset = 0 \/ id < journal.offset
    <3>1. P # {} /\ (id \in P \/ \A a \in P : id < a)
      BY <1>5, <1>11, <2>1
    <3>2. low \in P
      BY <1>6, <3>1 DEF IsLowest
    <3>3. id \in P
      BY <1>4, <1>11, <2>0, <3>1, <3>2
    <3> QED BY <1>10, <1>11, <3>3
  <2>2. CASE ~(journal.offset = 0 \/ id < journal.offset)
    <3>1. page'.last <= id
      <4>1. CASE InRange(P, journal.minID, journal.start) = {}
        BY <1>6, <2>0, <4>1 DEF IsHighest
      <4>2. CASE InRange(P, journal.minID, journal.start) # {}
        <5>1. page'.last \in P
          BY <1>6, <4>2 DEF IsHighest, InRange
        <5> QED BY <1>4, <1>5, <2>0, <2>2, <5>1
      <4> QED BY <4>1, <4>2
    <3>2. page'.last # id
      <4>1. CASE InRange(P, journal.minID, journal.start) = {}
        BY <1>6, <2>0, <4>1 DEF IsHighest
      <4>2. CASE InRange(P, journal.minID, journal.start) # {}
        <5>1. page'.last \in P
          BY <1>6, <4>2 DEF IsHighest, InRange
        <5> QED BY <1>4, <1>5, <2>0, <2>2, <5>1
      <4> QED BY <4>1, <4>2
    <3>3. id <= journal.last /\ id >= journal.offset
      BY <1>4, <1>11, <2>0, <2>2, <3>1, <3>2 DEF Max2
    <3>4. ReadDown(b, journal.offset, journal.last)
      BY <1>3 DEF BoundaryInv, RangeRead
    <3>5. id \in StagedIDs(b) \cup StoredIDs
      BY <1>11, <3>3, <3>4 DEF ReadDown
    <3> QED BY <1>9, <3>5
  <2> QED BY <2>1, <2>2
<1>12. ASSUME page'.done, NEW id \in IDs, msgs[id] # 0, id <= last,
              id > journal.minID, id >= journal.start
       PROVE  InRead(id)
  <2>0. id \in Nat /\ id >= 1
    BY BoundsAssumption DEF IDs
  <2>1. CASE id >= low
    BY <1>11, <1>12, <2>1
  <2>2. CASE id < low
    <3>1. P # {}
      <4>1. P = {} => low = journal.offset
        BY <1>6 DEF IsLowest
      <4> QED BY <1>5, <1>12, <2>2, <4>1
    <3>2. PICK x \in P : x <= journal.minID \/ x < journal.start
      BY <1>6, <1>12, <3>1 DEF WalkDone
    <3>3. low <= x /\ x \in Nat
      BY <1>5, <1>6, <3>1 DEF IsLowest
    <3> QED BY <1>4, <1>12, <2>0, <2>2, <3>2, <3>3
  <2> QED BY <1>4, <2>0, <2>1, <2>2
<1> HIDE DEF low, InRead
<1>13. /\ ReadDown(Len(stage), page.next, Max2(journal.last, page.last))'
       /\ page'.done => ReadDown(Len(stage), 0, Max2(journal.last, page.last))'
  <2>1. \A id \in IDs : InRead(id) => id \in (StagedIDs(Len(stage)) \cup StoredIDs)'
    BY <1>7 DEF InRead
  <2> QED BY <1>1, <1>11, <1>12, <2>1 DEF ReadDown, telegram, low, Max2
<1>14. ReadDown(journal.bytes, journal.offset, journal.last)'
  <2>1. StagedIDs(journal.bytes)' = StagedIDs(journal.bytes)
    BY <1>1, <1>6 DEF StagedIDs
  <2>2. ReadDown(journal.bytes, journal.offset, journal.last)
    BY <1>3 DEF BoundaryInv, RangeRead
  <2> QED BY <1>1, <1>7, <2>1, <2>2 DEF ReadDown, telegram
<1>15. RangeRead'
  BY <1>1, <1>13, <1>14 DEF RangeRead
<1>16. BoundaryStored' /\ StartsBelow'
  BY <1>1, <1>7 DEF BoundaryInv, BoundaryStored, StartsBelow, telegram
<1> QED BY <1>15, <1>16 DEF BoundaryInv

\* The journal takes the offset of the walk in.
LEMMA CheckpointBoundary ==
    ASSUME BoundaryInv, CheckpointPage, RecordInv' PROVE BoundaryInv'
<1>1. /\ pc = "checkpoint" /\ pc' = (IF page.done THEN "ready" ELSE "read")
      /\ UNCHANGED <<telegram, state, stage, out>> /\ journal.phase = "reading"
      /\ journal'.phase = "reading" /\ journal'.bytes = Len(stage)
      /\ journal'.offset = page.next /\ journal'.last = Max2(journal.last, page.last)
      /\ journal'.minID = journal.minID /\ journal'.start = journal.start
      /\ journal'.base = journal.base
  BY CheckpointFacts DEF BoundaryInv, RecordInv
<1>2. /\ ReadDown(Len(stage), page.next, Max2(journal.last, page.last))
      /\ page.done => ReadDown(Len(stage), 0, Max2(journal.last, page.last))
  BY <1>1 DEF BoundaryInv, RangeRead
<1>3. ReadDown(journal.bytes, journal.offset, journal.last)'
  BY <1>1, <1>2 DEF ReadDown, StagedIDs, StoredIDs, telegram
<1>4. page.done => ReadDown(journal.bytes, 0, journal.last)'
  BY <1>1, <1>2 DEF ReadDown, StagedIDs, StoredIDs, telegram
<1>5. RangeRead'
  BY <1>1, <1>3, <1>4 DEF RangeRead
<1>6. BoundaryStored' /\ StartsBelow'
  BY <1>1 DEF BoundaryInv, BoundaryStored, StartsBelow, StoredIDs, telegram
<1> QED BY <1>5, <1>6 DEF BoundaryInv

\* The boundary moves to the end of a range that was read to its lower bound.
LEMMA CommitBoundary ==
    ASSUME BoundaryInv, Commit, RecordInv' PROVE BoundaryInv'
<1>1. /\ Staged /\ Committed' /\ Publishing /\ pc' = "unmark" /\ UNCHANGED <<out, journal, stage, msgs>>
      /\ state'.records = state.records + journal.bytes
      /\ state'.lastID = Max2(state.lastID, journal.last)
      /\ \A i \in 1..journal.bytes : out[Stream][state.records + i] = stage[i]
  BY CommitFacts, Values DEF BoundaryInv, RecordInv, Commit, telegram
<1>2. PublicationInv /\ journal.phase = "planned" /\ state = journal.base
  BY <1>1, Underway DEF BoundaryInv, RecordInv
<1>3. /\ state.records \in Nat /\ journal.bytes \in Nat /\ state.lastID \in Nat
      /\ journal.last \in Nat /\ journal.minID \in Nat /\ journal.start \in Nat
  BY <1>2, Numbers
<1>4. StoredIDs \subseteq StoredIDs'
  <2> SUFFICES ASSUME NEW i \in 1..state.records PROVE out[Stream][i].id \in StoredIDs'
    BY DEF StoredIDs
  <2>1. i \in 1..state'.records
    BY <1>1, <1>3
  <2> QED BY <1>1, <2>1 DEF StoredIDs
<1>5. StagedIDs(journal.bytes) \subseteq StoredIDs'
  <2> SUFFICES ASSUME NEW i \in 1..journal.bytes PROVE stage[i].id \in StoredIDs'
    BY DEF StagedIDs
  <2>1. state.records + i \in 1..state'.records
    BY <1>1, <1>3
  <2> QED BY <1>1, <2>1 DEF StoredIDs
<1>6. BoundaryStored'
  <2> SUFFICES ASSUME NEW id \in IDs, id <= state'.lastID, msgs[id] # 0 PROVE id \in StoredIDs'
    BY <1>1 DEF BoundaryStored
  <2>0. id \in Nat /\ id >= 1
    BY BoundsAssumption DEF IDs
  <2>1. CASE id <= state.lastID
    BY <1>4, <2>1 DEF BoundaryInv, BoundaryStored
  <2>2. CASE id > state.lastID
    <3>1. id <= journal.last
      BY <1>1, <1>3, <2>0, <2>2 DEF Max2
    <3>2. id > journal.minID
      <4>1. journal.minID = IF journal.start = 0 THEN state.lastID ELSE 0
        BY <1>2 DEF PublicationInv, Continues, LowerBound
      <4> QED BY <2>0, <2>2, <4>1
    <3>3. id >= journal.start
      <4>1. journal.start <= state.lastID + 1
        BY <1>2 DEF BoundaryInv, StartsBelow
      <4> QED BY <1>3, <2>0, <2>2, <4>1
    <3>4. ReadDown(journal.bytes, 0, journal.last)
      BY <1>1, <1>2 DEF BoundaryInv, RangeRead
    <3>5. id \in StagedIDs(journal.bytes) \cup StoredIDs
      BY <2>0, <3>1, <3>2, <3>3, <3>4 DEF ReadDown
    <3> QED BY <1>4, <1>5, <3>5
  <2> QED BY <1>3, <2>0, <2>1, <2>2
<1>7. RangeRead'
  BY <1>1 DEF RangeRead, Staged
<1>8. StartsBelow'
  BY <1>1 DEF BoundaryInv, StartsBelow
<1> QED BY <1>6, <1>7, <1>8 DEF BoundaryInv

\* Every step of reconciling runs keeps the invariant of the boundary.
LEMMA BoundaryStep ==
    BoundaryInv /\ [Next]_vars /\ [Incremental]_vars /\ [Reconciling]_vars => BoundaryInv'
<1> SUFFICES ASSUME BoundaryInv, [Next]_vars, [Incremental]_vars, [Reconciling]_vars
             PROVE  BoundaryInv'
  OBVIOUS
<1>1. RecordInv /\ RecordInv' /\ PublicationInv
  BY RecordStep DEF BoundaryInv, RecordInv
<1>2. CASE Environment
  BY <1>1, <1>2, TelegramBoundary
<1>3. CASE UNCHANGED vars
  <2>1. UNCHANGED <<msgs, state, journal, stage, out, pc, page, jn>>
    BY <1>3 DEF vars, telegram, disk, memory
  <2>2. Committed' <=> Committed
    BY <2>1 DEF Committed
  <2> QED BY <1>1, <2>1, <2>2 DEF BoundaryInv, RangeRead, ReadDown, Staged, StagedIDs, StoredIDs,
                                  BoundaryStored, StartsBelow
<1>4. CASE SaveJournal
  BY <1>1, <1>4, SaveJournalBoundary
<1>5. CASE ReadPage
  BY <1>1, <1>5, ReadPageBoundary
<1>6. CASE CheckpointPage
  BY <1>1, <1>6, CheckpointBoundary
<1>7. CASE Commit
  BY <1>1, <1>7, CommitBoundary
<1>8. ASSUME NEW o \in Options, StartIncremental(o) PROVE BoundaryInv'
  <2>1. pc = "idle" /\ pc' # "idle"
    BY <1>8 DEF StartIncremental, Acquire
  <2>2. Reconciling
    BY <2>1 DEF vars
  <2>3. o.start <= state.lastID + 1
    BY <1>8, <2>2 DEF Reconciling, Start
  <2> QED BY <1>1, <1>8, <2>3, StartBoundary
<1>9. CASE OpenStage
  <2>1. Keeps
    BY <1>1, <1>9, KeepingSteps
  <2>2. jn' = jn /\ state' = state /\ pc = "openStage"
    BY <1>9 DEF OpenStage, memory
  <2>3. jn.start <= state.lastID + 1
    BY <2>2 DEF BoundaryInv, StartsBelow
  <2> QED BY <1>1, <2>1, <2>2, <2>3, BoundaryStands
<1>10. CASE \/ MarkReady \/ Plan \/ Verify \/ Mark \/ Compare \/ Copy \/ Flush
            \/ Unmark \/ RemoveJournal \/ RemoveStage \/ Refuse \/ Crash
  <2>1. Keeps
    BY <1>1, <1>10, KeepingSteps
  <2>2. pc' \notin {"openStage", "saveJournal"}
    BY <1>10 DEF MarkReady, Plan, Verify, Mark, Compare, Copy, Flush, Unmark, RemoveJournal,
                 RemoveStage, Refuse, Crash, Leave
  <2> QED BY <1>1, <2>1, <2>2, BoundaryStands
<1> QED BY <1>1, <1>2, <1>3, <1>4, <1>5, <1>6, <1>7, <1>8, <1>9, <1>10, StepKinds

\* Every behaviour of reconciling runs keeps the invariant of the boundary.
LEMMA BoundaryInvariance ==
    Spec /\ [][Incremental]_vars /\ [][Reconciling]_vars => []BoundaryInv
<1>1. Init => BoundaryInv
  <2> SUFFICES ASSUME Init PROVE BoundaryInv
    OBVIOUS
  <2>1. PublicationInv
    BY InitPublication
  <2>2. /\ journal.phase = "absent" /\ pc = "idle" /\ state.records = 0
        /\ msgs = [id \in IDs |-> 0]
    BY DEF Init, NoJournal, ZeroState
  <2>3. RecordInv
    BY <2>1, <2>2 DEF RecordInv, StageSound, LogSound, Staged, Revised
  <2> QED BY <2>2, <2>3 DEF BoundaryInv, RangeRead, BoundaryStored, StartsBelow, Staged
<1> QED BY <1>1, BoundaryStep, PTL DEF Spec

\* What the state accounts for is in the stream.
LEMMA StoredIsArchived ==
    ASSUME PublicationInv PROVE \A id \in StoredIDs : Archived(id)
<1>1. out[Stream] \in Seq(Records)
  BY Values
<1>2. DOMAIN out[Stream] = 1..Len(out[Stream])
  BY <1>1, LenProperties
<1>3. \A i \in 1..state.records : i \in 1..Len(out[Stream])
  BY RecordIDs
<1> QED BY <1>2, <1>3 DEF StoredIDs, Archived, IDsIn

\* The boundary is verified: every message at or below LastID that Telegram still
\* has is in the stream, whatever was interrupted (incremental.go:17), as long as
\* no reconciliation begins above the boundary.
THEOREM BoundaryVerified ==
    Spec /\ [][Incremental]_vars /\ [][Reconciling]_vars => []BoundaryCovered
<1>1. BoundaryInv => BoundaryCovered
  BY StoredIsArchived DEF BoundaryInv, RecordInv, BoundaryStored, BoundaryCovered
<1> QED BY <1>1, BoundaryInvariance, PTL

(***************************************************************************)
(* The refinement                                                          *)
(***************************************************************************)

\* The log of the archive: the records the state accounts for.
LogIsStored ==
    /\ CommittedLog \in Seq(Records) /\ Len(CommittedLog) = state.records
    /\ \A i \in 1..state.records : CommittedLog[i] = out[Stream][i]

\* The log of the archive is what the state accounts for.
LEMMA LogFacts == PublicationInv => LogIsStored
<1> SUFFICES ASSUME PublicationInv
             PROVE  /\ CommittedLog \in Seq(Records) /\ Len(CommittedLog) = state.records
                    /\ \A i \in 1..state.records : CommittedLog[i] = out[Stream][i]
  BY DEF LogIsStored
<1>1. /\ Stream \in Mine /\ out[Stream] \in Seq(Records) /\ state.records \in Nat
      /\ synced[Stream] \in Nat /\ Len(out[Stream]) \in Nat
  BY Values, Numbers
<1>2. CASE Publishing
  <2>1. /\ journal.sizes[Stream] = state.records /\ state.records <= synced[Stream]
        /\ synced[Stream] <= Len(out[Stream])
    BY <1>1, <1>2, Lengths
  <2>2. CommittedLog = Prefix(out[Stream], state.records)
    BY <1>2, <2>1 DEF CommittedLog, Publishing
  <2>3. state.records \in 0..Len(out[Stream])
    BY <1>1, <2>1
  <2> QED BY <1>1, <2>2, <2>3, CutFacts
<1>3. CASE ~Publishing
  <2>1. Len(out[Stream]) = state.records
    BY <1>1, <1>3, Lengths
  <2>2. CommittedLog = out[Stream]
    BY <1>3 DEF CommittedLog, Publishing
  <2> QED BY <1>1, <2>1, <2>2
<1> QED BY <1>2, <1>3

\* And it is so after the step.
LEMMA LogFactsNext == PublicationInv' => LogIsStored'
BY LogFacts, PTL

\* Everything but a commit leaves the archive alone.
LEMMA LogStands ==
    ASSUME PublicationInv, PublicationInv', state' = state,
           \A i \in 1..state.records : out'[Stream][i] = out[Stream][i]
    PROVE  CommittedLog' = CommittedLog
<1>1. /\ CommittedLog \in Seq(Records) /\ Len(CommittedLog) = state.records
      /\ \A i \in 1..state.records : CommittedLog[i] = out[Stream][i]
  BY LogFacts DEF LogIsStored
<1>2. /\ CommittedLog' \in Seq(Records) /\ Len(CommittedLog') = state.records
      /\ \A i \in 1..state.records : CommittedLog'[i] = out'[Stream][i]
  BY LogFactsNext DEF LogIsStored
<1>3. \A i \in 1..Len(CommittedLog') : CommittedLog'[i] = CommittedLog[i]
  BY <1>1, <1>2
<1> QED BY <1>1, <1>2, <1>3, SeqEqual

\* Telegram's steps are the archive's.
LEMMA TelegramRefines ==
    ASSUME BoundaryInv, Environment, CommittedLog' = CommittedLog PROVE Archive!Telegram
<1>1. state' = state
  BY DEF Environment, Post, Edit, Delete, disk
<1>2. /\ msgs \in [IDs -> Versions] /\ head \in Nat /\ state.lastID \in Nat /\ state.lastID <= head
      /\ \A id \in IDs : id \in Nat /\ (msgs[id] # 0 => id <= head)
      /\ MaxID \in Nat
  <2>1. PublicationInv
    BY DEF BoundaryInv, RecordInv
  <2>2. msgs \in [IDs -> Versions] /\ head \in MaybeID
    BY <2>1 DEF PublicationInv, IInv, TypeOK, TelegramOK
  <2>3. MaxID \in Nat /\ head \in Nat /\ \A id \in IDs : id \in Nat
    BY <2>2, BoundsAssumption DEF MaybeID, IDs
  <2>4. state.lastID <= head /\ \A id \in IDs : msgs[id] # 0 => id <= head
    BY <2>1 DEF PublicationInv, Posted
  <2>5. state.lastID \in Nat
    BY <2>1, Numbers
  <2> QED BY <2>2, <2>3, <2>4, <2>5
<1>3. \E id \in IDs : /\ msgs[id] = 0 => id > state.lastID
                      /\ \E v \in {0, msgs[id] + 1} : msgs' = [msgs EXCEPT ![id] = v]
  <2>1. CASE Post
    <3>1. head + 1 \in IDs /\ msgs' = [msgs EXCEPT ![head + 1] = 1]
      BY <1>2, <2>1 DEF Post, IDs
    <3>2. ~(head + 1 <= head) /\ head + 1 > state.lastID
      BY <1>2
    <3>3. msgs[head + 1] = 0 /\ 1 \in {0, msgs[head + 1] + 1}
      BY <1>2, <3>1, <3>2
    <3> QED BY <3>1, <3>2, <3>3
  <2>2. CASE Edit
    <3>1. PICK id \in IDs : /\ msgs[id] \in 1..(MaxVersion - 1)
                            /\ msgs' = [msgs EXCEPT ![id] = @ + 1]
      BY <2>2 DEF Edit
    <3>2. msgs[id] # 0
      BY <3>1, BoundsAssumption
    <3> QED BY <3>1, <3>2
  <2>3. CASE Delete
    BY <2>3 DEF Delete
  <2> QED BY <2>1, <2>2, <2>3 DEF Environment
<1> QED BY <1>1, <1>3 DEF Archive!Telegram

\* A commit publishes a whole range.
LEMMA CommitRefines ==
    ASSUME BoundaryInv, BoundaryInv', Commit PROVE Archive!Publish
<1>1. /\ UNCHANGED <<out, msgs>>
      /\ state'.records = state.records + journal.bytes
      /\ state'.lastID = Max2(state.lastID, journal.last)
  BY CommitFacts DEF BoundaryInv, RecordInv, Commit, telegram
<1>2. PublicationInv /\ PublicationInv'
  BY DEF BoundaryInv, RecordInv
<1>3. /\ state.records \in Nat /\ journal.bytes \in Nat /\ state.lastID \in Nat
      /\ journal.last \in Nat
  BY <1>2, Numbers
<1> DEFINE old == CommittedLog
           new == CommittedLog'
<1>4. /\ old \in Seq(Records) /\ Len(old) = state.records
      /\ \A i \in 1..state.records : old[i] = out[Stream][i]
  BY <1>2, LogFacts DEF LogIsStored
<1>5. /\ new \in Seq(Records) /\ Len(new) = state'.records
      /\ \A i \in 1..state'.records : new[i] = out[Stream][i]
  BY <1>1, <1>2, LogFactsNext DEF LogIsStored
<1> HIDE DEF old, new
<1>6. state'.lastID >= state.lastID
  BY <1>1, <1>3 DEF Max2
<1>7. Archive!Extends(new, old)
  <2>1. state.records \in 0..Len(new)
    BY <1>1, <1>3, <1>5
  <2>2. /\ Prefix(new, state.records) \in Seq(Records)
        /\ Len(Prefix(new, state.records)) = state.records
        /\ \A i \in 1..state.records : Prefix(new, state.records)[i] = new[i]
    BY <1>5, <2>1, CutFacts
  <2>3. \A i \in 1..state.records : i \in 1..state'.records
    BY <1>1, <1>3
  <2>4. Prefix(new, state.records) = old
    <3>1. \A i \in 1..state.records : Prefix(new, state.records)[i] = old[i]
      BY <1>4, <1>5, <2>2, <2>3
    <3> QED BY <1>4, <2>2, <3>1, SeqEqual
  <2>5. Len(new) >= Len(old)
    BY <1>1, <1>3, <1>4, <1>5
  <2> QED BY <1>4, <2>4, <2>5 DEF Archive!Extends, Prefix
<1>8. Archive!NewOrRevised(new, Len(old) + 1)
  <2>1. Revised(out[Stream], state'.records)
    BY <1>1 DEF BoundaryInv, RecordInv, LogSound, Revised
  <2> SUFFICES ASSUME NEW i \in (Len(old) + 1)..Len(new), NEW k \in 1..Len(new), k < i,
                      new[k].id = new[i].id,
                      \A m \in (k + 1)..(i - 1) : new[m].id # new[i].id
               PROVE  new[i].rev /\ new[i].ver # new[k].ver
    BY DEF Archive!NewOrRevised
  <2>2. i \in 1..state'.records /\ k \in 1..state'.records
    BY <1>1, <1>3, <1>4, <1>5
  <2>3. \A m \in (k + 1)..(i - 1) : m \in 1..state'.records
    BY <1>1, <1>3, <2>2
  <2>4. /\ out[Stream][k].id = out[Stream][i].id
        /\ \A m \in (k + 1)..(i - 1) : out[Stream][m].id # out[Stream][k].id
    BY <1>5, <2>2, <2>3
  <2>5. out[Stream][k].ver # out[Stream][i].ver /\ out[Stream][i].rev
    BY <2>1, <2>2, <2>4 DEF Revised
  <2> QED BY <1>5, <2>2, <2>5
<1>9. Archive!Covers(new, state'.lastID)
  <2> SUFFICES ASSUME NEW id \in IDs, id <= state'.lastID, msgs[id] # 0
               PROVE  \E i \in 1..Len(new) : new[i].id = id
    BY DEF Archive!Covers
  <2>1. \E i \in 1..state'.records : out[Stream][i].id = id
    BY <1>1 DEF BoundaryInv, BoundaryStored, StoredIDs
  <2> QED BY <1>5, <2>1
<1> QED BY <1>1, <1>6, <1>7, <1>8, <1>9 DEF Archive!Publish, old, new

\* Every step is a step of the archive, or changes nothing of it.
LEMMA RefinementStep ==
    BoundaryInv /\ BoundaryInv' /\ [Next]_vars /\ [Incremental]_vars
    => [Archive!Next]_(Archive!vars)
<1> SUFFICES ASSUME BoundaryInv, BoundaryInv', [Next]_vars, [Incremental]_vars
             PROVE  [Archive!Next]_(Archive!vars)
  OBVIOUS
<1>1. PublicationInv /\ PublicationInv'
  BY DEF BoundaryInv, RecordInv
<1>2. ASSUME UNCHANGED msgs, state' = state,
             \A i \in 1..state.records : out'[Stream][i] = out[Stream][i]
      PROVE  UNCHANGED Archive!vars
  BY <1>1, <1>2, LogStands DEF Archive!vars
<1>3. CASE Environment
  <2>1. state' = state /\ out' = out
    BY <1>3 DEF Environment, Post, Edit, Delete, disk
  <2>2. CommittedLog' = CommittedLog
    BY <1>1, <2>1, LogStands
  <2> QED BY <1>3, <2>2, TelegramRefines DEF Archive!Next
<1>4. CASE UNCHANGED vars \/ SaveJournal \/ ReadPage \/ CheckpointPage
  <2>1. UNCHANGED <<msgs, state, out>>
    BY <1>4 DEF vars, disk, telegram, SaveJournal, ReadPage, CheckpointPage
  <2> QED BY <1>2, <2>1
<1>5. CASE Commit
  BY <1>5, CommitRefines DEF Archive!Next
<1>6. CASE \/ \E o \in Options : StartIncremental(o)
           \/ OpenStage \/ MarkReady \/ Plan \/ Verify \/ Mark \/ Compare \/ Copy \/ Flush
           \/ Unmark \/ RemoveJournal \/ RemoveStage \/ Refuse \/ Crash
  <2>1. Keeps
    BY <1>1, <1>6, KeepingSteps
  <2> QED BY <1>2, <2>1 DEF Keeps
<1> QED BY <1>1, <1>3, <1>4, <1>5, <1>6, StepKinds

\* Incremental runs that begin no reconciliation above the boundary implement
\* the atomic archive: files, journal, markers and interruptions show nothing
\* but whole ranges.
THEOREM AtomicArchiveImplemented ==
    Spec /\ [][Incremental]_vars /\ [][Reconciling]_vars => ImplementsArchive
<1>1. Init => Archive!Init
  <2> SUFFICES ASSUME Init PROVE Archive!Init
    OBVIOUS
  <2>1. /\ msgs = [id \in IDs |-> 0] /\ state = ZeroState /\ journal = NoJournal
        /\ out = [p \in Paths |-> <<>>]
    BY DEF Init
  <2>2. out[Stream] = <<>>
    BY <2>1, ConstantTypes
  <2> QED BY <2>1, <2>2 DEF Archive!Init, CommittedLog, NoJournal, ZeroState
<1>2. BoundaryInv /\ BoundaryInv' /\ [Next]_vars /\ [Incremental]_vars
      => [Archive!Next]_(Archive!vars)
  BY RefinementStep
<1> QED BY <1>1, <1>2, BoundaryInvariance, PTL DEF Spec, ImplementsArchive, Archive!Spec

\* In particular runs without --refresh-from, and those that reconcile the whole
\* chat, need no assumption about their behaviour.
THEOREM PlainRunsImplementArchive ==
    ASSUME \A o \in Options : ~o.all /\ ~o.reset /\ o.start <= 1
    PROVE  Spec => ImplementsArchive
<1>1. TypeOK => Incremental /\ Reconciling
  <2> SUFFICES ASSUME TypeOK PROVE Incremental /\ Reconciling
    OBVIOUS
  <2>1. state.lastID \in Nat
    BY BoundsAssumption DEF TypeOK, CheckpointsOK, SyncStates, MaybeID
  <2>2. \A o \in Options : o.start \in Nat
    BY OptionsAssumption, BoundsAssumption DEF OptionSet, MaybeID
  <2>3. \A o \in Options : o.start <= state.lastID + 1
    BY <2>1, <2>2
  <2> QED BY <2>3 DEF Incremental, Reconciling
<1>2. []TypeOK => [][Incremental]_vars /\ [][Reconciling]_vars
  BY <1>1, PTL
<1> QED BY <1>2, TypeCorrect, AtomicArchiveImplemented, PTL


(***************************************************************************)
(* Full and plain runs that follow each other                              *)
(***************************************************************************)

\* --reset begins a new archive (README.md:564).
EarlyResets == \A o \in Options : Start(o) /\ o.reset => state = ZeroState

\* No run reconciles (--refresh-from).
RoutineOnly == \A o \in Options : Start(o) => o.start = 0

(***************************************************************************)
(* The invariant                                                           *)
(***************************************************************************)

\* The messages that Telegram has.
Live == {id \in IDs : msgs[id] # 0}

Covers(L, S, low, high) == \A id \in L : low <= id /\ id <= high => id \in S

\* The messages of the first n records of a log.
Ids(log, n) == {log[i].id : i \in {k \in DOMAIN log : k <= n}}

\* The messages in the stream, in the part of it that a power loss leaves, and in
\* the first n records of the stage.
Streamed    == Ids(out[Stream], Len(out[Stream]))
Safe        == Ids(out[Stream], synced[Stream])
StagedTo(n) == Ids(stage, n)

\* Nothing recorded is newer than what was ever posted.
StateSeen(s)   == s.lastID <= head /\ s.latest <= head
JournalSeen(j) == j.last <= head /\ j.top <= head /\ StateSeen(j.next)

Seen ==
    /\ \A id \in Live : id <= head
    /\ StateSeen(state) /\ StateSeen(st)
    /\ JournalSeen(journal) /\ JournalSeen(jn)
    /\ top <= head /\ page.last <= head

FullPlaces   == {"mark", "openOutput", "read", "checkpoint", "finish", "unmark"}
BeforeCommit == {"openStage", "saveJournal", "read", "checkpoint", "ready", "plan"} \cup Writing

\* Only a full run has an active backfill; a checkpoint left ahead of the chat's
\* head is that of a whole walk, so that its repair reads everything.
StaleWhole(s) == Stale(s) /\ s.bf = "complete" => s.latest = s.lastID

Mechanisms ==
    /\ journal.start = 0 /\ jn.start = 0
    /\ journal.next.bf # "active" /\ jn.next.bf # "active"
    /\ pc # "idle" /\ Full => pc \in FullPlaces
    /\ pc # "idle" /\ ~Full => pc \notin {"openOutput", "finish"} /\ state.bf # "active"
    /\ state.bf = "active" => state.lastID = 0 /\ state.top = 0
    /\ StaleWhole(state)
    /\ StaleWhole(journal.next) /\ StaleWhole(jn.next)

\* What the checkpoint on disk claims is safe.
Durable ==
    /\ Covers(Live, Safe, 1, state.lastID)
    /\ state.bf = "active" /\ state.next > 0 => Covers(Live, Safe, state.next, state.latest)

\* How far up the full run at hand has read.
Reached == IF opt.all THEN st.latest ELSE st.lastID

\* What a full run has in memory, and what it has written.
Walked ==
    Full =>
    /\ pc \in {"mark", "openOutput"} =>
           IF opt.reset THEN state = ZeroState /\ offset = 0
                        ELSE st = state /\ offset = state.next
    /\ pc \in {"mark", "openOutput", "read", "checkpoint"} =>
           IF opt.all THEN st.bf = "active" /\ st.lastID = 0 /\ st.top = 0 /\ state.lastID = 0
                      ELSE st.bf = "none" /\ state = ZeroState
    /\ pc = "read" => offset = 0 \/ Covers(Live, Streamed, offset, Reached)
    /\ pc = "checkpoint" =>
           /\ Covers(Live, Streamed, page.next, Max2(Reached, page.last))
           /\ page.done \/ page.next > 0
           /\ page.done => Covers(Live, Streamed, 1, Max2(Reached, page.last))
    /\ pc = "finish" => /\ Covers(Live, Streamed, 1, st.lastID)
                        /\ st.bf = "none" \/ (st.bf = "complete" /\ st.latest = st.lastID)

\* The range of a journal: from its lower bound up to the last message, read down
\* to the offset.
RangeOf(j) == /\ j.minID <= j.base.lastID
              /\ Stale(j.base) => j.minID = 0

ReadTo(L, S, j, low, last) ==
    /\ low # 0 => Covers(L, S, Max2(low, j.minID + 1), last)
    /\ j.minID = 0 /\ low # 0 => last > 0

\* The whole range was read; an empty one of an empty chat up to its head.
ReadAll(L, S, j, last, chatTop) ==
    /\ Covers(L, S, j.minID + 1, last)
    /\ j.minID = 0 /\ last = 0 => Covers(L, {}, 1, chatTop)

\* The planned checkpoint goes over what was read.
PlanRead(L, S, j) ==
    \A id \in L : id <= j.next.lastID => id <= j.base.lastID \/ id \in S

Ranged ==
    /\ journal.phase # "absent" => RangeOf(journal)
    /\ journal.phase = "reading" => 
           ReadTo(Live, StagedTo(journal.bytes), journal, journal.offset, journal.last)
    /\ journal.phase = "ready" => 
           ReadAll(Live, StagedTo(journal.bytes), journal, journal.last, journal.top)
    /\ journal.phase = "planned" => PlanRead(Live, StagedTo(journal.bytes), journal)

\* Where an incremental run is, and what it has in memory.
Placed ==
    ~Full =>
    /\ pc \in {"openStage", "saveJournal"} /\ journal.phase = "absent" =>
           jn = [NoJournal EXCEPT !.minID = jn.minID, !.start = 0, !.base = state] /\ RangeOf(jn)
    /\ pc \in {"openStage", "saveJournal", "read", "checkpoint", "ready", "plan"} => st = state
    /\ pc \in BeforeCommit => state = jn.base
    /\ pc \in {"saveJournal", "removeStage"} => journal.phase = "absent"
    /\ pc \in {"read", "checkpoint", "ready"} => journal.phase = "reading"
    /\ pc = "plan" => journal.phase = "ready"
    /\ pc \in Writing => journal.phase = "planned"
    /\ pc = "checkpoint" =>
           /\ ReadTo(Live, StagedTo(Len(stage)), jn, page.next, Max2(jn.last, page.last))
           /\ page.done => 
                  ReadAll(Live, StagedTo(Len(stage)), jn, Max2(jn.last, page.last), top)
    /\ pc = "ready" => ReadAll(Live, StagedTo(jn.bytes), jn, jn.last, top)

\* The stage on its way to the stream.
Copying ==
    /\ pc = "copy" /\ pos = 1 => SuffixOurs(Stream)
    /\ pc = "flush" \/ (pc = "copy" /\ pos > 1) => StagedTo(Len(stage)) \subseteq Streamed
    /\ pc = "commit" \/ (pc \in {"copy", "flush"} /\ pos > 1) => StagedTo(Len(stage)) \subseteq Safe

CoverInv == IInv /\ Seen /\ Mechanisms /\ Durable /\ Walked /\ Ranged /\ Placed /\ Copying

(***************************************************************************)
(* Logs and messages                                                       *)
(***************************************************************************)

\* A log that keeps its first records keeps their messages.
LEMMA IdsKept ==
    ASSUME NEW a, NEW b, NEW n \in Nat, NEW m \in Nat, n <= m,
           \A i \in DOMAIN a : i \in Nat /\ (i <= n => i \in DOMAIN b /\ b[i] = a[i])
    PROVE  Ids(a, n) \subseteq Ids(b, m)
<1>1. \A i \in DOMAIN a : i <= n => i \in {k \in DOMAIN b : k <= m} /\ b[i].id = a[i].id
  OBVIOUS
<1> QED BY <1>1 DEF Ids

\* What covers a range covers what lies in it, with more messages to look in and
\* fewer that live.
LEMMA CoversLess ==
    ASSUME NEW L, L \subseteq Nat, NEW M, M \subseteq Nat, NEW S, NEW T, NEW low \in Nat, NEW high \in Nat, NEW low2 \in Nat,
           NEW high2 \in Nat, low <= low2, high2 <= high, S \subseteq T,
           \A id \in M : id <= high2 => id \in L,
           Covers(L, S, low, high)
    PROVE  Covers(M, T, low2, high2)
BY DEF Covers

\* The values the steps work with.
LEMMA Typed ==
    ASSUME IInv
    PROVE  /\ journal \in Journals /\ jn \in Journals /\ state \in SyncStates /\ st \in SyncStates
           /\ stage \in Seq(Records) /\ Len(stage) \in Nat /\ staged \in Nat
           /\ out \in [Paths -> Seq(Records)] /\ synced \in [Paths -> Nat]
           /\ \A p \in Mine : p \in Paths /\ out[p] \in Seq(Records) /\ Len(out[p]) \in Nat
                              /\ synced[p] \in Nat
           /\ Stream \in Mine /\ \A i \in 1..Len(Outputs) : Outputs[i] \in Mine
           /\ pos \in 1..Len(Outputs) /\ page \in Pages /\ opt \in OptionSet
           /\ head \in Nat /\ top \in Nat /\ offset \in Nat
<1>1. TypeOK
  BY DEF IInv
<1>2. /\ stage \in Seq(Records) /\ out \in [Paths -> Seq(Records)] /\ Mine \subseteq Paths
  BY <1>1, ConstantTypes DEF TypeOK, StageOK, OutputsOK
<1>3. Len(stage) \in Nat
  BY <1>2, LenProperties
<1>4. \A p \in Mine : p \in Paths /\ out[p] \in Seq(Records)
  BY <1>2
<1>5. \A p \in Mine : Len(out[p]) \in Nat
  BY <1>4, LenProperties
<1>6. head \in MaybeID /\ top \in MaybeID /\ offset \in MaybeID
  BY <1>1 DEF TypeOK, TelegramOK, RunOK
<1>7. MaybeID \subseteq Nat
  BY BoundsAssumption DEF MaybeID
<1> QED
  BY <1>1, <1>2, <1>3, <1>4, <1>5, <1>6, <1>7, ConstantTypes
     DEF TypeOK, StageOK, OutputsOK, CheckpointsOK, MemoryOK, RunOK, PageOK

\* The numbers of a checkpoint.
LEMMA StateNumbers ==
    ASSUME NEW s \in SyncStates
    PROVE  s.lastID \in Nat /\ s.latest \in Nat /\ s.next \in Nat /\ s.top \in Nat
<1>1. MaybeID \subseteq Nat
  BY BoundsAssumption DEF MaybeID
<1> QED BY <1>1 DEF SyncStates

\* The numbers of a journal.
LEMMA JournalNumbers ==
    ASSUME NEW j \in Journals
    PROVE  /\ j.minID \in Nat /\ j.offset \in Nat /\ j.bytes \in Nat /\ j.last \in Nat
           /\ j.top \in Nat /\ j.start \in Nat /\ j.base \in SyncStates /\ j.next \in SyncStates
<1>1. MaybeID \subseteq Nat
  BY BoundsAssumption DEF MaybeID
<1> QED BY <1>1 DEF Journals

\* The numbers of a page.
LEMMA PageNumbers ==
    ASSUME NEW g \in Pages PROVE g.next \in Nat /\ g.last \in Nat /\ g.done \in BOOLEAN
<1>1. MaybeID \subseteq Nat
  BY BoundsAssumption DEF MaybeID
<1> QED BY <1>1 DEF Pages

\* Message ids begin at 1.
LEMMA LiveNumbers == Live \subseteq Nat /\ \A id \in Live : id \in IDs /\ 1 <= id
BY BoundsAssumption DEF Live, IDs

(***************************************************************************)
(* Steps of Telegram, and the end of a run                                 *)
(***************************************************************************)

\* The numbers of the invariant.
LEMMA AllNumbers ==
    ASSUME IInv
    PROVE  /\ state.lastID \in Nat /\ state.latest \in Nat /\ state.next \in Nat /\ state.top \in Nat
           /\ st.lastID \in Nat /\ st.latest \in Nat /\ st.next \in Nat /\ st.top \in Nat
           /\ journal.minID \in Nat /\ journal.offset \in Nat /\ journal.bytes \in Nat
           /\ journal.last \in Nat /\ journal.top \in Nat /\ journal.start \in Nat
           /\ journal.base \in SyncStates /\ journal.next \in SyncStates
           /\ jn.minID \in Nat /\ jn.offset \in Nat /\ jn.bytes \in Nat
           /\ jn.last \in Nat /\ jn.top \in Nat /\ jn.start \in Nat
           /\ jn.base \in SyncStates /\ jn.next \in SyncStates
           /\ page.next \in Nat /\ page.last \in Nat /\ page.done \in BOOLEAN
           /\ Reached \in Nat /\ head \in Nat /\ top \in Nat /\ offset \in Nat
           /\ Len(stage) \in Nat
<1>1. /\ journal \in Journals /\ jn \in Journals /\ state \in SyncStates /\ st \in SyncStates
      /\ page \in Pages /\ head \in Nat /\ top \in Nat /\ offset \in Nat /\ Len(stage) \in Nat
  BY Typed
<1>2. /\ state.lastID \in Nat /\ state.latest \in Nat /\ state.next \in Nat /\ state.top \in Nat
      /\ st.lastID \in Nat /\ st.latest \in Nat /\ st.next \in Nat /\ st.top \in Nat
  BY <1>1, StateNumbers
<1>3. /\ journal.minID \in Nat /\ journal.offset \in Nat /\ journal.bytes \in Nat
      /\ journal.last \in Nat /\ journal.top \in Nat /\ journal.start \in Nat
      /\ journal.base \in SyncStates /\ journal.next \in SyncStates
  BY <1>1, JournalNumbers
<1>4. /\ jn.minID \in Nat /\ jn.offset \in Nat /\ jn.bytes \in Nat
      /\ jn.last \in Nat /\ jn.top \in Nat /\ jn.start \in Nat
      /\ jn.base \in SyncStates /\ jn.next \in SyncStates
  BY <1>1, JournalNumbers
<1>5. page.next \in Nat /\ page.last \in Nat /\ page.done \in BOOLEAN
  BY <1>1, PageNumbers
<1>6. Reached \in Nat
  BY <1>2 DEF Reached
<1> QED BY <1>1, <1>2, <1>3, <1>4, <1>5, <1>6

\* What bounds the ranges of the invariant was posted.
LEMMA AllSeen ==
    ASSUME CoverInv
    PROVE  /\ \A id \in Live : id <= head
           /\ state.lastID <= head /\ state.latest <= head /\ st.lastID <= head /\ st.latest <= head
           /\ journal.last <= head /\ journal.top <= head /\ journal.next.lastID <= head
           /\ journal.next.latest <= head
           /\ jn.last <= head /\ jn.top <= head /\ jn.next.lastID <= head /\ jn.next.latest <= head
           /\ top <= head /\ page.last <= head /\ Reached <= head
           /\ Max2(Reached, page.last) <= head /\ Max2(jn.last, page.last) <= head
BY DEF CoverInv, Seen, StateSeen, JournalSeen, Reached, Max2

\* Messages come above the head and go anywhere; nothing else changes.
LEMMA TelegramCover ==
    ASSUME CoverInv, IInv', UNCHANGED <<disk, pc, memory>>, head <= head',
           \A id \in Live' : id <= head' /\ (id \in Live \/ id > head)
    PROVE  CoverInv'
<1>1. /\ Streamed' = Streamed /\ Safe' = Safe /\ Reached' = Reached /\ (Full' <=> Full)
      /\ stage' = stage
  BY DEF Streamed, Safe, Reached, Full, disk, memory
<1>2. ASSUME NEW S, NEW low \in Nat, NEW high \in Nat, high <= head, Covers(Live, S, low, high)
      PROVE  Covers(Live', S, low, high)
  <2>1. \A id \in Live' : id \in IDs /\ id \in Nat
    BY BoundsAssumption DEF Live, IDs
  <2>2. head \in Nat
    BY AllNumbers DEF CoverInv
  <2>3. \A id \in Live' : id <= high => id \in Live
    BY <1>2, <2>1, <2>2
  <2> QED BY <1>2, <2>3 DEF Covers
<1>3. Seen'
  <2>1. head \in Nat /\ head' \in Nat
    <3>1. IInv
      BY DEF CoverInv
    <3>2. head \in Nat
      BY <3>1, Typed
    <3>3. head' \in MaybeID /\ MaybeID \subseteq Nat
      BY BoundsAssumption DEF IInv, TypeOK, TelegramOK, MaybeID
    <3> QED BY <3>2, <3>3
  <2>2. \A n \in Nat : n <= head => n <= head'
    BY <2>1
  <2>3. /\ StateSeen(state)' /\ StateSeen(st)' /\ JournalSeen(journal)' /\ JournalSeen(jn)'
        /\ top' <= head' /\ page'.last <= head'
    <3>1. IInv
      BY DEF CoverInv
    <3>2. /\ state.lastID \in Nat /\ state.latest \in Nat /\ st.lastID \in Nat /\ st.latest \in Nat
          /\ journal.last \in Nat /\ journal.top \in Nat /\ jn.last \in Nat /\ jn.top \in Nat
          /\ top \in Nat /\ page.last \in Nat
          /\ journal.next \in SyncStates /\ jn.next \in SyncStates
      BY <3>1, AllNumbers
    <3>3. /\ journal.next.lastID \in Nat /\ journal.next.latest \in Nat
          /\ jn.next.lastID \in Nat /\ jn.next.latest \in Nat
      BY <3>2, StateNumbers
    <3>4. /\ state' = state /\ st' = st /\ journal' = journal /\ jn' = jn /\ top' = top /\ page' = page
      BY DEF disk, memory
    <3>5. /\ state.lastID <= head' /\ state.latest <= head' /\ st.lastID <= head' /\ st.latest <= head'
          /\ journal.last <= head' /\ journal.top <= head'
          /\ journal.next.lastID <= head' /\ journal.next.latest <= head'
          /\ jn.last <= head' /\ jn.top <= head' /\ jn.next.lastID <= head' /\ jn.next.latest <= head'
          /\ top <= head' /\ page.last <= head'
      BY <2>2, <3>2, <3>3, AllSeen
    <3> QED BY <3>4, <3>5 DEF StateSeen, JournalSeen
  <2> QED BY <2>3 DEF Seen
<1>4. Mechanisms'
  BY <1>1 DEF CoverInv, Mechanisms, StaleWhole, Stale, disk, memory
<1>5. Durable'
  <2>1. state' = state
    BY DEF disk
  <2>2. Covers(Live', Safe, 1, state.lastID)
    BY <1>2, AllSeen, AllNumbers DEF CoverInv, Durable
  <2>3. state.bf = "active" /\ state.next > 0 => Covers(Live', Safe, state.next, state.latest)
    BY <1>2, AllSeen, AllNumbers DEF CoverInv, Durable
  <2> QED BY <1>1, <2>1, <2>2, <2>3 DEF Durable
<1>6. Walked'
  <2>1. /\ state' = state /\ st' = st /\ opt' = opt /\ offset' = offset /\ page' = page /\ pc' = pc
    BY DEF disk, memory
  <2>2. Full /\ pc = "read" => offset = 0 \/ Covers(Live', Streamed, offset, Reached)
    BY <1>2, AllSeen, AllNumbers DEF CoverInv, Walked
  <2>3. Full /\ pc = "checkpoint" =>
           /\ Covers(Live', Streamed, page.next, Max2(Reached, page.last))
           /\ page.done => Covers(Live', Streamed, 1, Max2(Reached, page.last))
    BY <1>2, AllSeen, AllNumbers DEF CoverInv, Walked, Max2
  <2>4. Full /\ pc = "finish" => Covers(Live', Streamed, 1, st.lastID)
    BY <1>2, AllSeen, AllNumbers DEF CoverInv, Walked
  <2> QED BY <1>1, <2>1, <2>2, <2>3, <2>4 DEF CoverInv, Walked
<1>7. StagedTo(Len(stage))' = StagedTo(Len(stage)) /\ StagedTo(journal.bytes)' = StagedTo(journal.bytes)
      /\ StagedTo(jn.bytes)' = StagedTo(jn.bytes)
  BY <1>1 DEF StagedTo, disk, memory
<1>8. ASSUME NEW j \in Journals, NEW low \in Nat, NEW last \in Nat, NEW S, last <= head,
             ReadTo(Live, S, j, low, last)
      PROVE  ReadTo(Live', S, j, low, last)
  <2>1. j.minID \in Nat /\ Max2(low, j.minID + 1) \in Nat
    BY JournalNumbers DEF Max2
  <2> QED BY <1>2, <1>8, <2>1 DEF ReadTo
<1>9. ASSUME NEW j \in Journals, NEW last \in Nat, NEW S, NEW t \in Nat, last <= head, t <= head,
             ReadAll(Live, S, j, last, t)
      PROVE  ReadAll(Live', S, j, last, t)
  <2>1. j.minID \in Nat /\ j.minID + 1 \in Nat
    BY JournalNumbers
  <2> QED BY <1>2, <1>9, <2>1 DEF ReadAll
<1>10. ASSUME NEW j \in Journals, NEW S, j.next.lastID <= head, PlanRead(Live, S, j)
       PROVE  PlanRead(Live', S, j)
  <2>1. j.next.lastID \in Nat
    BY JournalNumbers, StateNumbers
  <2>2. head \in Nat
    BY AllNumbers DEF CoverInv
  <2>3. \A id \in Live' : id \in Nat
    BY BoundsAssumption DEF Live, IDs
  <2> QED BY <1>10, <2>1, <2>2, <2>3 DEF PlanRead
<1>11. /\ UNCHANGED <<state, st, journal, jn, page, pc, top, pos, stage, opt, out>>
  BY DEF disk, memory
<1>12. journal \in Journals /\ jn \in Journals
  BY Typed DEF CoverInv
<1>13. Ranged'
  <2>1. journal.phase = "reading" =>
            ReadTo(Live', StagedTo(journal.bytes), journal, journal.offset, journal.last)
    BY <1>8, <1>12, AllSeen, AllNumbers DEF CoverInv, Ranged
  <2>2. journal.phase = "ready" =>
            ReadAll(Live', StagedTo(journal.bytes), journal, journal.last, journal.top)
    BY <1>9, <1>12, AllSeen, AllNumbers DEF CoverInv, Ranged
  <2>3. journal.phase = "planned" => PlanRead(Live', StagedTo(journal.bytes), journal)
    BY <1>10, <1>12, AllSeen DEF CoverInv, Ranged
  <2> QED BY <1>7, <1>11, <2>1, <2>2, <2>3 DEF CoverInv, Ranged, RangeOf, Stale
<1>14. Placed'
  <2>1. Max2(jn.last, page.last) \in Nat
    BY AllNumbers DEF CoverInv, Max2
  <2>2. ~Full /\ pc = "checkpoint" =>
           /\ ReadTo(Live', StagedTo(Len(stage)), jn, page.next, Max2(jn.last, page.last))
           /\ page.done => ReadAll(Live', StagedTo(Len(stage)), jn, Max2(jn.last, page.last), top)
    BY <1>8, <1>9, <1>12, <2>1, AllSeen, AllNumbers DEF CoverInv, Placed
  <2>3. ~Full /\ pc = "ready" => ReadAll(Live', StagedTo(jn.bytes), jn, jn.last, top)
    BY <1>9, <1>12, AllSeen, AllNumbers DEF CoverInv, Placed
  <2> QED BY <1>1, <1>7, <1>11, <2>2, <2>3 DEF CoverInv, Placed, RangeOf, Stale
<1>15. Copying'
  BY <1>1, <1>7, <1>11 DEF CoverInv, Copying, SuffixOurs
<1> QED BY <1>3, <1>4, <1>5, <1>6, <1>13, <1>14, <1>15 DEF CoverInv

\* The environment of the run, and steps that change nothing.
LEMMA EnvironmentCover ==
    ASSUME CoverInv, IInv', Environment \/ UNCHANGED vars PROVE CoverInv'
<1>1. UNCHANGED <<disk, pc, memory>>
  BY DEF Environment, Post, Edit, Delete, vars
<1>2. /\ msgs \in [IDs -> Versions] /\ head \in MaybeID /\ IDs \subseteq Nat /\ head \in Nat
  <2>1. TypeOK /\ head \in Nat
    BY Typed DEF CoverInv, IInv
  <2> QED BY <2>1, BoundsAssumption DEF TypeOK, TelegramOK, IDs
<1>3. \A id \in Live : id <= head
  BY AllSeen
<1>4. head <= head' /\ \A id \in Live' : id <= head' /\ (id \in Live \/ id > head)
  <2>1. CASE Post
    <3>1. head' = head + 1 /\ msgs' = [msgs EXCEPT ![head + 1] = 1]
      BY <2>1 DEF Post
    <3>2. ASSUME NEW id \in Live' PROVE id \in Live \/ id = head + 1
      BY <1>2, <3>1 DEF Live
    <3>3. \A id \in Live : id \in Nat /\ id <= head
      BY <1>2, <1>3 DEF Live
    <3> QED BY <1>2, <3>1, <3>2, <3>3
  <2>2. CASE Edit
    <3>1. PICK id \in IDs : msgs[id] \in 1..(MaxVersion - 1) /\ msgs' = [msgs EXCEPT ![id] = @ + 1]
      BY <2>2 DEF Edit
    <3>2. msgs[id] # 0
      BY <3>1
    <3>3. head' = head
      BY <2>2 DEF Edit
    <3>4. \A i \in Live' : i \in Live
      BY <1>2, <3>1, <3>2 DEF Live
    <3> QED BY <1>2, <1>3, <3>3, <3>4
  <2>3. CASE Delete
    <3>1. PICK id \in IDs : msgs' = [msgs EXCEPT ![id] = 0]
      BY <2>3 DEF Delete
    <3>2. head' = head
      BY <2>3 DEF Delete
    <3>3. \A i \in Live' : i \in Live
      BY <1>2, <3>1 DEF Live
    <3> QED BY <1>2, <1>3, <3>2, <3>3
  <2>4. CASE UNCHANGED vars
    BY <1>2, <1>3, <2>4 DEF vars, telegram, Live
  <2> QED BY <2>1, <2>2, <2>3, <2>4 DEF Environment
<1> QED BY <1>1, <1>4, TelegramCover

\* A run that ends leaves its journal, and all that is safe.
LEMMA LeaveCover ==
    ASSUME CoverInv, IInv', Leave, UNCHANGED <<telegram, state, journal>>,
           Safe \subseteq Safe',
           journal.phase # "absent" => StagedTo(journal.bytes) \subseteq StagedTo(journal.bytes)'
    PROVE  CoverInv'
<1>1. /\ pc' = "idle" /\ opt' = NoOpt /\ st' = ZeroState /\ jn' = NoJournal
      /\ top' = 0 /\ page' = NoPage
  BY DEF Leave
<1>2. Live' = Live /\ head' = head /\ state' = state /\ journal' = journal
  BY DEF telegram, Live
<1>3. ~Full'
  BY <1>1 DEF Full, NoOpt
<1>4. Seen'
  <2>1. head \in Nat
    BY AllNumbers DEF CoverInv
  <2>2. 0 <= head
    BY <2>1
  <2>3. StateSeen(st)' /\ JournalSeen(jn)' /\ top' <= head' /\ page'.last <= head'
    BY <1>1, <1>2, <2>2 DEF StateSeen, JournalSeen, ZeroState, NoJournal, NoPage
  <2>4. StateSeen(state)' /\ JournalSeen(journal)' /\ \A id \in Live' : id <= head'
    BY <1>2 DEF CoverInv, Seen, StateSeen, JournalSeen
  <2> QED BY <2>3, <2>4 DEF Seen
<1>5. Mechanisms'
  BY <1>1, <1>2 DEF CoverInv, Mechanisms, StaleWhole, Stale, NoJournal, ZeroState
<1>6. Durable'
  BY <1>2 DEF CoverInv, Durable, Covers
<1>7. Walked' /\ Placed' /\ Copying'
  BY <1>1, <1>3 DEF Walked, Placed, Copying, BeforeCommit, Writing
<1>8. Ranged'
  <2>1. journal.phase # "absent" =>
            /\ RangeOf(journal)
            /\ journal.phase = "reading" =>
                  ReadTo(Live, StagedTo(journal.bytes)', journal, journal.offset, journal.last)
            /\ journal.phase = "ready" =>
                  ReadAll(Live, StagedTo(journal.bytes)', journal, journal.last, journal.top)
            /\ journal.phase = "planned" => PlanRead(Live, StagedTo(journal.bytes)', journal)
    BY DEF CoverInv, Ranged, ReadTo, ReadAll, PlanRead, Covers
  <2>2. journal.phase \in {"reading", "ready", "planned"} => journal.phase # "absent"
    OBVIOUS
  <2> QED BY <1>2, <2>1, <2>2 DEF Ranged, RangeOf, Stale
<1> QED BY <1>4, <1>5, <1>6, <1>7, <1>8 DEF CoverInv

\* A check that fails, and the end of a run that published.
LEMMA EndCover ==
    ASSUME CoverInv, IInv', Refuse \/ RemoveStage PROVE CoverInv'
<1>1. Leave /\ UNCHANGED <<telegram, state, journal, out, synced>>
  BY DEF Refuse, RemoveStage, disk
<1>2. Safe' = Safe
  BY <1>1 DEF Safe
<1>3. journal.phase # "absent" => StagedTo(journal.bytes)' = StagedTo(journal.bytes)
  <2>1. CASE Refuse
    BY <2>1 DEF Refuse, disk, StagedTo
  <2>2. CASE RemoveStage
    BY <2>2 DEF RemoveStage, CoverInv, IInv, JournalInMemory
  <2> QED BY <2>1, <2>2
<1> QED BY <1>1, <1>2, <1>3, LeaveCover

\* An interruption loses nothing that was synced.
LEMMA CrashCover ==
    ASSUME CoverInv, IInv', Crash PROVE CoverInv'
<1>1. Leave /\ UNCHANGED <<telegram, state, journal>>
  BY DEF Crash
<1>2. /\ stage \in Seq(Records) /\ Len(stage) \in Nat /\ staged \in Nat /\ Stream \in Mine
      /\ \A p \in Mine : p \in Paths /\ out[p] \in Seq(Records) /\ Len(out[p]) \in Nat
                         /\ synced[p] \in Nat
  BY Typed DEF CoverInv
<1>3. CASE UNCHANGED <<stage, staged, out, synced>>
  BY <1>1, <1>3, LeaveCover DEF Safe, StagedTo
<1>4. CASE Lose
  <2>1. PICK n \in staged..Len(stage) : stage' = Prefix(stage, n)
    BY <1>4 DEF Lose
  <2>2. PICK keep \in [Mine -> UNION {synced[p]..Len(out[p]) : p \in Mine}] :
           /\ \A p \in Mine : keep[p] \in synced[p]..Len(out[p])
           /\ out' = [p \in Paths |-> IF p \in Mine THEN Prefix(out[p], keep[p]) ELSE out[p]]
           /\ synced' = [p \in Paths |-> IF p \in Mine THEN keep[p] ELSE synced[p]]
    BY <1>4 DEF Lose
  <2>3. Safe \subseteq Safe'
    <3>1. PICK k : k = keep[Stream]
      OBVIOUS
    <3>2. k \in synced[Stream]..Len(out[Stream])
      BY <1>2, <2>2, <3>1
    <3>3. k \in 0..Len(out[Stream]) /\ k \in Nat /\ synced[Stream] <= k /\ synced[Stream] \in Nat
      BY <1>2, <3>2
    <3>4. out'[Stream] = Prefix(out[Stream], k) /\ synced'[Stream] = k
      BY <1>2, <2>2, <3>1
    <3>5. /\ Prefix(out[Stream], k) \in Seq(Records) /\ Len(Prefix(out[Stream], k)) = k
          /\ \A i \in 1..k : Prefix(out[Stream], k)[i] = out[Stream][i]
      BY <1>2, <3>3, CutFacts
    <3>6. DOMAIN out[Stream] = 1..Len(out[Stream]) /\ DOMAIN out'[Stream] = 1..k
      BY <1>2, <3>4, <3>5, LenProperties
    <3>7. \A i \in DOMAIN out[Stream] : i \in Nat /\ (i <= synced[Stream] =>
              i \in DOMAIN out'[Stream] /\ out'[Stream][i] = out[Stream][i])
      <4> SUFFICES ASSUME NEW i \in DOMAIN out[Stream]
                   PROVE  i \in Nat /\ (i <= synced[Stream] =>
                             i \in DOMAIN out'[Stream] /\ out'[Stream][i] = out[Stream][i])
        OBVIOUS
      <4>1. i \in Nat /\ 1 <= i
        BY <1>2, <3>6
      <4>2. i <= synced[Stream] => i \in 1..k
        BY <3>3, <4>1
      <4> QED BY <3>4, <3>5, <3>6, <4>1, <4>2
    <3>8. Ids(out[Stream], synced[Stream]) \subseteq Ids(out'[Stream], k)
      BY <3>3, <3>7, IdsKept
    <3> QED BY <3>4, <3>8 DEF Safe
  <2>4. journal.phase # "absent" => StagedTo(journal.bytes) \subseteq StagedTo(journal.bytes)'
    <3> SUFFICES ASSUME journal.phase # "absent"
                 PROVE  StagedTo(journal.bytes) \subseteq StagedTo(journal.bytes)'
      OBVIOUS
    <3>1. PICK b \in Nat : b = journal.bytes
      BY AllNumbers DEF CoverInv
    <3>2. b <= staged
      BY <3>1 DEF CoverInv, IInv, JournalDurable
    <3>3. n \in 0..Len(stage) /\ n \in Nat /\ b <= n
      BY <1>2, <2>1, <3>2
    <3>4. /\ Prefix(stage, n) \in Seq(Records) /\ Len(Prefix(stage, n)) = n
          /\ \A i \in 1..n : Prefix(stage, n)[i] = stage[i]
      BY <1>2, <3>3, CutFacts
    <3>5. DOMAIN stage = 1..Len(stage) /\ DOMAIN stage' = 1..n
      BY <1>2, <2>1, <3>4, LenProperties
    <3>6. \A i \in DOMAIN stage : i \in Nat /\ (i <= b => i \in DOMAIN stage' /\ stage'[i] = stage[i])
      <4> SUFFICES ASSUME NEW i \in DOMAIN stage
                   PROVE  i \in Nat /\ (i <= b => i \in DOMAIN stage' /\ stage'[i] = stage[i])
        OBVIOUS
      <4>1. i \in Nat /\ 1 <= i
        BY <1>2, <3>5
      <4>2. i <= b => i \in 1..n
        BY <3>3, <4>1
      <4> QED BY <2>1, <3>4, <3>5, <4>1, <4>2
    <3>7. Ids(stage, b) \subseteq Ids(stage', b)
      BY <3>6, IdsKept
    <3> QED BY <1>1, <3>1, <3>7 DEF StagedTo
  <2> QED BY <1>1, <2>3, <2>4, LeaveCover
<1> QED BY <1>3, <1>4 DEF Crash

(***************************************************************************)
(* The begin of a run                                                      *)
(***************************************************************************)

\* The lower bound of a routine run lies at or below the boundary, and the repair
\* of a checkpoint ahead of the chat's head reads everything.
LEMMA RoutineBound ==
    ASSUME CoverInv
    PROVE  /\ IncrementalMinID(state) \in Nat /\ IncrementalMinID(state) <= state.lastID
           /\ Stale(state) => IncrementalMinID(state) = 0
<1>1. state.lastID \in Nat /\ state.latest \in Nat /\ state.top \in Nat
  BY AllNumbers DEF CoverInv
<1>2. StaleWhole(state)
  BY DEF CoverInv, Mechanisms
<1>3. Stale(state) => IncrementalMinID(state) = 0
  BY <1>1, <1>2 DEF StaleWhole, Stale, IncrementalMinID
<1>4. ~Stale(state) => IncrementalMinID(state) = state.lastID
  BY DEF IncrementalMinID
<1> QED BY <1>1, <1>3, <1>4

\* The dialog list names a message that exists.
LEMMA TopSeen == ASSUME CoverInv, NEW t \in {0} \cup Newest PROVE t <= head
<1>1. head \in Nat /\ \A id \in Live : id <= head
  BY AllNumbers, AllSeen DEF CoverInv
<1>2. Newest \subseteq Live
  BY DEF Newest, Live
<1> QED BY <1>1, <1>2

\* A plain run begins.
LEMMA StartPlainCover ==
    ASSUME CoverInv, IInv', NEW o \in Options, StartIncremental(o), o.start = 0
    PROVE  CoverInv'
<1>1. /\ ~o.all /\ ~o.reset /\ state.bf # "active" /\ pc = "idle"
      /\ st' = state /\ top' \in {0} \cup Newest /\ page' = NoPage /\ pos' = 1
      /\ UNCHANGED <<telegram, disk, spent>>
  BY DEF StartIncremental, Acquire
<1>2. Live' = Live /\ head' = head /\ Safe' = Safe /\ UNCHANGED <<state, journal, stage, out, synced>>
  BY <1>1 DEF Live, Safe, telegram, disk
<1>3. journal.start = 0 /\ RunStart(o) = 0 /\ RunMinID(o) = IncrementalMinID(state)
  BY DEF CoverInv, Mechanisms, RunStart, RunMinID, Adopts
<1>4. ~Full'
  <2>1. opt' = [o EXCEPT !.start = RunStart(o)] /\ o \in OptionSet
    BY OptionsAssumption DEF StartIncremental
  <2> QED BY <1>1, <2>1 DEF Full, OptionSet
<1>5. \/ /\ journal.phase = "absent" /\ pc' = "openStage"
         /\ jn' = [NoJournal EXCEPT !.minID = IncrementalMinID(state), !.start = 0, !.base = state]
      \/ /\ journal.phase # "absent" /\ jn' = journal
         /\ pc' = "unmark" \/ (pc' = "openStage" /\ state = journal.base)
  <2>1. CASE journal.phase = "absent"
    <3>1. /\ pc' = "openStage"
          /\ jn' = [NoJournal EXCEPT !.minID = RunMinID(o), !.start = o.start, !.base = state]
      BY <2>1 DEF StartIncremental
    <3> QED BY <1>3, <2>1, <3>1
  <2>2. CASE journal.phase # "absent"
    BY <2>2 DEF StartIncremental
  <2> QED BY <2>1, <2>2
<1>13. \/ jn' = journal
       \/ /\ jn'.last = 0 /\ jn'.top = 0 /\ jn'.start = 0 /\ jn'.next = ZeroState /\ jn'.base = state
          /\ jn'.minID = IncrementalMinID(state)
  BY <1>5 DEF NoJournal
<1>6. Seen'
  <2>1. head \in Nat /\ 0 <= head
    BY AllNumbers DEF CoverInv
  <2>2. top' <= head' /\ page'.last <= head'
    BY <1>1, <1>2, <2>1, TopSeen DEF NoPage
  <2>3. JournalSeen(jn)'
    BY <1>2, <1>13, <2>1 DEF CoverInv, Seen, JournalSeen, StateSeen, ZeroState
  <2> QED BY <1>1, <1>2, <2>2, <2>3 DEF CoverInv, Seen, StateSeen, JournalSeen
<1>7. Mechanisms'
  <2>1. jn'.start = 0 /\ jn'.next.bf # "active" /\ StaleWhole(jn'.next)
    BY <1>13 DEF CoverInv, Mechanisms, ZeroState, StaleWhole, Stale
  <2> QED BY <1>1, <1>2, <1>4, <1>5, <2>1 DEF CoverInv, Mechanisms, StaleWhole, Stale
<1>8. Durable'
  BY <1>2 DEF CoverInv, Durable
<1>9. Walked'
  BY <1>4 DEF Walked
<1>10. Ranged'
  BY <1>2 DEF CoverInv, Ranged, StagedTo, RangeOf, Stale
<1>11. Placed'
  <2>1. pc' \in {"openStage", "unmark"}
    BY <1>5
  <2>2. pc' = "openStage" => state' = jn'.base
    BY <1>2, <1>5 DEF NoJournal
  <2>3. pc' = "openStage" /\ journal'.phase = "absent" =>
            jn' = [NoJournal EXCEPT !.minID = jn'.minID, !.start = 0, !.base = state'] /\ RangeOf(jn)'
    BY <1>2, <1>5, RoutineBound DEF NoJournal, RangeOf, Stale
  <2> QED BY <1>1, <1>2, <2>1, <2>2, <2>3 DEF Placed, BeforeCommit, Writing
<1>12. Copying'
  BY <1>5 DEF Copying
<1> QED BY <1>6, <1>7, <1>8, <1>9, <1>10, <1>11, <1>12 DEF CoverInv

\* A full run begins.
LEMMA StartFullCover ==
    ASSUME CoverInv, IInv', NEW o \in Options, StartFull(o), o.reset => state = ZeroState
    PROVE  CoverInv'
<1>1. /\ o.all \/ o.reset
      /\ ~o.reset => state.bf = "active"
      /\ pc = "idle" /\ pc' = "mark" /\ opt' = o /\ jn' = NoJournal
      /\ st' = IF ~o.reset THEN state
               ELSE IF o.all THEN [ZeroState EXCEPT !.bf = "active"] ELSE ZeroState
      /\ offset' = IF o.reset THEN 0 ELSE state.next
      /\ top' \in {0} \cup Newest /\ page' = NoPage /\ pos' = 1
      /\ UNCHANGED <<telegram, disk>>
  BY DEF StartFull, Acquire
<1>2. Live' = Live /\ head' = head /\ Safe' = Safe /\ UNCHANGED <<state, journal, stage, out, synced>>
  BY <1>1 DEF Live, Safe, telegram, disk
<1>3. Full' /\ opt'.all = o.all /\ opt'.reset = o.reset
  BY <1>1 DEF Full
<1>4. state.bf = "active" => state.lastID = 0 /\ state.top = 0
  BY DEF CoverInv, Mechanisms
<1>5. Seen'
  <2>1. head \in Nat /\ 0 <= head
    BY AllNumbers DEF CoverInv
  <2>2. top' <= head' /\ page'.last <= head'
    BY <1>1, <1>2, <2>1, TopSeen DEF NoPage
  <2>3. JournalSeen(jn)'
    BY <1>1, <1>2, <2>1 DEF StateSeen, JournalSeen, NoJournal, ZeroState
  <2>4. StateSeen(st)'
    BY <1>1, <1>2, <2>1 DEF CoverInv, Seen, StateSeen, ZeroState
  <2> QED BY <1>2, <2>2, <2>3, <2>4 DEF CoverInv, Seen, StateSeen, JournalSeen
<1>6. Mechanisms'
  BY <1>1, <1>2, <1>3 DEF CoverInv, Mechanisms, FullPlaces, StaleWhole, Stale, NoJournal, ZeroState
<1>7. Durable'
  BY <1>2 DEF CoverInv, Durable
<1>8. Walked'
  <2>1. IF o.reset THEN state = ZeroState /\ offset' = 0 ELSE st' = state /\ offset' = state.next
    BY <1>1
  <2>2. IF o.all THEN st'.bf = "active" /\ st'.lastID = 0 /\ st'.top = 0 /\ state.lastID = 0
                 ELSE st'.bf = "none" /\ state = ZeroState
    BY <1>1, <1>4 DEF ZeroState
  <2> QED BY <1>1, <1>2, <1>3, <2>1, <2>2 DEF Walked
<1>9. Ranged'
  BY <1>2 DEF CoverInv, Ranged, StagedTo, RangeOf, Stale
<1>10. Placed' /\ Copying'
  BY <1>1, <1>3 DEF Placed, Copying
<1> QED BY <1>5, <1>6, <1>7, <1>8, <1>9, <1>10 DEF CoverInv

(***************************************************************************)
(* Steps that move on, and the journal                                     *)
(***************************************************************************)

\* A step of a run that leaves Telegram, the state and the files alone.
LEMMA QuietCover ==
    ASSUME CoverInv,
           UNCHANGED <<telegram, state, journal, stage, out, synced, opt, st, jn, top, page>>,
           pc # "idle", Full => pc' \in FullPlaces, ~Full => pc' \notin {"openOutput", "finish"}
    PROVE  /\ Seen' /\ Mechanisms' /\ Durable' /\ Ranged' /\ (Full' <=> Full)
           /\ Live' = Live /\ Safe' = Safe /\ Streamed' = Streamed
           /\ UNCHANGED <<state, journal, stage, opt, st, jn, top, page>>
<1>1. /\ Live' = Live /\ head' = head /\ Safe' = Safe /\ Streamed' = Streamed /\ (Full' <=> Full)
      /\ UNCHANGED <<state, journal, stage, opt, st, jn, top, page>>
  BY DEF Live, Safe, Streamed, Full, telegram
<1>2. Seen'
  BY <1>1 DEF CoverInv, Seen, StateSeen, JournalSeen
<1>3. Mechanisms'
  BY <1>1 DEF CoverInv, Mechanisms, StaleWhole, Stale
<1>4. Durable'
  BY <1>1 DEF CoverInv, Durable
<1>5. Ranged'
  BY <1>1 DEF CoverInv, Ranged, StagedTo, RangeOf, Stale
<1> QED BY <1>1, <1>2, <1>3, <1>4, <1>5

\* Where an incremental run may be.
LEMMA IncrementalPlaces ==
    ASSUME CoverInv
    PROVE  /\ pc \in {"openStage", "saveJournal", "ready", "plan", "verify", "compare", "copy",
                      "flush", "commit", "removeJournal", "removeStage"} => ~Full
           /\ pc \in {"openOutput", "finish"} => Full
BY DEF CoverInv, Mechanisms, FullPlaces

\* The sizes of the outputs are checked.
LEMMA VerifyCover == ASSUME CoverInv, IInv', Verify PROVE CoverInv'
<1>1. /\ pc = "verify" /\ pc' = "mark" /\ ~Full
      /\ UNCHANGED <<telegram, state, journal, stage, out, synced, opt, st, jn, top, page>>
  BY IncrementalPlaces DEF Verify, disk, memory
<1>2. /\ Seen' /\ Mechanisms' /\ Durable' /\ Ranged' /\ (Full' <=> Full)
      /\ UNCHANGED <<state, journal, stage, opt, st, jn, top, page>>
  BY <1>1, QuietCover
<1>3. Walked' /\ Copying'
  BY <1>1, <1>2 DEF Walked, Copying
<1>4. Placed'
  BY <1>1, <1>2 DEF CoverInv, Placed, BeforeCommit, Writing
<1> QED BY <1>2, <1>3, <1>4 DEF CoverInv

\* An output gets its marker.
LEMMA MarkCover == ASSUME CoverInv, IInv', Mark PROVE CoverInv'
<1>1. /\ pc = "mark" /\ pc' \in {"mark", IF Full THEN "openOutput" ELSE "compare"}
      /\ UNCHANGED <<telegram, state, journal, stage, out, synced, opt, st, jn, top, page>>
      /\ offset' = offset
  BY DEF Mark
<1>2. /\ Seen' /\ Mechanisms' /\ Durable' /\ Ranged' /\ (Full' <=> Full)
      /\ UNCHANGED <<state, journal, stage, opt, st, jn, top, page>>
  BY <1>1, QuietCover DEF FullPlaces
<1>3. Walked'
  BY <1>1, <1>2 DEF CoverInv, Walked
<1>4. Placed' /\ Copying'
  BY <1>1, <1>2 DEF CoverInv, Placed, Copying, BeforeCommit, Writing
<1> QED BY <1>2, <1>3, <1>4 DEF CoverInv

\* What the outputs hold past the recorded sizes is checked.
LEMMA CompareCover == ASSUME CoverInv, IInv', Compare PROVE CoverInv'
<1>1. /\ pc = "compare" /\ pc' = "copy" /\ pos' = 1 /\ ~Full /\ SuffixOurs(Stream)
      /\ UNCHANGED <<telegram, state, journal, stage, out, synced, opt, st, jn, top, page>>
  <2>1. Stream \in Mine
    BY Typed DEF CoverInv
  <2> QED BY <2>1, IncrementalPlaces DEF Compare, disk
<1>2. /\ Seen' /\ Mechanisms' /\ Durable' /\ Ranged' /\ (Full' <=> Full)
      /\ UNCHANGED <<state, journal, stage, opt, st, jn, top, page>>
  BY <1>1, QuietCover
<1>3. Walked'
  BY <1>1, <1>2 DEF Walked
<1>4. Placed'
  BY <1>1, <1>2 DEF CoverInv, Placed, BeforeCommit, Writing
<1>5. Copying'
  BY <1>1, <1>2 DEF Copying, SuffixOurs
<1> QED BY <1>2, <1>3, <1>4, <1>5 DEF CoverInv

\* A marker is taken away.
LEMMA UnmarkCover == ASSUME CoverInv, IInv', Unmark PROVE CoverInv'
<1>1. pc = "unmark" /\ UNCHANGED <<telegram, state, journal, stage, out, synced>>
  BY DEF Unmark
<1>2. CASE Leave
  <2>1. Safe' = Safe /\ StagedTo(journal.bytes)' = StagedTo(journal.bytes)
    BY <1>1 DEF Safe, StagedTo
  <2> QED BY <1>1, <1>2, <2>1, LeaveCover
<1>3. CASE /\ UNCHANGED <<opt, st, jn, top, page>>
           /\ pc' = "unmark" \/ (~Full /\ pc' = "removeJournal")
  <2>1. /\ Seen' /\ Mechanisms' /\ Durable' /\ Ranged' /\ (Full' <=> Full)
        /\ UNCHANGED <<state, journal, stage, opt, st, jn, top, page>>
    BY <1>1, <1>3, QuietCover DEF FullPlaces
  <2>2. Walked' /\ Placed' /\ Copying'
    BY <1>3, <2>1 DEF Walked, Placed, Copying, BeforeCommit, Writing
  <2> QED BY <2>1, <2>2 DEF CoverInv
<1> QED BY <1>1, <1>2, <1>3 DEF Unmark

\* The journal of a committed range is removed.
LEMMA RemoveJournalCover == ASSUME CoverInv, IInv', RemoveJournal PROVE CoverInv'
<1>1. /\ pc = "removeJournal" /\ pc' = "removeStage" /\ journal' = NoJournal /\ ~Full
      /\ UNCHANGED <<telegram, state, stage, out, synced, opt, st, jn, top, page>>
  BY IncrementalPlaces DEF RemoveJournal, memory
<1>2. /\ Live' = Live /\ head' = head /\ Safe' = Safe /\ ~Full' /\ 0 <= head
      /\ UNCHANGED <<state, stage, st, jn, top, page>>
  <2>1. head \in Nat
    BY AllNumbers DEF CoverInv
  <2> QED BY <1>1, <2>1 DEF Live, Safe, Full, telegram
<1>3. Seen'
  BY <1>1, <1>2 DEF CoverInv, Seen, StateSeen, JournalSeen, NoJournal, ZeroState
<1>4. Mechanisms'
  BY <1>1, <1>2 DEF CoverInv, Mechanisms, StaleWhole, Stale, NoJournal, ZeroState
<1>5. Durable'
  BY <1>2 DEF CoverInv, Durable
<1>6. Ranged'
  BY <1>1 DEF Ranged, NoJournal
<1>7. Walked' /\ Placed' /\ Copying'
  BY <1>1, <1>2 DEF Walked, Placed, Copying, BeforeCommit, Writing, NoJournal
<1> QED BY <1>3, <1>4, <1>5, <1>6, <1>7 DEF CoverInv

\* The journal of a new range is saved.
LEMMA SaveJournalCover == ASSUME CoverInv, IInv', SaveJournal PROVE CoverInv'
<1>1. /\ pc = "saveJournal" /\ pc' = "read" /\ journal' = [jn EXCEPT !.phase = "reading"]
      /\ jn' = journal' /\ ~Full /\ jn \in Journals
      /\ UNCHANGED <<telegram, state, stage, out, synced, opt, st, top, page>>
  BY IncrementalPlaces, Typed DEF SaveJournal, CoverInv
<1>2. /\ Live' = Live /\ head' = head /\ Safe' = Safe /\ ~Full'
      /\ UNCHANGED <<state, stage, st, top, page>>
  BY <1>1 DEF Live, Safe, Full, telegram
<1>3. /\ jn = [NoJournal EXCEPT !.minID = jn.minID, !.start = 0, !.base = state] /\ RangeOf(jn)
      /\ st = state /\ state = jn.base
  <2>1. journal.phase = "absent"
    BY <1>1 DEF CoverInv, Placed
  <2> QED BY <1>1, <2>1 DEF CoverInv, Placed, BeforeCommit
<1>4. jn.offset = 0 /\ jn.last = 0 /\ jn.top = 0 /\ jn.next = ZeroState
  BY <1>3 DEF NoJournal
<1>5. /\ journal'.phase = "reading" /\ journal'.offset = 0 /\ journal'.last = jn.last
      /\ journal'.top = jn.top /\ journal'.next = jn.next /\ journal'.base = jn.base
      /\ journal'.minID = jn.minID /\ journal'.start = jn.start
  BY <1>1, <1>4 DEF Journals
<1>6. Seen'
  BY <1>1, <1>2, <1>5 DEF CoverInv, Seen, StateSeen, JournalSeen
<1>7. Mechanisms'
  BY <1>1, <1>2, <1>5 DEF CoverInv, Mechanisms, StaleWhole, Stale
<1>8. Durable'
  BY <1>2 DEF CoverInv, Durable
<1>9. Ranged'
  BY <1>3, <1>5 DEF Ranged, RangeOf, Stale, ReadTo
<1>10. Walked' /\ Copying'
  BY <1>1, <1>2 DEF Walked, Copying
<1>11. Placed'
  BY <1>1, <1>2, <1>3, <1>5 DEF Placed, BeforeCommit, Writing
<1> QED BY <1>6, <1>7, <1>8, <1>9, <1>10, <1>11 DEF CoverInv

\* The end of the stage that the journal does not promise is cut.
LEMMA OpenStageCover == ASSUME CoverInv, IInv', OpenStage PROVE CoverInv'
<1>1. /\ pc = "openStage" /\ ~Full /\ jn.bytes <= Len(stage) /\ stage' = Prefix(stage, jn.bytes)
      /\ pc' = CASE journal.phase = "absent"  -> "saveJournal"
                 [] journal.phase = "reading" -> "read"
                 [] journal.phase = "ready"   -> "plan"
                 [] journal.phase = "planned" -> "verify"
      /\ UNCHANGED <<telegram, state, journal, out, synced, opt, st, jn, top, page>>
  BY IncrementalPlaces DEF OpenStage, memory
<1>2. /\ Live' = Live /\ head' = head /\ Safe' = Safe /\ ~Full'
      /\ UNCHANGED <<state, journal, st, jn, top, page>>
  BY <1>1 DEF Live, Safe, Full, telegram
<1>3. journal.phase \in Phases
  BY Typed DEF CoverInv, Journals
<1>4. \/ journal.phase = "absent" /\ pc' = "saveJournal"
      \/ journal.phase = "reading" /\ pc' = "read"
      \/ journal.phase = "ready" /\ pc' = "plan"
      \/ journal.phase = "planned" /\ pc' = "verify"
  BY <1>1, <1>3 DEF Phases
<1>5. Seen'
  BY <1>2 DEF CoverInv, Seen, StateSeen, JournalSeen
<1>6. Mechanisms'
  BY <1>1, <1>2, <1>4 DEF CoverInv, Mechanisms, StaleWhole, Stale
<1>7. Durable'
  BY <1>2 DEF CoverInv, Durable
<1>8. journal.phase # "absent" => StagedTo(journal.bytes) \subseteq StagedTo(journal.bytes)'
  <2> SUFFICES ASSUME journal.phase # "absent"
               PROVE  StagedTo(journal.bytes) \subseteq StagedTo(journal.bytes)'
    OBVIOUS
  <2>1. PICK b \in Nat : b = journal.bytes
    BY AllNumbers DEF CoverInv
  <2>2. jn = journal
    BY <1>1 DEF CoverInv, IInv, JournalInMemory
  <2>3. stage \in Seq(Records) /\ b \in 0..Len(stage) /\ stage' = Prefix(stage, b) /\ Len(stage) \in Nat
    <3>1. stage \in Seq(Records) /\ Len(stage) \in Nat
      BY Typed DEF CoverInv
    <3>2. b <= Len(stage)
      BY <1>1, <2>1, <2>2
    <3> QED BY <1>1, <2>1, <2>2, <3>1, <3>2
  <2>4. /\ Prefix(stage, b) \in Seq(Records) /\ Len(Prefix(stage, b)) = b
        /\ \A i \in 1..b : Prefix(stage, b)[i] = stage[i]
    BY <2>3, CutFacts
  <2>5. DOMAIN stage = 1..Len(stage) /\ DOMAIN stage' = 1..b
    BY <2>3, <2>4, LenProperties
  <2>6. \A i \in DOMAIN stage : i \in Nat /\ (i <= b => i \in DOMAIN stage' /\ stage'[i] = stage[i])
    <3> SUFFICES ASSUME NEW i \in DOMAIN stage
                 PROVE  i \in Nat /\ (i <= b => i \in DOMAIN stage' /\ stage'[i] = stage[i])
      OBVIOUS
    <3>1. i \in Nat /\ 1 <= i
      BY <2>3, <2>5
    <3>2. i <= b => i \in 1..b
      BY <3>1
    <3> QED BY <2>3, <2>4, <2>5, <3>1, <3>2
  <2>7. Ids(stage, b) \subseteq Ids(stage', b)
    BY <2>6, IdsKept
  <2> QED BY <1>1, <2>1, <2>7 DEF StagedTo
<1>9. Ranged'
  <2>1. journal.phase # "absent" =>
            /\ RangeOf(journal)
            /\ journal.phase = "reading" =>
                  ReadTo(Live, StagedTo(journal.bytes)', journal, journal.offset, journal.last)
            /\ journal.phase = "ready" =>
                  ReadAll(Live, StagedTo(journal.bytes)', journal, journal.last, journal.top)
            /\ journal.phase = "planned" => PlanRead(Live, StagedTo(journal.bytes)', journal)
    BY <1>8 DEF CoverInv, Ranged, ReadTo, ReadAll, PlanRead, Covers
  <2>2. journal.phase \in {"reading", "ready", "planned"} => journal.phase # "absent"
    OBVIOUS
  <2> QED BY <1>2, <2>1, <2>2 DEF Ranged, RangeOf, Stale
<1>10. Walked' /\ Copying'
  BY <1>2, <1>4 DEF Walked, Copying
<1>11. Placed'
  BY <1>1, <1>2, <1>4 DEF CoverInv, Placed, BeforeCommit, Writing, RangeOf, Stale
<1> QED BY <1>5, <1>6, <1>7, <1>9, <1>10, <1>11 DEF CoverInv

(***************************************************************************)
(* The range                                                               *)
(***************************************************************************)

\* The part of a log is in the whole.
LEMMA PartOfLog ==
    ASSUME NEW S, NEW s \in Seq(S), NEW n \in Nat
    PROVE  Ids(s, n) \subseteq Ids(s, Len(s))
<1>1. \A i \in DOMAIN s : i <= Len(s)
  BY LenProperties
<1> QED BY <1>1 DEF Ids

\* What the journal promises is staged.
LEMMA PromisedStaged ==
    ASSUME CoverInv
    PROVE  StagedTo(jn.bytes) \subseteq StagedTo(Len(stage))
<1>1. stage \in Seq(Records) /\ jn.bytes \in Nat
  BY Typed, AllNumbers DEF CoverInv
<1> QED BY <1>1, PartOfLog DEF StagedTo

\* A journal that takes the page in.
LEMMA CheckpointPageCover == ASSUME CoverInv, IInv', CheckpointPage PROVE CoverInv'
<1>1. /\ pc = "checkpoint" /\ ~Full /\ pc' = (IF page.done THEN "ready" ELSE "read")
      /\ journal' = [jn EXCEPT !.bytes = Len(stage), !.offset = page.next,
                               !.last = Max2(@, page.last), !.added = @ + page.count]
      /\ jn' = journal' /\ jn = journal /\ jn \in Journals
      /\ UNCHANGED <<telegram, state, stage, out, synced, opt, st, top, page>>
  BY Typed DEF CheckpointPage, CoverInv, IInv, JournalInMemory, Staging
<1>2. /\ Live' = Live /\ head' = head /\ Safe' = Safe /\ ~Full'
      /\ UNCHANGED <<state, stage, st, top, page>>
  BY <1>1 DEF Live, Safe, Full, telegram
<1>3. journal.phase = "reading" /\ RangeOf(journal) /\ st = state /\ state = jn.base
  <2>1. journal.phase = "reading" /\ st = state /\ state = jn.base
    BY <1>1 DEF CoverInv, Placed, BeforeCommit
  <2> QED BY <2>1 DEF CoverInv, Ranged
<1>4. /\ journal'.phase = "reading" /\ journal'.offset = page.next
      /\ journal'.last = Max2(jn.last, page.last) /\ journal'.bytes = Len(stage)
      /\ journal'.top = jn.top /\ journal'.next = jn.next /\ journal'.base = jn.base
      /\ journal'.minID = jn.minID /\ journal'.start = jn.start
  BY <1>1, <1>3 DEF Journals
<1>5. Seen'
  BY <1>1, <1>2, <1>4, AllSeen DEF CoverInv, Seen, StateSeen, JournalSeen
<1>6. Mechanisms'
  BY <1>1, <1>2, <1>4 DEF CoverInv, Mechanisms, StaleWhole, Stale
<1>7. Durable'
  BY <1>2 DEF CoverInv, Durable
<1>8. StagedTo(journal.bytes)' = StagedTo(Len(stage)) /\ StagedTo(jn.bytes)' = StagedTo(Len(stage))
  BY <1>1, <1>4 DEF StagedTo
<1>9. /\ ReadTo(Live, StagedTo(Len(stage)), jn, page.next, Max2(jn.last, page.last))
      /\ page.done => ReadAll(Live, StagedTo(Len(stage)), jn, Max2(jn.last, page.last), top)
  BY <1>1 DEF CoverInv, Placed
<1>10. Ranged'
  BY <1>1, <1>2, <1>3, <1>4, <1>8, <1>9 DEF Ranged, RangeOf, Stale, ReadTo
<1>11. Walked' /\ Copying'
  BY <1>1, <1>2 DEF Walked, Copying
<1>12. Placed'
  <2>1. pc' = "ready" => ReadAll(Live', StagedTo(jn.bytes)', jn', jn'.last, top')
    BY <1>1, <1>2, <1>4, <1>8, <1>9 DEF ReadAll
  <2> QED BY <1>1, <1>2, <1>3, <1>4, <2>1 DEF Placed, BeforeCommit, Writing
<1> QED BY <1>5, <1>6, <1>7, <1>10, <1>11, <1>12 DEF CoverInv

\* A journal whose range was read.
LEMMA MarkReadyCover == ASSUME CoverInv, IInv', MarkReady PROVE CoverInv'
<1>1. /\ pc = "ready" /\ ~Full /\ pc' = "plan"
      /\ journal' = [jn EXCEPT !.phase = "ready", !.bytes = Len(stage), !.top = top]
      /\ jn' = journal' /\ jn = journal /\ jn \in Journals
      /\ UNCHANGED <<telegram, state, stage, out, synced, opt, st, top, page>>
  BY Typed, IncrementalPlaces DEF MarkReady, CoverInv, IInv, JournalInMemory, Staging
<1>2. /\ Live' = Live /\ head' = head /\ Safe' = Safe /\ ~Full'
      /\ UNCHANGED <<state, stage, st, top, page>>
  BY <1>1 DEF Live, Safe, Full, telegram
<1>3. journal.phase = "reading" /\ RangeOf(journal) /\ st = state /\ state = jn.base
  <2>1. journal.phase = "reading" /\ st = state /\ state = jn.base
    BY <1>1 DEF CoverInv, Placed, BeforeCommit
  <2> QED BY <2>1 DEF CoverInv, Ranged
<1>4. /\ journal'.phase = "ready" /\ journal'.last = jn.last /\ journal'.bytes = Len(stage)
      /\ journal'.top = top /\ journal'.next = jn.next /\ journal'.base = jn.base
      /\ journal'.minID = jn.minID /\ journal'.start = jn.start
  BY <1>1 DEF Journals
<1>5. Seen'
  BY <1>1, <1>2, <1>4, AllSeen DEF CoverInv, Seen, StateSeen, JournalSeen
<1>6. Mechanisms'
  BY <1>1, <1>2, <1>4 DEF CoverInv, Mechanisms, StaleWhole, Stale
<1>7. Durable'
  BY <1>2 DEF CoverInv, Durable
<1>8. StagedTo(journal.bytes)' = StagedTo(Len(stage))
  BY <1>1, <1>4 DEF StagedTo
<1>9. ReadAll(Live, StagedTo(Len(stage)), jn, jn.last, top)
  <2>1. ReadAll(Live, StagedTo(jn.bytes), jn, jn.last, top)
    BY <1>1 DEF CoverInv, Placed
  <2> QED BY <2>1, PromisedStaged DEF ReadAll, Covers
<1>10. Ranged'
  BY <1>1, <1>2, <1>3, <1>4, <1>8, <1>9 DEF Ranged, RangeOf, Stale, ReadAll
<1>11. Walked' /\ Copying'
  BY <1>1, <1>2 DEF Walked, Copying
<1>12. Placed'
  BY <1>1, <1>2, <1>3, <1>4 DEF Placed, BeforeCommit, Writing
<1> QED BY <1>5, <1>6, <1>7, <1>10, <1>11, <1>12 DEF CoverInv

\* The next checkpoint goes as far as what was read, and not past it.
LEMMA PlannedRead ==
    ASSUME CoverInv, st = jn.base, RangeOf(jn), NEW S, ReadAll(Live, S, jn, jn.last, jn.top)
    PROVE  /\ NextLastID \in Nat /\ NextLastID <= head
           /\ \A id \in Live : id <= NextLastID => id <= jn.base.lastID \/ id \in S
<1>1. /\ st.lastID \in Nat /\ jn.last \in Nat /\ jn.top \in Nat /\ jn.minID \in Nat
      /\ st.lastID <= head /\ jn.last <= head /\ jn.top <= head /\ head \in Nat
  BY AllNumbers, AllSeen DEF CoverInv
<1>2. \A id \in Live : id \in Nat /\ 1 <= id
  BY LiveNumbers
<1>3. /\ \A id \in Live : jn.minID + 1 <= id /\ id <= jn.last => id \in S
      /\ jn.minID = 0 /\ jn.last = 0 => \A id \in Live : ~(1 <= id /\ id <= jn.top)
  BY DEF ReadAll, Covers
<1>4. CASE Stale(st)
  <2>1. jn.minID = 0
    BY <1>4 DEF RangeOf
  <2>2. NextLastID = IF jn.last > 0 THEN jn.last ELSE IF jn.top > 0 THEN jn.top ELSE 0
    BY <1>4, <2>1 DEF NextLastID, Recovered
  <2>3. CASE jn.last > 0
    BY <1>1, <1>2, <1>3, <2>1, <2>2, <2>3
  <2>4. CASE jn.last = 0
    <3>1. NextLastID = jn.top
      BY <1>1, <2>2, <2>4
    <3> QED BY <1>1, <1>2, <1>3, <2>1, <2>4, <3>1
  <2> QED BY <1>1, <2>3, <2>4
<1>5. CASE ~Stale(st)
  <2>1. NextLastID = Max2(st.lastID, jn.last)
    BY <1>5 DEF NextLastID
  <2>2. NextLastID \in Nat /\ NextLastID <= head /\ (NextLastID = st.lastID \/ NextLastID = jn.last)
    BY <1>1, <2>1 DEF Max2
  <2>3. ASSUME NEW id \in Live, id <= NextLastID PROVE id <= jn.base.lastID \/ id \in S
    <3>1. id \in Nat /\ (id <= st.lastID \/ id <= jn.last)
      BY <1>2, <2>2, <2>3
    <3>2. CASE id <= st.lastID
      BY <3>2
    <3>3. CASE ~(id <= st.lastID) /\ id <= jn.last
      <4>1. jn.minID <= st.lastID
        BY DEF RangeOf
      <4>2. jn.minID + 1 <= id
        BY <1>1, <3>1, <3>3, <4>1
      <4> QED BY <1>3, <3>3, <4>2
    <3> QED BY <3>1, <3>2, <3>3
  <2> QED BY <2>2, <2>3
<1> QED BY <1>4, <1>5

\* A journal with the checkpoint to come.
LEMMA PlanCover == ASSUME CoverInv, IInv', Plan PROVE CoverInv'
<1>1. /\ pc = "plan" /\ ~Full /\ pc' = "verify" /\ st' = NextState
      /\ journal' = [jn EXCEPT !.phase = "planned", !.next = NextState,
                               !.sizes = [p \in Paths |-> IF p \in Mine THEN Len(out[p]) ELSE 0]]
      /\ jn' = journal' /\ jn = journal /\ jn \in Journals /\ st \in SyncStates
      /\ UNCHANGED <<telegram, state, stage, out, synced, opt, top, page>>
  BY Typed, IncrementalPlaces DEF Plan, CoverInv, IInv, JournalInMemory, Staging
<1>2. /\ Live' = Live /\ head' = head /\ Safe' = Safe /\ ~Full'
      /\ UNCHANGED <<state, stage, top, page>>
  BY <1>1 DEF Live, Safe, Full, telegram
<1>3. /\ journal.phase = "ready" /\ RangeOf(journal) /\ st = state /\ state = jn.base
      /\ ReadAll(Live, StagedTo(journal.bytes), journal, journal.last, journal.top)
  <2>1. journal.phase = "ready" /\ st = state /\ state = jn.base
    BY <1>1 DEF CoverInv, Placed, BeforeCommit
  <2> QED BY <2>1 DEF CoverInv, Ranged
<1>4. /\ journal'.phase = "planned" /\ journal'.last = jn.last /\ journal'.bytes = jn.bytes
      /\ journal'.top = jn.top /\ journal'.next = NextState /\ journal'.base = jn.base
      /\ journal'.minID = jn.minID /\ journal'.start = jn.start
  BY <1>1 DEF Journals
<1>5. /\ NextLastID \in Nat /\ NextLastID <= head
      /\ \A id \in Live : id <= NextLastID => id <= jn.base.lastID \/ id \in StagedTo(jn.bytes)
  BY <1>1, <1>3, PlannedRead
<1>6. /\ NextState.lastID = NextLastID /\ NextState.latest = st.latest /\ NextState.bf = st.bf
      /\ NextState.top = IF jn.top > 0 THEN Max2(jn.top, NextLastID) ELSE 0
  BY <1>1 DEF NextState, SyncStates
<1>7. ~Stale(NextState)
  <2>1. jn.top \in Nat
    BY AllNumbers DEF CoverInv
  <2> QED BY <1>5, <1>6, <2>1 DEF Stale, Max2
<1>8. Seen'
  <2>1. st.latest <= head
    BY AllSeen
  <2>2. StateSeen(NextState)
    BY <1>5, <1>6, <2>1 DEF StateSeen
  <2> QED BY <1>1, <1>2, <1>4, <2>2 DEF CoverInv, Seen, StateSeen, JournalSeen
<1>9. Mechanisms'
  <2>1. NextState.bf # "active"
    BY <1>1, <1>3, <1>6 DEF CoverInv, Mechanisms
  <2>2. StaleWhole(NextState)
    BY <1>7 DEF StaleWhole
  <2> HIDE DEF NextState
  <2> QED BY <1>1, <1>2, <1>4, <2>1, <2>2 DEF CoverInv, Mechanisms, StaleWhole, Stale
<1>10. Durable'
  BY <1>2 DEF CoverInv, Durable
<1>11. Ranged'
  <2>1. StagedTo(journal.bytes)' = StagedTo(jn.bytes)
    BY <1>1, <1>4 DEF StagedTo
  <2>2. PlanRead(Live', StagedTo(journal.bytes)', journal')
    BY <1>2, <1>4, <1>5, <1>6, <2>1 DEF PlanRead
  <2> QED BY <1>1, <1>3, <1>4, <2>2 DEF Ranged, RangeOf, Stale
<1>12. Walked' /\ Copying'
  BY <1>1, <1>2 DEF Walked, Copying
<1>13. Placed'
  BY <1>1, <1>2, <1>3, <1>4 DEF Placed, BeforeCommit, Writing
<1> QED BY <1>8, <1>9, <1>10, <1>11, <1>12, <1>13 DEF CoverInv

\* Appending a page adds its messages.
LEMMA AppendedIds ==
    ASSUME NEW s \in Seq(Records), NEW ids, NEW n \in Nat, ids \in [1..n -> IDs],
           Encoded(ids) \in Seq(Records), NEW S, Listing(ids, S)
    PROVE  /\ s \o Encoded(ids) \in Seq(Records)
           /\ Len(s) \in Nat /\ Len(s \o Encoded(ids)) \in Nat
           /\ Ids(s, Len(s)) \subseteq Ids(s \o Encoded(ids), Len(s \o Encoded(ids)))
           /\ S \subseteq Ids(s \o Encoded(ids), Len(s \o Encoded(ids)))
           /\ \A k \in Nat : Ids(s, k) \subseteq Ids(s \o Encoded(ids), k)
<1>1. Len(Encoded(ids)) = n /\ \A i \in 1..n : Encoded(ids)[i].id = ids[i]
  BY DEF Encoded, RecordOf
<1>2. /\ s \o Encoded(ids) \in Seq(Records) /\ Len(s \o Encoded(ids)) = Len(s) + n
      /\ \A i \in 1..Len(s) : (s \o Encoded(ids))[i] = s[i]
      /\ \A i \in 1..n : (s \o Encoded(ids))[Len(s) + i] = Encoded(ids)[i]
  BY <1>1, JoinFacts
<1>3. Len(s) \in Nat /\ Len(s) + n \in Nat /\ DOMAIN s = 1..Len(s)
  BY LenProperties
<1>4. PICK l \in Nat, t \in Seq(Records) : l = Len(s) /\ t = s \o Encoded(ids)
  BY <1>2, <1>3
<1>5. DOMAIN t = 1..(l + n)
  BY <1>2, <1>4, LenProperties
<1>6. \A i \in DOMAIN s : i \in Nat /\ (i <= l => i \in DOMAIN t /\ t[i] = s[i])
  BY <1>2, <1>3, <1>4, <1>5
<1>7. Ids(s, l) \subseteq Ids(t, l + n)
  BY <1>6, IdsKept
<1>9. ASSUME NEW k \in Nat PROVE Ids(s, k) \subseteq Ids(t, k)
  <2>1. \A i \in DOMAIN s : i \in Nat /\ (i <= k => i \in DOMAIN t /\ t[i] = s[i])
    BY <1>3, <1>4, <1>6
  <2>2. k <= k
    OBVIOUS
  <2> QED BY <2>1, <2>2, IdsKept
<1>8. ASSUME NEW id \in S PROVE id \in Ids(t, l + n)
  <2>1. PICK i \in 1..n : ids[i] = id
    BY <1>8 DEF Listing
  <2>2. t[l + i].id = id
    BY <1>1, <1>2, <1>4, <2>1
  <2>3. l + i \in DOMAIN t /\ l + i <= l + n
    BY <1>5
  <2> QED BY <2>2, <2>3 DEF Ids
<1> QED BY <1>2, <1>3, <1>4, <1>7, <1>8, <1>9

\* A page continues what was covered down to its offset.
LEMMA PageCovers ==
    ASSUME NEW off \in Nat, NEW minID \in Nat, NEW P \in Answers(off, minID),
           NEW low \in Nat, NEW high \in Nat, NEW last \in Nat, NEW S, NEW T,
           IsLowest(low, P, off), IsHighest(high, InRange(P, minID, 0)),
           off # 0 => Covers(Live, S, Max2(off, minID + 1), last),
           S \subseteq T, InRange(P, minID, 0) \subseteq T
    PROVE  /\ low # 0 => Covers(Live, T, Max2(low, minID + 1), Max2(last, high))
           /\ WalkDone(P, minID, 0) => Covers(Live, T, minID + 1, Max2(last, high))
           /\ low = 0 => WalkDone(P, minID, 0)
           /\ (off # 0 => last > 0) /\ minID = 0 =>
                  /\ low # 0 => Max2(last, high) > 0
                  /\ WalkDone(P, minID, 0) /\ Max2(last, high) = 0 => Live = {}
<1>1. /\ \A id \in P : id \in IDs /\ id \in Nat /\ id >= 1 /\ msgs[id] # 0 /\ (off = 0 \/ id < off)
      /\ \A id \in IDs : /\ msgs[id] # 0 /\ id > minID /\ (off = 0 \/ id < off)
                         => /\ P # {}
                            /\ id \in P \/ \A a \in P : id < a
  BY AnswerFacts
<1>2. \A id \in Live : id \in IDs /\ id \in Nat /\ id >= 1 /\ msgs[id] # 0
  BY LiveNumbers DEF Live
<1>3. IF P = {} THEN low = off ELSE low \in P /\ \A id \in P : low <= id
  BY DEF IsLowest
<1>4. \A id \in P : id > minID => id \in T /\ id <= high
  <2>1. \A id \in P : id > minID => id \in InRange(P, minID, 0)
    BY <1>1 DEF InRange
  <2>2. \A id \in InRange(P, minID, 0) : id <= high
    BY DEF IsHighest
  <2> QED BY <2>1, <2>2
<1>5. ASSUME NEW id \in Live, id > minID, id <= Max2(last, high),
             id >= low \/ WalkDone(P, minID, 0)
      PROVE  id \in T
  <2>1. id \in IDs /\ id \in Nat /\ msgs[id] # 0
    BY <1>2
  <2>2. CASE off = 0 \/ id < off
    <3>1. P # {} /\ (id \in P \/ \A a \in P : id < a)
      BY <1>1, <1>5, <2>1, <2>2
    <3>2. CASE id \in P
      BY <1>4, <1>5, <3>2
    <3>3. CASE \A a \in P : id < a
      <4>1. ~(id >= low)
        BY <1>1, <1>3, <2>1, <3>1, <3>3
      <4>2. PICK a \in P : a <= minID \/ a < 0
        BY <1>5, <3>1, <4>1 DEF WalkDone
      <4>3. a \in Nat /\ id < a /\ a <= minID
        BY <1>1, <3>3, <4>2
      <4> QED BY <1>5, <2>1, <4>3
    <3> QED BY <3>1, <3>2, <3>3
  <2>3. CASE ~(off = 0 \/ id < off)
    <3>1. off # 0 /\ id >= off
      BY <2>1, <2>3
    <3>2. CASE id <= last
      <4>1. Max2(off, minID + 1) <= id
        BY <1>5, <2>1, <3>1 DEF Max2
      <4> QED BY <3>1, <3>2, <4>1 DEF Covers
    <3>3. CASE ~(id <= last)
      <4>1. id <= high /\ high > 0
        BY <1>5, <2>1, <3>3 DEF Max2
      <4>2. high \in P
        BY <4>1 DEF IsHighest, InRange
      <4>3. high < off
        BY <1>1, <3>1, <4>2
      <4> QED BY <2>1, <3>1, <4>1, <4>3
    <3> QED BY <3>2, <3>3
  <2> QED BY <2>2, <2>3
<1>6. low # 0 => Covers(Live, T, Max2(low, minID + 1), Max2(last, high))
  <2> SUFFICES ASSUME NEW id \in Live, Max2(low, minID + 1) <= id, id <= Max2(last, high)
               PROVE  id \in T
    BY DEF Covers
  <2>1. id > minID /\ id >= low
    BY <1>2 DEF Max2
  <2> QED BY <1>5, <2>1
<1>7. WalkDone(P, minID, 0) => Covers(Live, T, minID + 1, Max2(last, high))
  <2> SUFFICES ASSUME WalkDone(P, minID, 0),
                      NEW id \in Live, minID + 1 <= id, id <= Max2(last, high)
               PROVE  id \in T
    BY DEF Covers
  <2>1. id > minID
    BY <1>2
  <2> QED BY <1>5, <2>1
<1>8. low = 0 => WalkDone(P, minID, 0)
  BY <1>1, <1>3 DEF WalkDone
<1>9. ASSUME off # 0 => last > 0, minID = 0
      PROVE  /\ low # 0 => Max2(last, high) > 0
             /\ WalkDone(P, minID, 0) /\ Max2(last, high) = 0 => Live = {}
  <2>1. P # {} => high > 0
    <3>1. ASSUME NEW id \in P PROVE high > 0
      <4>1. id >= 1 /\ id > minID
        BY <1>1, <1>9, <3>1
      <4> QED BY <1>1, <1>4, <4>1
    <3> QED BY <3>1
  <2>2. low # 0 => Max2(last, high) > 0
    BY <1>3, <1>9, <2>1 DEF Max2
  <2>3. ASSUME Max2(last, high) = 0, NEW id \in Live PROVE FALSE
    <3>1. last = 0 /\ high = 0
      BY <2>3 DEF Max2
    <3>2. P = {} /\ off = 0
      BY <1>9, <2>1, <3>1
    <3> QED BY <1>1, <1>2, <1>9, <3>2
  <2> QED BY <2>2, <2>3
<1> QED BY <1>6, <1>7, <1>8, <1>9

\* A page reports nothing newer than what was posted.
LEMMA PageSeen ==
    ASSUME CoverInv, NEW off \in Nat, NEW minID \in Nat, NEW P \in Answers(off, minID),
           NEW high, IsHighest(high, InRange(P, minID, 0))
    PROVE  high <= head
<1>1. head \in Nat /\ \A id \in Live : id <= head
  BY AllNumbers, AllSeen DEF CoverInv
<1>2. \A id \in P : id \in Live
  BY AnswerFacts DEF Live
<1>3. high = 0 \/ high \in P
  BY DEF IsHighest, InRange
<1> QED BY <1>1, <1>2, <1>3

\* A page of the range is staged.
LEMMA ReadPageCover == ASSUME CoverInv, IInv', ReadPage PROVE CoverInv'
<1>1. /\ pc = "read" /\ pc' = "checkpoint" /\ ~Full
      /\ UNCHANGED <<telegram, state, journal, out, synced, opt, st, jn, top>>
  BY DEF ReadPage
<1>2. /\ Live' = Live /\ head' = head /\ Safe' = Safe /\ ~Full'
      /\ UNCHANGED <<state, journal, st, jn, top>>
  BY <1>1 DEF Live, Safe, Full, telegram
<1>3. /\ journal.phase = "reading" /\ st = state /\ state = jn.base /\ jn = journal
      /\ jn.start = 0 /\ ReadTo(Live, StagedTo(jn.bytes), jn, jn.offset, jn.last)
  <2>1. journal.phase = "reading" /\ st = state /\ state = jn.base /\ jn = journal
    BY <1>1 DEF CoverInv, IInv, JournalInMemory, Staging, Placed, BeforeCommit
  <2> QED BY <2>1 DEF CoverInv, Mechanisms, Ranged
<1>4. PICK P \in Answers(jn.offset, jn.minID), n \in 0..PageSize :
         \E ids \in [1..n -> IDs] :
            /\ Listing(ids, {id \in InRange(P, jn.minID, jn.start) : ~Unchanged(id)})
            /\ stage' = stage \o Encoded(ids)
            /\ ReportPage(P, jn.offset, jn.minID, jn.start, n)
  BY DEF ReadPage
<1>5. PICK ids \in [1..n -> IDs] :
            /\ Listing(ids, {id \in InRange(P, jn.minID, jn.start) : ~Unchanged(id)})
            /\ stage' = stage \o Encoded(ids)
            /\ ReportPage(P, jn.offset, jn.minID, jn.start, n)
  BY <1>4
<1>6. PICK off \in Nat, minID \in Nat, last \in Nat :
         off = jn.offset /\ minID = jn.minID /\ last = jn.last
  BY AllNumbers DEF CoverInv
<1>7. PICK low \in MaybeID, high \in MaybeID :
         /\ IsLowest(low, P, off) /\ IsHighest(high, InRange(P, minID, 0))
         /\ page' = [next |-> low, done |-> WalkDone(P, minID, 0), last |-> high, count |-> n]
  BY <1>3, <1>5, <1>6 DEF ReportPage
<1>8. Listing(ids, InRange(P, minID, 0))
  <2>1. {id \in InRange(P, jn.minID, jn.start) : ~Unchanged(id)} = InRange(P, minID, 0)
    BY <1>3, <1>6 DEF Unchanged, Known
  <2> QED BY <1>5, <2>1
<1>9. /\ stage \in Seq(Records) /\ n \in Nat /\ P \in Answers(off, minID)
      /\ low \in Nat /\ high \in Nat
  <2>1. stage \in Seq(Records) /\ MaybeID \subseteq Nat
    BY Typed, BoundsAssumption DEF CoverInv, MaybeID
  <2> QED BY <1>4, <1>6, <1>7, <2>1, BoundsAssumption
<1>10. Encoded(ids) \in Seq(Records)
  <2>1. TypeOK /\ InRange(P, minID, 0) \subseteq P
    BY DEF CoverInv, IInv, InRange
  <2> QED BY <1>8, <1>9, <2>1, PageRecordsType
<1>11. PICK T : T = StagedTo(Len(stage))'
  OBVIOUS
<1>12. StagedTo(Len(stage)) \subseteq T /\ InRange(P, minID, 0) \subseteq T
  BY <1>5, <1>8, <1>9, <1>10, <1>11, AppendedIds DEF StagedTo
<1>13. StagedTo(jn.bytes) \subseteq T
  BY <1>12, PromisedStaged
<1>14. /\ off # 0 => Covers(Live, StagedTo(jn.bytes), Max2(off, minID + 1), last)
       /\ minID = 0 /\ off # 0 => last > 0
  BY <1>3, <1>6 DEF ReadTo
<1>15. PICK S : S = StagedTo(jn.bytes)
  OBVIOUS
<1>16. /\ low # 0 => Covers(Live, T, Max2(low, minID + 1), Max2(last, high))
       /\ WalkDone(P, minID, 0) => Covers(Live, T, minID + 1, Max2(last, high))
       /\ (off # 0 => last > 0) /\ minID = 0 =>
              /\ low # 0 => Max2(last, high) > 0
              /\ WalkDone(P, minID, 0) /\ Max2(last, high) = 0 => Live = {}
  BY <1>7, <1>9, <1>12, <1>13, <1>14, <1>15, PageCovers
<1>17. page'.next = low /\ page'.last = high /\ page'.done = WalkDone(P, minID, 0)
  BY <1>7
<1>18. Seen'
  <2>1. page'.last <= head'
    BY <1>2, <1>7, <1>9, <1>17, PageSeen
  <2> QED BY <1>1, <1>2, <2>1 DEF CoverInv, Seen, StateSeen, JournalSeen
<1>19. Mechanisms'
  BY <1>1, <1>2 DEF CoverInv, Mechanisms, StaleWhole, Stale
<1>20. Durable'
  BY <1>2 DEF CoverInv, Durable
<1>21. Ranged'
  <2>1. StagedTo(journal.bytes) \subseteq StagedTo(journal.bytes)'
    <3>1. journal.bytes \in Nat
      BY AllNumbers DEF CoverInv
    <3> QED BY <1>2, <1>5, <1>8, <1>9, <1>10, <3>1, AppendedIds DEF StagedTo
  <2>2. ReadTo(Live, StagedTo(journal.bytes)', journal, journal.offset, journal.last)
    BY <1>3, <2>1 DEF ReadTo, Covers
  <2> QED BY <1>2, <1>3, <2>2 DEF CoverInv, Ranged, RangeOf, Stale
<1>22. Walked' /\ Copying'
  BY <1>1, <1>2 DEF Walked, Copying
<1>23. Placed'
  <2>1. ReadTo(Live, T, jn, low, Max2(last, high))
    BY <1>6, <1>14, <1>16 DEF ReadTo
  <2>2. WalkDone(P, minID, 0) => ReadAll(Live, T, jn, Max2(last, high), top)
    <3>1. Live = {} => Covers(Live, {}, 1, top)
      BY DEF Covers
    <3> QED BY <1>6, <1>14, <1>16, <3>1 DEF ReadAll
  <2>3. /\ ReadTo(Live', StagedTo(Len(stage))', jn', page'.next, Max2(jn'.last, page'.last))
        /\ page'.done => ReadAll(Live', StagedTo(Len(stage))', jn', Max2(jn'.last, page'.last), top')
    BY <1>2, <1>6, <1>11, <1>17, <2>1, <2>2
  <2> QED BY <1>1, <1>2, <1>3, <2>3 DEF Placed, BeforeCommit, Writing
<1> QED BY <1>18, <1>19, <1>20, <1>21, <1>22, <1>23 DEF CoverInv

(***************************************************************************)
(* The publication                                                         *)
(***************************************************************************)

\* Writing the stage over a file that holds a part of it adds the rest, and moves
\* nothing.
LEMMA OverwrittenIds ==
    ASSUME NEW f \in Seq(Records), NEW s \in Seq(Records), NEW n \in 0..Len(f),
           \A i \in 1..(Len(f) - n) : i \in DOMAIN s /\ f[n + i] = s[i]
    PROVE  /\ \A k \in Nat : Ids(f, k) \subseteq Ids(Overwrite(f, n, s), k)
           /\ Ids(s, Len(s)) \subseteq Ids(Overwrite(f, n, s), Len(Overwrite(f, n, s)))
<1>1. Len(f) \in Nat /\ Len(s) \in Nat /\ n \in Nat /\ DOMAIN f = 1..Len(f) /\ DOMAIN s = 1..Len(s)
  BY LenProperties
<1>2. Len(f) <= n + Len(s)
  <2>1. CASE Len(f) - n >= 1
    <3>1. PICK k \in Nat : k = Len(f) - n /\ k >= 1
      <4>1. Len(f) - n \in Nat
        BY <1>1, <2>1
      <4> QED BY <2>1, <4>1
    <3>2. k \in DOMAIN s
      BY <3>1
    <3> QED BY <1>1, <3>1, <3>2
  <2> QED BY <1>1, <2>1
<1>3. PICK g : g = Overwrite(f, n, s)
  OBVIOUS
<1>4. /\ g \in Seq(Records) /\ Len(g) = n + Len(s)
      /\ \A i \in 1..n : g[i] = f[i]
      /\ \A i \in 1..Len(s) : g[n + i] = s[i]
  BY <1>2, <1>3, OverwriteFacts
<1>5. DOMAIN g = 1..(n + Len(s))
  BY <1>4, LenProperties
<1>6. \A i \in DOMAIN f : i \in DOMAIN g /\ g[i] = f[i]
  <2> SUFFICES ASSUME NEW i \in DOMAIN f PROVE i \in DOMAIN g /\ g[i] = f[i]
    OBVIOUS
  <2>1. i \in Nat /\ 1 <= i /\ i <= Len(f)
    BY <1>1
  <2>2. i \in DOMAIN g
    BY <1>1, <1>2, <1>5, <2>1
  <2>3. CASE i <= n
    BY <1>4, <2>1, <2>2, <2>3
  <2>4. CASE ~(i <= n)
    <3>1. PICK k \in Nat : i = n + k
      <4>1. i - n \in Nat /\ i = n + (i - n)
        BY <1>1, <2>1, <2>4
      <4> QED BY <4>1
    <3>2. k \in 1..(Len(f) - n)
      BY <1>1, <2>1, <2>4, <3>1
    <3> QED BY <1>1, <1>4, <2>2, <3>1, <3>2
  <2> QED BY <2>3, <2>4
<1>7. ASSUME NEW k \in Nat PROVE Ids(f, k) \subseteq Ids(g, k)
  <2>1. \A i \in DOMAIN f : i \in Nat /\ (i <= k => i \in DOMAIN g /\ g[i] = f[i])
    BY <1>1, <1>6
  <2>2. k <= k
    OBVIOUS
  <2> QED BY <2>1, <2>2, IdsKept
<1>8. ASSUME NEW id \in Ids(s, Len(s)) PROVE id \in Ids(g, n + Len(s))
  <2>1. PICK i \in DOMAIN s : s[i].id = id
    BY <1>8 DEF Ids
  <2>2. n + i \in DOMAIN g /\ n + i <= n + Len(s) /\ g[n + i] = s[i]
    BY <1>1, <1>4, <1>5, <2>1
  <2> QED BY <2>1, <2>2 DEF Ids
<1> QED BY <1>3, <1>4, <1>7, <1>8

\* The stage is written to an output, the stream first.
LEMMA CopyCover == ASSUME CoverInv, IInv', Copy PROVE CoverInv'
<1>1. /\ pc = "copy" /\ pc' = "flush" /\ ~Full
      /\ out' = [out EXCEPT ![Outputs[pos]] = Overwrite(@, jn.sizes[Outputs[pos]], stage)]
      /\ UNCHANGED <<telegram, state, journal, stage, synced, opt, st, jn, top, page, pos>>
  BY IncrementalPlaces DEF Copy, memory
<1>2. /\ Live' = Live /\ head' = head /\ ~Full'
      /\ UNCHANGED <<state, journal, stage, synced, st, jn, top, page, pos>>
  BY <1>1 DEF Live, Full, telegram
<1>3. /\ Outputs[pos] \in Mine /\ Outputs[pos] \in Paths /\ Stream \in Mine /\ Stream \in Paths
      /\ out \in [Paths -> Seq(Records)] /\ pos \in 1..Len(Outputs) /\ stage \in Seq(Records)
      /\ synced[Stream] \in Nat
  BY Typed DEF CoverInv
<1>4. ASSUME pos = 1
      PROVE  Safe \subseteq Safe' /\ StagedTo(Len(stage)) \subseteq Streamed'
  <2>1. Outputs[pos] = Stream
    BY <1>4 DEF Stream
  <2>2. PICK n : n = jn.sizes[Stream]
    OBVIOUS
  <2>3. PICK f \in Seq(Records) : f = out[Stream]
    BY <1>3
  <2>4. out'[Stream] = Overwrite(f, n, stage)
    BY <1>1, <1>3, <2>1, <2>2, <2>3
  <2>5. n \in 0..Len(f)
    <3>1. n \in Nat
      <4>1. jn \in Journals
        BY Typed DEF CoverInv
      <4> QED BY <1>3, <2>2, <4>1 DEF Journals
    <3>2. n <= Len(f)
      BY <1>1, <1>3, <2>2, <2>3 DEF CoverInv, IInv, SizesOK
    <3>3. Len(f) \in Nat
      BY LenProperties
    <3> QED BY <3>1, <3>2, <3>3
  <2>6. \A i \in 1..(Len(f) - n) : i \in DOMAIN stage /\ f[n + i] = stage[i]
    BY <1>1, <1>4, <2>2, <2>3 DEF CoverInv, Copying, SuffixOurs
  <2>7. /\ \A k \in Nat : Ids(f, k) \subseteq Ids(Overwrite(f, n, stage), k)
        /\ Ids(stage, Len(stage)) \subseteq
               Ids(Overwrite(f, n, stage), Len(Overwrite(f, n, stage)))
    BY <1>3, <2>5, <2>6, OverwrittenIds
  <2>8. Safe \subseteq Safe'
    BY <1>2, <1>3, <2>3, <2>4, <2>7 DEF Safe
  <2>9. StagedTo(Len(stage)) \subseteq Streamed'
    BY <2>4, <2>7 DEF StagedTo, Streamed
  <2> QED BY <2>8, <2>9
<1>5. ASSUME pos # 1
      PROVE  /\ Safe \subseteq Safe' /\ StagedTo(Len(stage)) \subseteq Streamed'
             /\ StagedTo(Len(stage)) \subseteq Safe'
  <2>1. Outputs[pos] # Stream
    <3>1. pos \in DOMAIN Outputs /\ 1 \in DOMAIN Outputs
      BY <1>3, OutputsAssumption
    <3> QED BY <1>5, <3>1, OutputsAssumption DEF Stream
  <2>2. out'[Stream] = out[Stream]
    BY <1>1, <1>3, <2>1
  <2>3. Safe' = Safe /\ Streamed' = Streamed
    BY <1>2, <2>2 DEF Safe, Streamed
  <2>4. pos > 1
    BY <1>3, <1>5
  <2>5. StagedTo(Len(stage)) \subseteq Streamed /\ StagedTo(Len(stage)) \subseteq Safe
    BY <1>1, <2>4 DEF CoverInv, Copying
  <2> QED BY <2>3, <2>5
<1>6. /\ Safe \subseteq Safe' /\ StagedTo(Len(stage)) \subseteq Streamed'
      /\ pos > 1 => StagedTo(Len(stage)) \subseteq Safe'
  <2>1. pos = 1 => ~(pos > 1)
    OBVIOUS
  <2> QED BY <1>4, <1>5, <2>1
<1>7. Seen'
  BY <1>2 DEF CoverInv, Seen, StateSeen, JournalSeen
<1>8. Mechanisms'
  BY <1>1, <1>2 DEF CoverInv, Mechanisms, StaleWhole, Stale
<1>9. Durable'
  BY <1>2, <1>6 DEF CoverInv, Durable, Covers
<1>10. Ranged'
  BY <1>2 DEF CoverInv, Ranged, StagedTo, RangeOf, Stale
<1>11. Walked'
  BY <1>2 DEF Walked
<1>12. Placed'
  BY <1>1, <1>2 DEF CoverInv, Placed, BeforeCommit, Writing
<1>13. Copying'
  <2>1. StagedTo(Len(stage))' = StagedTo(Len(stage))
    BY <1>2 DEF StagedTo
  <2> QED BY <1>1, <1>2, <1>6, <2>1 DEF Copying
<1> QED BY <1>7, <1>8, <1>9, <1>10, <1>11, <1>12, <1>13 DEF CoverInv

\* The output at hand is synced.
LEMMA FlushCover == ASSUME CoverInv, IInv', Flush PROVE CoverInv'
<1>1. /\ pc = "flush" /\ ~Full
      /\ synced' = [synced EXCEPT ![Outputs[pos]] = Len(out[Outputs[pos]])]
      /\ IF pos < Len(Outputs) THEN pc' = "copy" /\ pos' = pos + 1
                               ELSE pc' = "commit" /\ pos' = 1
      /\ UNCHANGED <<telegram, state, journal, stage, out, opt, st, jn, top, page>>
  BY IncrementalPlaces DEF Flush
<1>2. /\ Live' = Live /\ head' = head /\ ~Full' /\ Streamed' = Streamed
      /\ UNCHANGED <<state, journal, stage, out, st, jn, top, page>>
  BY <1>1 DEF Live, Full, Streamed, telegram
<1>3. /\ Outputs[pos] \in Mine /\ Outputs[pos] \in Paths /\ Stream \in Mine /\ Stream \in Paths
      /\ synced \in [Paths -> Nat] /\ pos \in 1..Len(Outputs) /\ pos \in Nat
      /\ out[Stream] \in Seq(Records) /\ synced[Stream] \in Nat
  BY Typed DEF CoverInv
<1>4. StagedTo(Len(stage)) \subseteq Streamed
  BY <1>1 DEF CoverInv, Copying
<1>5. Safe \subseteq Safe' /\ StagedTo(Len(stage)) \subseteq Safe'
  <2>1. CASE Outputs[pos] = Stream
    <3>1. synced'[Stream] = Len(out[Stream])
      BY <1>1, <1>3, <2>1
    <3>2. Safe' = Streamed
      BY <1>2, <3>1 DEF Safe, Streamed
    <3>3. Safe \subseteq Streamed
      BY <1>3, PartOfLog DEF Safe, Streamed
    <3> QED BY <1>4, <3>2, <3>3
  <2>2. CASE Outputs[pos] # Stream
    <3>1. synced'[Stream] = synced[Stream]
      BY <1>1, <1>3, <2>2
    <3>2. Safe' = Safe
      BY <1>2, <3>1 DEF Safe
    <3>3. pos # 1
      BY <2>2 DEF Stream
    <3>4. pos > 1
      BY <1>3, <3>3
    <3>5. StagedTo(Len(stage)) \subseteq Safe
      BY <1>1, <3>4 DEF CoverInv, Copying
    <3> QED BY <3>2, <3>5
  <2> QED BY <2>1, <2>2
<1>6. pc' = "commit" \/ (pc' = "copy" /\ pos' > 1)
  BY <1>1, <1>3
<1>7. Seen'
  BY <1>2 DEF CoverInv, Seen, StateSeen, JournalSeen
<1>8. Mechanisms'
  BY <1>1, <1>2, <1>6 DEF CoverInv, Mechanisms, StaleWhole, Stale
<1>9. Durable'
  BY <1>2, <1>5 DEF CoverInv, Durable, Covers
<1>10. Ranged'
  BY <1>2 DEF CoverInv, Ranged, StagedTo, RangeOf, Stale
<1>11. Walked'
  BY <1>2 DEF Walked
<1>12. Placed'
  BY <1>1, <1>2, <1>6 DEF CoverInv, Placed, BeforeCommit, Writing
<1>13. Copying'
  <2>1. StagedTo(Len(stage))' = StagedTo(Len(stage))
    BY <1>2 DEF StagedTo
  <2>2. pc' # "flush"
    BY <1>6
  <2>3. ~(pc' = "copy" /\ pos' = 1)
    BY <1>6
  <2> QED BY <1>2, <1>4, <1>5, <2>1, <2>2, <2>3 DEF Copying
<1> QED BY <1>7, <1>8, <1>9, <1>10, <1>11, <1>12, <1>13 DEF CoverInv

\* The checkpoint goes over what was written.
LEMMA CommitCover == ASSUME CoverInv, IInv', Commit PROVE CoverInv'
<1>1. /\ pc = "commit" /\ pc' = "unmark" /\ ~Full /\ state' = jn.next /\ jn = journal
      /\ UNCHANGED <<telegram, journal, stage, out, synced, opt, st, jn, top, page>>
  BY IncrementalPlaces DEF Commit, CoverInv, IInv, JournalInMemory, Staging
<1>2. /\ Live' = Live /\ head' = head /\ Safe' = Safe /\ ~Full'
      /\ UNCHANGED <<journal, stage, st, jn, top, page>>
  BY <1>1 DEF Live, Full, Safe, telegram
<1>3. journal.phase = "planned" /\ state = jn.base
  BY <1>1 DEF CoverInv, Placed, BeforeCommit, Writing
<1>4. StagedTo(journal.bytes) \subseteq Safe
  <2>1. StagedTo(Len(stage)) \subseteq Safe
    BY <1>1 DEF CoverInv, Copying
  <2> QED BY <1>1, <2>1, PromisedStaged
<1>5. state' = journal.next /\ state'.bf # "active" /\ StaleWhole(state')
  BY <1>1 DEF CoverInv, Mechanisms
<1>6. Seen'
  BY <1>2, <1>5 DEF CoverInv, Seen, StateSeen, JournalSeen
<1>7. Mechanisms'
  BY <1>1, <1>2, <1>5 DEF CoverInv, Mechanisms, StaleWhole, Stale
<1>8. Durable'
  <2>1. \A id \in Live : id <= state.lastID => id \in Safe
    BY LiveNumbers DEF CoverInv, Durable, Covers
  <2>2. \A id \in Live : id <= journal.next.lastID => id <= state.lastID \/ id \in StagedTo(journal.bytes)
    BY <1>1, <1>3 DEF CoverInv, Ranged, PlanRead
  <2>3. Covers(Live, Safe, 1, journal.next.lastID)
    BY <1>4, <2>1, <2>2 DEF Covers
  <2> QED BY <1>2, <1>5, <2>3 DEF Durable
<1>9. Ranged'
  BY <1>2 DEF CoverInv, Ranged, StagedTo, RangeOf, Stale
<1>10. Walked' /\ Copying'
  BY <1>1, <1>2 DEF Walked, Copying
<1>11. Placed'
  BY <1>1, <1>2 DEF Placed, BeforeCommit, Writing
<1> QED BY <1>6, <1>7, <1>8, <1>9, <1>10, <1>11 DEF CoverInv

(***************************************************************************)
(* The full history                                                        *)
(***************************************************************************)

\* An output is opened: --reset empties the stream of an archive that claims
\* nothing yet, and --all goes on with the one it finds.
LEMMA OpenOutputCover == ASSUME CoverInv, IInv', OpenOutput PROVE CoverInv'
<1>1. /\ pc = "openOutput" /\ pc' \in {"openOutput", "read"} /\ Full
      /\ UNCHANGED <<telegram, state, journal, stage, opt, st, jn, top, offset, page>>
  BY IncrementalPlaces DEF OpenOutput
<1>2. /\ Live' = Live /\ head' = head /\ Full' /\ Reached' = Reached
      /\ UNCHANGED <<state, journal, stage, opt, st, jn, top, offset, page>>
  BY <1>1 DEF Live, Full, Reached, telegram
<1>3. /\ IF opt.reset THEN state = ZeroState /\ offset = 0
                      ELSE st = state /\ offset = state.next
      /\ IF opt.all THEN st.bf = "active" /\ st.lastID = 0 /\ st.top = 0 /\ state.lastID = 0
                    ELSE st.bf = "none" /\ state = ZeroState
  BY <1>1 DEF CoverInv, Walked
<1>4. ~opt.reset => Safe' = Safe /\ Streamed' = Streamed
  <2> SUFFICES ASSUME ~opt.reset PROVE out'[Stream] = out[Stream] /\ synced'[Stream] = synced[Stream]
    BY DEF Safe, Streamed
  <2>1. /\ pos \in 1..Len(Outputs) /\ Stream \in Paths
        /\ out \in [Paths -> Seq(Records)] /\ synced \in [Paths -> Nat]
    BY Typed DEF CoverInv
  <2>2. CASE pos = 1
    BY <2>2 DEF OpenOutput
  <2>3. CASE pos # 1
    <3>1. pos \in DOMAIN Outputs /\ 1 \in DOMAIN Outputs
      BY <2>1, OutputsAssumption
    <3>2. Outputs[pos] # Stream
      BY <2>3, <3>1, OutputsAssumption DEF Stream
    <3>3. /\ out' = IF opt.resetMerged THEN [out EXCEPT ![Outputs[pos]] = <<>>] ELSE out
          /\ synced' = IF opt.resetMerged THEN [synced EXCEPT ![Outputs[pos]] = 0] ELSE synced
      BY <2>3 DEF OpenOutput
    <3> QED BY <2>1, <3>2, <3>3
  <2> QED BY <2>2, <2>3
<1>5. Seen'
  BY <1>2 DEF CoverInv, Seen, StateSeen, JournalSeen
<1>6. Mechanisms'
  BY <1>1, <1>2 DEF CoverInv, Mechanisms, StaleWhole, Stale, FullPlaces
<1>7. Durable'
  <2>1. CASE opt.reset
    <3>1. state = ZeroState
      BY <1>3, <2>1
    <3>2. Covers(Live, Safe', 1, 0)
      BY LiveNumbers DEF Covers
    <3> QED BY <1>2, <3>1, <3>2 DEF Durable, ZeroState
  <2>2. CASE ~opt.reset
    BY <1>2, <1>4, <2>2 DEF CoverInv, Durable
  <2> QED BY <2>1, <2>2
<1>8. Ranged'
  BY <1>2 DEF CoverInv, Ranged, StagedTo, RangeOf, Stale
<1>9. offset = 0 \/ Covers(Live, Streamed', offset, Reached)
  <2>1. CASE ~opt.reset
    <3>1. opt.all /\ st = state /\ offset = state.next /\ state.bf = "active"
      BY <1>1, <1>3, <2>1 DEF Full
    <3>2. state.next \in Nat /\ out[Stream] \in Seq(Records) /\ synced[Stream] \in Nat
      <4>1. Stream \in Mine
        BY Typed DEF CoverInv
      <4> QED BY <4>1, Typed, AllNumbers DEF CoverInv
    <3>3. state.next > 0 => Covers(Live, Safe, state.next, state.latest)
      BY <3>1 DEF CoverInv, Durable
    <3>4. Safe \subseteq Streamed
      BY <3>2, PartOfLog DEF Safe, Streamed
    <3>5. Reached = state.latest
      BY <3>1 DEF Reached
    <3> QED BY <1>4, <2>1, <3>1, <3>2, <3>3, <3>4, <3>5 DEF Covers
  <2> QED BY <1>3, <2>1
<1>10. Walked'
  BY <1>1, <1>2, <1>3, <1>9 DEF Walked
<1>11. Placed' /\ Copying'
  BY <1>1, <1>2 DEF Placed, Copying
<1> QED BY <1>5, <1>6, <1>7, <1>8, <1>10, <1>11 DEF CoverInv

\* A page of the history is appended to the outputs.
LEMMA ReadHistoryPageCover == ASSUME CoverInv, IInv', ReadHistoryPage PROVE CoverInv'
<1>1. /\ pc = "read" /\ pc' = "checkpoint" /\ Full
      /\ UNCHANGED <<telegram, state, journal, stage, synced, opt, st, jn, top, offset>>
  BY DEF ReadHistoryPage
<1>2. /\ Live' = Live /\ head' = head /\ Full' /\ Reached' = Reached
      /\ UNCHANGED <<state, journal, stage, synced, opt, st, jn, top, offset>>
  BY <1>1 DEF Live, Full, Reached, telegram
<1>3. /\ IF opt.all THEN st.bf = "active" /\ st.lastID = 0 /\ st.top = 0 /\ state.lastID = 0
                    ELSE st.bf = "none" /\ state = ZeroState
      /\ offset = 0 \/ Covers(Live, Streamed, offset, Reached)
  BY <1>1 DEF CoverInv, Walked
<1>4. PICK off \in Nat, last \in Nat : off = offset /\ last = Reached
  BY AllNumbers DEF CoverInv
<1>5. PICK P \in Answers(off, 0), n \in 0..PageSize :
         \E ids \in [1..n -> IDs] :
            /\ Listing(ids, P)
            /\ out' = Emitted(Encoded(ids))
            /\ ReportPage(P, off, 0, 0, n)
  BY <1>4 DEF ReadHistoryPage
<1>6. PICK ids \in [1..n -> IDs] :
            /\ Listing(ids, P)
            /\ out' = Emitted(Encoded(ids))
            /\ ReportPage(P, off, 0, 0, n)
  BY <1>5
<1>7. PICK low \in MaybeID, high \in MaybeID :
         /\ IsLowest(low, P, off) /\ IsHighest(high, InRange(P, 0, 0))
         /\ page' = [next |-> low, done |-> WalkDone(P, 0, 0), last |-> high, count |-> n]
  BY <1>6 DEF ReportPage
<1>8. /\ n \in Nat /\ low \in Nat /\ high \in Nat /\ Stream \in Mine /\ Stream \in Paths
      /\ out[Stream] \in Seq(Records) /\ TypeOK /\ synced[Stream] \in Nat
  <2>1. MaybeID \subseteq Nat /\ n \in Nat
    BY BoundsAssumption DEF MaybeID
  <2>2. Stream \in Mine
    BY Typed DEF CoverInv
  <2> QED BY <1>7, <2>1, <2>2, Typed DEF CoverInv, IInv
<1>9. Encoded(ids) \in Seq(Records)
  <2>1. P \subseteq P
    OBVIOUS
  <2> QED BY <1>6, <1>8, <2>1, PageRecordsType
<1>10. InRange(P, 0, 0) \subseteq P
  BY DEF InRange
<1>11. PICK e : e = Encoded(ids)
  OBVIOUS
<1>12. out'[Stream] = out[Stream] \o e
  BY <1>6, <1>8, <1>11 DEF Emitted
<1>13. PICK S, T : S = Streamed /\ T = Streamed'
  OBVIOUS
<1>14. /\ Ids(out[Stream], Len(out[Stream])) \subseteq Ids(out[Stream] \o e, Len(out[Stream] \o e))
       /\ P \subseteq Ids(out[Stream] \o e, Len(out[Stream] \o e))
       /\ \A k \in Nat : Ids(out[Stream], k) \subseteq Ids(out[Stream] \o e, k)
  BY <1>6, <1>8, <1>9, <1>11, AppendedIds
<1>15. S \subseteq T /\ P \subseteq T /\ Safe \subseteq Safe'
  BY <1>2, <1>8, <1>12, <1>13, <1>14 DEF Streamed, Safe
<1>16. off # 0 => Covers(Live, S, Max2(off, 0 + 1), last)
  <2>1. off # 0 => Max2(off, 0 + 1) = off
    BY DEF Max2
  <2> QED BY <1>3, <1>4, <1>13, <2>1
<1>17. /\ low # 0 => Covers(Live, T, Max2(low, 0 + 1), Max2(last, high))
       /\ WalkDone(P, 0, 0) => Covers(Live, T, 0 + 1, Max2(last, high))
       /\ low = 0 => WalkDone(P, 0, 0)
  <2>1. InRange(P, 0, 0) \subseteq T
    BY <1>10, <1>15
  <2> QED BY <1>7, <1>8, <1>15, <1>16, <2>1, PageCovers
<1>18. /\ Covers(Live, T, low, Max2(last, high))
       /\ WalkDone(P, 0, 0) => Covers(Live, T, 1, Max2(last, high))
       /\ WalkDone(P, 0, 0) \/ low > 0
  <2>1. WalkDone(P, 0, 0) => Covers(Live, T, 1, Max2(last, high))
    BY <1>17
  <2>2. CASE low = 0
    <3>1. Covers(Live, T, 1, Max2(last, high))
      BY <1>17, <2>1, <2>2
    <3> QED BY <1>17, <2>1, <2>2, <3>1, LiveNumbers DEF Covers
  <2>3. CASE low # 0
    <3>1. Max2(low, 0 + 1) = low /\ low > 0
      BY <1>8, <2>3 DEF Max2
    <3> QED BY <1>17, <2>1, <2>3, <3>1
  <2> QED BY <2>2, <2>3
<1>19. page'.next = low /\ page'.last = high /\ page'.done = WalkDone(P, 0, 0)
  BY <1>7
<1>20. Seen'
  <2>1. page'.last <= head'
    BY <1>2, <1>7, <1>19, PageSeen
  <2> QED BY <1>1, <1>2, <2>1 DEF CoverInv, Seen, StateSeen, JournalSeen
<1>21. Mechanisms'
  BY <1>1, <1>2 DEF CoverInv, Mechanisms, StaleWhole, Stale, FullPlaces
<1>22. Durable'
  BY <1>2, <1>15 DEF CoverInv, Durable, Covers
<1>23. Ranged'
  BY <1>2 DEF CoverInv, Ranged, StagedTo, RangeOf, Stale
<1>24. Walked'
  <2>1. /\ Covers(Live', Streamed', page'.next, Max2(Reached', page'.last))
        /\ page'.done \/ page'.next > 0
        /\ page'.done => Covers(Live', Streamed', 1, Max2(Reached', page'.last))
    BY <1>2, <1>4, <1>13, <1>18, <1>19
  <2> QED BY <1>1, <1>2, <1>3, <2>1 DEF Walked
<1>25. Placed' /\ Copying'
  BY <1>1, <1>2 DEF Placed, Copying
<1> QED BY <1>20, <1>21, <1>22, <1>23, <1>24, <1>25 DEF CoverInv

\* --all saves a checkpoint of what is synced; --reset alone goes on.
LEMMA CheckpointHistoryCover == ASSUME CoverInv, IInv', CheckpointHistory PROVE CoverInv'
<1>1. /\ pc = "checkpoint" /\ Full /\ offset' = page.next
      /\ pc' = IF page.done THEN "finish" ELSE "read"
      /\ UNCHANGED <<telegram, journal, stage, out, opt, jn, top, page>>
  BY DEF CheckpointHistory
<1>2. /\ Live' = Live /\ head' = head /\ Full' /\ Streamed' = Streamed
      /\ UNCHANGED <<journal, stage, out, opt, jn, top, page>>
  BY <1>1 DEF Live, Full, Streamed, telegram
<1>3. /\ IF opt.all THEN st.bf = "active" /\ st.lastID = 0 /\ st.top = 0 /\ state.lastID = 0
                    ELSE st.bf = "none" /\ state = ZeroState
      /\ Covers(Live, Streamed, page.next, Max2(Reached, page.last))
      /\ page.done => Covers(Live, Streamed, 1, Max2(Reached, page.last))
  BY <1>1 DEF CoverInv, Walked
<1>4. /\ page.done \in BOOLEAN /\ st \in SyncStates /\ Stream \in Mine /\ Stream \in Paths
      /\ head \in Nat /\ Max2(Reached, page.last) <= head
  BY Typed, AllNumbers, AllSeen DEF CoverInv
<1>5. PICK r : r = Max2(Reached, page.last)
  OBVIOUS
<1>6. /\ Reached' = r
      /\ pc' = "finish" => st'.lastID = r
      /\ st'.lastID <= head /\ st'.latest <= head
      /\ IF opt.all
         THEN /\ st'.latest = r /\ st'.next = page.next /\ st'.top = 0 /\ state' = st'
              /\ IF page.done THEN st'.bf = "complete" /\ st'.lastID = r
                              ELSE st'.bf = "active" /\ st'.lastID = 0
              /\ synced'[Stream] = Len(out[Stream])
         ELSE /\ st'.lastID = r /\ st'.bf = "none" /\ UNCHANGED <<synced, state>>
  <2>1. CASE opt.all
    <3>1. /\ st' = Backfilled(st) /\ state' = st'
          /\ synced' = [p \in Paths |-> IF p \in Mine THEN Len(out[p]) ELSE synced[p]]
      BY <2>1 DEF CheckpointHistory
    <3>2. r = Max2(st.latest, page.last)
      BY <1>5, <2>1 DEF Reached
    <3>3. /\ st'.bf = (IF page.done THEN "complete" ELSE "active")
          /\ st'.next = page.next /\ st'.latest = r /\ st'.top = st.top
          /\ st'.lastID = (IF page.done THEN r ELSE st.lastID)
      BY <1>4, <3>1, <3>2 DEF Backfilled, SyncStates
    <3>4. Reached' = st'.latest
      BY <1>2, <2>1 DEF Reached
    <3>5. synced'[Stream] = Len(out[Stream])
      BY <1>4, <3>1
    <3>6. 0 <= head /\ r <= head
      BY <1>4, <1>5
    <3>7. pc' = "finish" => page.done
      BY <1>1
    <3> QED BY <1>3, <2>1, <3>1, <3>3, <3>4, <3>5, <3>6, <3>7
  <2>2. CASE ~opt.all
    <3>1. st' = Summed(st) /\ UNCHANGED <<synced, state>>
      BY <2>2 DEF CheckpointHistory
    <3>2. r = Max2(st.lastID, page.last)
      BY <1>5, <2>2 DEF Reached
    <3>3. st'.lastID = r /\ st'.bf = st.bf /\ st'.latest = st.latest
      BY <1>4, <3>1, <3>2 DEF Summed, SyncStates
    <3>4. Reached' = st'.lastID
      BY <1>2, <2>2 DEF Reached
    <3>5. r <= head /\ st.latest <= head
      BY <1>4, <1>5, AllSeen
    <3> QED BY <1>3, <2>2, <3>1, <3>3, <3>4, <3>5
  <2> QED BY <2>1, <2>2
<1>7. Seen'
  BY <1>2, <1>6 DEF CoverInv, Seen, StateSeen, JournalSeen
<1>8. Mechanisms'
  <2>1. pc' \in FullPlaces
    BY <1>1 DEF FullPlaces
  <2>2. /\ state'.bf = "active" => state'.lastID = 0 /\ state'.top = 0
        /\ StaleWhole(state')
    BY <1>6 DEF CoverInv, Mechanisms, StaleWhole, Stale
  <2> QED BY <1>2, <2>1, <2>2 DEF CoverInv, Mechanisms, StaleWhole, Stale
<1>9. opt.all => Safe' = Streamed
  BY <1>2, <1>6 DEF Safe, Streamed
<1>10. Durable'
  <2>1. CASE opt.all
    <3>1. Covers(Live, Streamed, page.next, r) /\ (page.done => Covers(Live, Streamed, 1, r))
      BY <1>3, <1>5
    <3>2. Covers(Live, Streamed, 1, 0)
      BY LiveNumbers DEF Covers
    <3> QED BY <1>2, <1>6, <1>9, <2>1, <3>1, <3>2 DEF Durable
  <2>2. CASE ~opt.all
    BY <1>2, <1>6, <2>2 DEF CoverInv, Durable, Safe
  <2> QED BY <2>1, <2>2
<1>11. Ranged'
  BY <1>2 DEF CoverInv, Ranged, StagedTo, RangeOf, Stale
<1>12. Walked'
  <2>1. CASE page.done
    <3>1. pc' = "finish"
      BY <1>1, <2>1
    <3>2. Covers(Live', Streamed', 1, st'.lastID)
      BY <1>2, <1>3, <1>5, <1>6, <2>1, <3>1
    <3>3. st'.bf = "none" \/ (st'.bf = "complete" /\ st'.latest = st'.lastID)
      BY <1>6, <2>1
    <3> QED BY <3>1, <3>2, <3>3 DEF Walked
  <2>2. CASE ~page.done
    <3>1. pc' = "read"
      BY <1>1, <2>2
    <3>2. Covers(Live', Streamed', offset', Reached')
      <4>1. Covers(Live, Streamed, page.next, r)
        BY <1>3, <1>5
      <4>2. Reached' = r
        BY <1>6
      <4>3. offset' = page.next
        BY <1>1
      <4> QED BY <1>2, <4>1, <4>2, <4>3
    <3>3. IF opt'.all
          THEN st'.bf = "active" /\ st'.lastID = 0 /\ st'.top = 0 /\ state'.lastID = 0
          ELSE st'.bf = "none" /\ state' = ZeroState
      BY <1>2, <1>3, <1>6, <2>2
    <3> QED BY <3>1, <3>2, <3>3 DEF Walked
  <2> QED BY <2>1, <2>2
<1>13. Placed' /\ Copying'
  <2>1. pc' \in {"finish", "read"}
    BY <1>1
  <2> QED BY <1>2, <2>1 DEF Placed, Copying
<1> QED BY <1>7, <1>8, <1>10, <1>11, <1>12, <1>13 DEF CoverInv

\* The checkpoint of the whole history is saved.
LEMMA FinishCover == ASSUME CoverInv, IInv', Finish PROVE CoverInv'
<1>1. /\ pc = "finish" /\ pc' = "unmark" /\ Full
      /\ synced' = [p \in Paths |-> IF p \in Mine THEN Len(out[p]) ELSE synced[p]]
      /\ st' = [st EXCEPT !.top = top, !.stamp = Fresh] /\ state' = st'
      /\ UNCHANGED <<telegram, journal, stage, out, opt, jn, top, page>>
  BY IncrementalPlaces DEF Finish
<1>2. /\ Live' = Live /\ head' = head /\ Full'
      /\ UNCHANGED <<journal, stage, out, opt, jn, top, page>>
  BY <1>1 DEF Live, Full, telegram
<1>3. /\ Covers(Live, Streamed, 1, st.lastID)
      /\ st.bf = "none" \/ (st.bf = "complete" /\ st.latest = st.lastID)
  BY <1>1 DEF CoverInv, Walked
<1>4. st'.lastID = st.lastID /\ st'.latest = st.latest /\ st'.bf = st.bf
  <2>1. st \in SyncStates
    BY Typed DEF CoverInv
  <2> QED BY <1>1, <2>1 DEF SyncStates
<1>5. Safe' = Streamed
  <2>1. Stream \in Mine /\ Stream \in Paths
    BY Typed DEF CoverInv
  <2> QED BY <1>1, <1>2, <2>1 DEF Safe, Streamed
<1>6. Seen'
  BY <1>1, <1>2, <1>4 DEF CoverInv, Seen, StateSeen, JournalSeen
<1>7. Mechanisms'
  <2>1. state'.bf # "active" /\ StaleWhole(state')
    BY <1>1, <1>3, <1>4 DEF StaleWhole
  <2> QED BY <1>1, <1>2, <2>1 DEF CoverInv, Mechanisms, FullPlaces, StaleWhole, Stale
<1>8. Durable'
  BY <1>1, <1>2, <1>3, <1>4, <1>5 DEF Durable
<1>9. Ranged'
  BY <1>2 DEF CoverInv, Ranged, StagedTo, RangeOf, Stale
<1>10. Walked' /\ Placed' /\ Copying'
  BY <1>1, <1>2 DEF Walked, Placed, Copying
<1> QED BY <1>6, <1>7, <1>8, <1>9, <1>10 DEF CoverInv

(***************************************************************************)
(* The theorems                                                            *)
(***************************************************************************)

\* The invariant holds at first.
LEMMA InitCover == Init => CoverInv
<1> SUFFICES ASSUME Init PROVE CoverInv
  OBVIOUS
<1>1. IInv
  BY InitInv
<1>2. /\ msgs = [id \in IDs |-> 0] /\ head = 0 /\ state = ZeroState /\ journal = NoJournal
      /\ pc = "idle" /\ st = ZeroState /\ jn = NoJournal /\ top = 0 /\ page = NoPage
  BY DEF Init
<1>3. Live = {}
  BY <1>2 DEF Live
<1>4. Seen
  BY <1>2, <1>3 DEF Seen, StateSeen, JournalSeen, ZeroState, NoJournal, NoPage
<1>5. Mechanisms
  BY <1>2 DEF Mechanisms, StaleWhole, Stale, ZeroState, NoJournal
<1>6. Durable
  BY <1>3 DEF Durable, Covers
<1>7. Walked /\ Placed /\ Copying
  BY <1>2 DEF Walked, Placed, Copying, BeforeCommit, Writing
<1>8. Ranged
  BY <1>2 DEF Ranged, NoJournal
<1> QED BY <1>1, <1>4, <1>5, <1>6, <1>7, <1>8 DEF CoverInv

\* Every step keeps the invariant, when --reset begins a new archive and no run
\* reconciles.
LEMMA StepCover ==
    CoverInv /\ [Next]_vars /\ [EarlyResets]_vars /\ [RoutineOnly]_vars => CoverInv'
<1> SUFFICES ASSUME CoverInv, [Next]_vars, [EarlyResets]_vars, [RoutineOnly]_vars PROVE CoverInv'
  OBVIOUS
<1>1. IInv'
  BY KeepsTypes DEF CoverInv
<1>2. CASE Environment \/ UNCHANGED vars
  BY <1>1, <1>2, EnvironmentCover
<1>3. CASE ~UNCHANGED vars /\ \E o \in Options : Start(o)
  <2>1. PICK o \in Options : Start(o)
    BY <1>3
  <2>2. (o.reset => state = ZeroState) /\ o.start = 0
    BY <1>3, <2>1 DEF EarlyResets, RoutineOnly
  <2>3. CASE StartIncremental(o)
    BY <1>1, <2>2, <2>3, StartPlainCover
  <2>4. CASE StartFull(o)
    BY <1>1, <2>2, <2>4, StartFullCover
  <2> QED BY <2>1, <2>3, <2>4 DEF Start
<1>4. CASE Step
  <2>1. CASE OpenStage \/ SaveJournal \/ ReadPage \/ CheckpointPage \/ MarkReady \/ Plan
    BY <1>1, <2>1, OpenStageCover, SaveJournalCover, ReadPageCover, CheckpointPageCover,
       MarkReadyCover, PlanCover
  <2>2. CASE Verify \/ Mark \/ Compare \/ Copy \/ Flush \/ Commit \/ Unmark \/ RemoveJournal
    BY <1>1, <2>2, VerifyCover, MarkCover, CompareCover, CopyCover, FlushCover, CommitCover,
       UnmarkCover, RemoveJournalCover
  <2>3. CASE OpenOutput \/ ReadHistoryPage \/ CheckpointHistory \/ Finish
    BY <1>1, <2>3, OpenOutputCover, ReadHistoryPageCover, CheckpointHistoryCover, FinishCover
  <2>4. CASE Refuse \/ RemoveStage
    BY <1>1, <2>4, EndCover
  <2> QED BY <1>4, <2>1, <2>2, <2>3, <2>4 DEF Step
<1>5. CASE Crash
  BY <1>1, <1>5, CrashCover
<1> QED BY <1>2, <1>3, <1>4, <1>5 DEF Next

\* The invariant holds throughout.
LEMMA CoverInvariance == Spec /\ [][EarlyResets]_vars /\ [][RoutineOnly]_vars => []CoverInv
BY InitCover, StepCover, PTL DEF Spec

\* What is safe is archived.
LEMMA SafeIsArchived == ASSUME CoverInv, NEW id \in Safe PROVE Archived(id)
BY DEF Safe, Ids, Archived, IDsIn

\* What a checkpoint claims, verified or half-way through a backfill, is in the part
\* of the stream that a power loss leaves: outputs are synced before the checkpoint
\* that goes over them is saved (sync.go:154-159 and 203-214).
THEOREM CheckpointIsDurable ==
    Spec /\ [][EarlyResets]_vars /\ [][RoutineOnly]_vars => []Durable
<1>1. CoverInv => Durable
  BY DEF CoverInv
<1> QED BY <1>1, CoverInvariance, PTL

\* An interrupted --all goes on below what it stored: whatever happened since, the
\* stream holds all that Telegram still has from the saved offset up to the newest
\* message of the backfill (sync.go:299-337, state.go).
THEOREM BackfillIsCovered ==
    Spec /\ [][EarlyResets]_vars /\ [][RoutineOnly]_vars => []BackfillCovered
<1>1. CoverInv => BackfillCovered
  <2> SUFFICES ASSUME CoverInv, state.bf = "active", state.next > 0,
                      NEW id \in IDs, msgs[id] # 0, id \in state.next..state.latest
               PROVE  Archived(id)
    BY DEF BackfillCovered
  <2>1. id \in Live /\ state.next <= id /\ id <= state.latest
    BY AllNumbers DEF Live, CoverInv
  <2>2. Covers(Live, Safe, state.next, state.latest)
    BY DEF CoverInv, Durable
  <2> QED BY <2>1, <2>2, SafeIsArchived DEF Covers
<1> QED BY <1>1, CoverInvariance, PTL

\* The boundary of a checkpoint is verified when full and plain runs follow each
\* other too, interrupted anywhere (incremental.go:17).
THEOREM FullRunsVerified ==
    Spec /\ [][EarlyResets]_vars /\ [][RoutineOnly]_vars => []BoundaryCovered
<1>1. CoverInv => BoundaryCovered
  <2> SUFFICES ASSUME CoverInv, NEW id \in IDs, id <= state.lastID, msgs[id] # 0
               PROVE  Archived(id)
    BY DEF BoundaryCovered
  <2>1. id \in Live /\ 1 <= id
    BY LiveNumbers DEF Live
  <2>2. Covers(Live, Safe, 1, state.lastID)
    BY DEF CoverInv, Durable
  <2> QED BY <2>1, <2>2, SafeIsArchived DEF Covers
<1> QED BY <1>1, CoverInvariance, PTL

\* So readers never take a stream for complete that an interrupted backfill left.
THEOREM FullRunsComplete ==
    Spec /\ [][EarlyResets]_vars /\ [][RoutineOnly]_vars => []ReadableIsComplete
<1>1. BoundaryCovered => ReadableIsComplete
  BY DEF ReadableIsComplete
<1> QED BY <1>1, FullRunsVerified, PTL
=============================================================================
