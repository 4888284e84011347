--------------------------- MODULE ChatSync_proofs ---------------------------
(***************************************************************************)
(* Proofs about ChatSync for every value of its constants: its types, and  *)
(* that a resumed run finds the staged records its journal promises.       *)
(***************************************************************************)
EXTENDS ChatSync, SequenceTheorems, TLAPS

(* Types of the values the actions are built from *)

\* The zero values and the outputs have the types the variables need.
LEMMA ConstantTypes ==
    /\ ZeroState \in SyncStates /\ NoJournal \in Journals
    /\ NoOpt \in OptionSet /\ NoPage \in Pages
    /\ Len(Outputs) \in 1..2 /\ Mine \subseteq Paths /\ Stream \in Mine
    /\ \A i \in 1..Len(Outputs) : Outputs[i] \in Mine
BY BoundsAssumption, OutputsAssumption
   DEF ZeroState, SyncStates, NoJournal, Journals, NoOpt, OptionSet, NoPage,
       Pages, MaybeID, Stamps, Phases, Mine, Stream

\* There is always a time that no checkpoint on disk carries: at most three are
\* in use.
LEMMA FreshType == Fresh \in Stamps
  <1>1. \E t \in Stamps \ {0} :
            t \notin {state.stamp, journal.base.stamp, journal.next.stamp}
    BY DEF Stamps
  <1> QED BY <1>1 DEF Fresh

\* A planned checkpoint is not the one on disk: its time is new.
LEMMA FreshDiffers == Fresh # state.stamp
<1>1. \E t \in Stamps \ {0} :
          t \notin {state.stamp, journal.base.stamp, journal.next.stamp}
  BY DEF Stamps
<1> QED BY <1>1 DEF Fresh

\* The outputs are numbered without repetition.
LEMMA OutputNumbers ==
    /\ \A i, k \in 1..Len(Outputs) : Outputs[i] = Outputs[k] => i = k
    /\ \A p \in Mine : \E i \in 1..Len(Outputs) : Outputs[i] = p
    /\ Len(Outputs) \in Nat
BY OutputsAssumption DEF Mine

\* Cutting a file yields a file of the length asked for.
LEMMA PrefixType ==
    ASSUME NEW S, NEW s \in Seq(S), NEW n \in 0..Len(s)
    PROVE  Prefix(s, n) \in Seq(S) /\ Len(Prefix(s, n)) = n
BY SubSeqProperties DEF Prefix

\* So does dropping its first records.
LEMMA SuffixType ==
    ASSUME NEW S, NEW s \in Seq(S), NEW n \in Nat
    PROVE  SubSeq(s, n + 1, Len(s)) \in Seq(S)
BY SubSeqProperties, LenProperties

\* The records of a file that is cut.
LEMMA CutFacts ==
    ASSUME NEW S, NEW s \in Seq(S), NEW n \in 0..Len(s)
    PROVE  /\ Prefix(s, n) \in Seq(S) /\ Len(Prefix(s, n)) = n
           /\ \A i \in 1..n : Prefix(s, n)[i] = s[i]
BY SubSeqProperties, LenProperties DEF Prefix

\* The records of a file with others after them.
LEMMA JoinFacts ==
    ASSUME NEW S, NEW s \in Seq(S), NEW u \in Seq(S)
    PROVE  /\ s \o u \in Seq(S) /\ Len(s \o u) = Len(s) + Len(u)
           /\ \A i \in 1..Len(s) : (s \o u)[i] = s[i]
           /\ \A i \in 1..Len(u) : (s \o u)[Len(s) + i] = u[i]
BY ConcatProperties, LenProperties

\* Writing s over the end of a file that is not longer than s reaches.
LEMMA OverwriteFacts ==
    ASSUME NEW S, NEW f \in Seq(S), NEW s \in Seq(S), NEW n \in 0..Len(f),
           Len(f) <= n + Len(s)
    PROVE  /\ Overwrite(f, n, s) \in Seq(S) /\ Len(Overwrite(f, n, s)) = n + Len(s)
           /\ \A i \in 1..n : Overwrite(f, n, s)[i] = f[i]
           /\ \A i \in 1..Len(s) : Overwrite(f, n, s)[n + i] = s[i]
<1> DEFINE a == Prefix(f, n)
           b == a \o s
           c == SubSeq(f, n + Len(s) + 1, Len(f))
<1>1. Len(f) \in Nat /\ Len(s) \in Nat /\ n \in Nat
  BY LenProperties
<1>2. a \in Seq(S) /\ Len(a) = n /\ \A i \in 1..n : a[i] = f[i]
  BY CutFacts
<1>3. c = <<>>
  BY <1>1
<1> HIDE DEF a, c
<1>4. /\ b \in Seq(S) /\ Len(b) = n + Len(s)
      /\ \A i \in 1..n : b[i] = a[i]
      /\ \A i \in 1..Len(s) : b[n + i] = s[i]
  <2>1. /\ a \o s \in Seq(S) /\ Len(a \o s) = Len(a) + Len(s)
        /\ \A i \in 1..Len(a) : (a \o s)[i] = a[i]
        /\ \A i \in 1..Len(s) : (a \o s)[Len(a) + i] = s[i]
    <3>1. a \in Seq(S)
      BY <1>2
    <3> QED BY <3>1, JoinFacts
  <2> QED BY <1>2, <2>1
<1> HIDE DEF b
<1>5. b \o <<>> = b
  BY <1>4
<1>6. Overwrite(f, n, s) = b
  BY <1>3, <1>5 DEF Overwrite, a, b, c
<1> QED BY <1>2, <1>4, <1>6

\* Writing over a file from a position keeps what lies before it.
LEMMA OverwriteType ==
    ASSUME NEW S, NEW f \in Seq(S), NEW s \in Seq(S), NEW at \in 0..Len(f)
    PROVE  Overwrite(f, at, s) \in Seq(S) /\ Len(Overwrite(f, at, s)) >= at
  <1>1. Prefix(f, at) \in Seq(S) /\ Len(Prefix(f, at)) = at
    BY PrefixType
  <1>2. SubSeq(f, at + Len(s) + 1, Len(f)) \in Seq(S)
    BY SuffixType, LenProperties, at + Len(s) \in Nat
  <1>3. Prefix(f, at) \o s \in Seq(S) /\ Len(Prefix(f, at) \o s) >= at
    BY <1>1, ConcatProperties, LenProperties
  <1>4. /\ Overwrite(f, at, s) \in Seq(S)
        /\ Len(Overwrite(f, at, s)) = Len(Prefix(f, at) \o s)
                                       + Len(SubSeq(f, at + Len(s) + 1, Len(f)))
    BY <1>2, <1>3, ConcatProperties DEF Overwrite
  <1>5. /\ Len(Prefix(f, at) \o s) \in Nat
        /\ Len(SubSeq(f, at + Len(s) + 1, Len(f))) \in Nat
    BY <1>2, <1>3, LenProperties
  <1>6. at \in Nat
    BY LenProperties
  <1>7. \A i, j \in Nat : i >= at => i + j >= at
    BY <1>6
  <1> QED BY <1>3, <1>4, <1>5, <1>7

\* The larger of two numbers is one of them.
LEMMA Max2Type == \A a, b \in Nat : Max2(a, b) \in Nat /\ Max2(a, b) \in {a, b}
BY DEF Max2

\* An answer holds messages Telegram has, so their records have a version.
LEMMA PageRecordsType ==
    ASSUME TypeOK, NEW off, NEW minID, NEW P \in Answers(off, minID),
           NEW S, S \subseteq P, NEW n \in Nat, NEW ids \in [1..n -> IDs],
           Listing(ids, S)
    PROVE  Encoded(ids) \in Seq(Records)
  <1>1. ASSUME NEW i \in 1..n PROVE RecordOf(ids[i]) \in Records
    <2>1. ids[i] \in P
      BY DEF Listing
    <2>2. ids[i] \in IDs /\ msgs[ids[i]] # 0
      BY <2>1 DEF Answers
    <2>3. msgs[ids[i]] \in 1..MaxVersion
      BY <2>2, BoundsAssumption DEF TypeOK, TelegramOK, Versions
    <2>4. (Known(ids[i]) \/ (jn.start # 0 /\ ids[i] <= st.lastID)) \in BOOLEAN
      BY DEF Known
    <2> QED BY <2>2, <2>3, <2>4, OwnersAssumption DEF RecordOf, Records
  <1> QED BY <1>1, IsASeq DEF Encoded

\* What a page reports to Progress is well formed.
LEMMA ReportPageType ==
    ASSUME NEW P, NEW off, NEW minID, NEW start, NEW n \in Nat,
           ReportPage(P, off, minID, start, n)
    PROVE  page' \in Pages
  <1>1. WalkDone(P, minID, start) \in BOOLEAN
    BY DEF WalkDone
  <1> QED BY <1>1 DEF ReportPage, Pages

\* A run that ends leaves well-formed memory and locks (runlock Release).
LEMMA LeaveType ==
    ASSUME Leave, LocksOK
    PROVE  LocksOK' /\ RunOK' /\ MemoryOK' /\ PageOK'
  <1>1. LocksOK'
    BY DEF Leave, LocksOK
  <1>2. RunOK'
    <2>1. pc' \in Locs
      BY DEF Leave, Locs
    <2>2. opt' \in OptionSet
      BY ConstantTypes DEF Leave
    <2>3. pos' \in 1..Len(Outputs)
      <3>1. 1 \in 1..Len(Outputs)
        BY OutputsAssumption
      <3> QED BY <3>1 DEF Leave
    <2>4. top' \in MaybeID /\ offset' \in MaybeID
      BY BoundsAssumption DEF Leave, MaybeID
    <2> QED BY <2>1, <2>2, <2>3, <2>4 DEF RunOK
  <1>3. MemoryOK' /\ PageOK'
    BY ConstantTypes DEF Leave, MemoryOK, PageOK
  <1> QED BY <1>1, <1>2, <1>3

\* A run that begins holds well-formed locks (runlock AcquireResources).
LEMMA AcquireType ==
    ASSUME Acquire, LocksOK
    PROVE  LocksOK' /\ PageOK' /\ pos' \in 1..Len(Outputs)
  <1>1. LocksOK'
    BY OwnersAssumption DEF Acquire, LocksOK
  <1> QED BY <1>1, ConstantTypes DEF Acquire, PageOK

\* The checkpoint an incremental run plans is well formed.
LEMMA NextStateType == ASSUME TypeOK PROVE NextState \in SyncStates
  <1>1. NextLastID \in MaybeID
    BY BoundsAssumption
       DEF NextLastID, Recovered, Max2, TypeOK, MemoryOK, SyncStates, Journals, MaybeID
  <1>2. jn.added \in Nat /\ jn.top \in MaybeID /\ st \in SyncStates
    BY DEF TypeOK, MemoryOK, Journals
  <1>3. (IF jn.top > 0 THEN Max2(jn.top, NextLastID) ELSE 0) \in MaybeID
    BY <1>1, <1>2, BoundsAssumption DEF Max2, MaybeID
  <1>4. st.records + jn.added \in Nat
    BY <1>2 DEF SyncStates
  <1> QED BY <1>1, <1>2, <1>3, <1>4, FreshType DEF NextState, SyncStates

\* So are the checkpoints of a full walk.
LEMMA BackfilledType ==
    ASSUME TypeOK PROVE Backfilled(st) \in SyncStates /\ Summed(st) \in SyncStates
  <1>1. st \in SyncStates /\ page \in Pages
    BY DEF TypeOK, MemoryOK, PageOK
  <1>2. Max2(st.latest, page.last) \in MaybeID /\ Max2(st.lastID, page.last) \in MaybeID
    BY <1>1, BoundsAssumption DEF Max2, SyncStates, Pages, MaybeID
  <1>3. st.count + page.count \in Nat /\ st.records + page.count \in Nat
    BY <1>1 DEF SyncStates, Pages
  <1> QED BY <1>1, <1>2, <1>3, FreshType DEF Backfilled, Summed, SyncStates, Pages

(* Types are preserved *)

\* The initial state is well formed.
LEMMA InitType == Init => TypeOK
<1> SUFFICES ASSUME Init PROVE TypeOK
  OBVIOUS
<1> USE ConstantTypes, BoundsAssumption DEF Init
<1>1. TelegramOK
  BY DEF TelegramOK, IDs, MaybeID, Versions
<1>2. CheckpointsOK /\ MemoryOK /\ PageOK /\ SpentOK
  BY DEF CheckpointsOK, MemoryOK, PageOK, SpentOK
<1>3. StageOK /\ OutputsOK
  BY DEF StageOK, OutputsOK
<1>4. MarkersOK /\ LocksOK
  BY DEF MarkersOK, LocksOK
<1>5. RunOK
  BY DEF RunOK, Locs, MaybeID
<1> QED BY <1>1, <1>2, <1>3, <1>4, <1>5 DEF TypeOK

\* The parts a step leaves alone keep their types.
LEMMA UnchangedTypes ==
    ASSUME TypeOK
    PROVE  /\ UNCHANGED telegram => TelegramOK'
           /\ UNCHANGED <<state, journal>> => CheckpointsOK'
           /\ UNCHANGED <<stage, staged>> => StageOK'
           /\ UNCHANGED <<out, synced>> => OutputsOK'
           /\ UNCHANGED marker => MarkersOK'
           /\ UNCHANGED holder => LocksOK'
           /\ UNCHANGED <<pc, opt, top, offset, pos>> => RunOK'
           /\ UNCHANGED <<st, jn>> => MemoryOK'
           /\ UNCHANGED page => PageOK'
           /\ UNCHANGED spent => SpentOK'
BY DEF TypeOK, telegram, TelegramOK, CheckpointsOK, StageOK, OutputsOK,
       MarkersOK, LocksOK, RunOK, MemoryOK, PageOK, SpentOK

\* Posts, edits and deletions keep the types.
LEMMA TelegramTypeStep == TypeOK /\ Environment => TypeOK'
<1> SUFFICES ASSUME TypeOK, Environment PROVE TypeOK'
  OBVIOUS
<1>1. TelegramOK'
  <2>1. CASE Post
    <3>1. head + 1 \in IDs /\ head' \in MaybeID /\ 1 \in Versions
      BY <2>1, BoundsAssumption DEF Post, TypeOK, TelegramOK, IDs, MaybeID, Versions
    <3> QED BY <2>1, <3>1 DEF Post, TypeOK, TelegramOK
  <2>2. CASE Edit
    BY <2>2, BoundsAssumption DEF Edit, TypeOK, TelegramOK, Versions
  <2>3. CASE Delete
    BY <2>3, BoundsAssumption DEF Delete, TypeOK, TelegramOK, Versions
  <2> QED BY <2>1, <2>2, <2>3 DEF Environment
<1>2. SpentOK'
  BY BoundsAssumption DEF Environment, Post, Edit, Delete, TypeOK, SpentOK
<1>3. UNCHANGED <<disk, holder, pc, memory>>
  BY DEF Environment, Post, Edit, Delete
<1> QED BY <1>1, <1>2, <1>3, UnchangedTypes DEF TypeOK, disk, memory

\* A run under way keeps to the locations and loop indices of the code.
LEMMA LocationStep == TypeOK /\ Step => RunOK'
<1> SUFFICES ASSUME TypeOK, Step PROVE RunOK'
  OBVIOUS
<1> USE ConstantTypes, BoundsAssumption, UnchangedTypes
<1>1. CASE OpenStage
  BY <1>1 DEF OpenStage, TypeOK, CheckpointsOK, Journals, Phases, RunOK, Locs, memory
<1>2. CASE SaveJournal \/ ReadPage \/ CheckpointPage \/ MarkReady
  BY <1>2 DEF SaveJournal, ReadPage, CheckpointPage, MarkReady, TypeOK, RunOK, Locs
<1>3. CASE Plan \/ Verify \/ Compare \/ Copy \/ Flush \/ Commit
  BY <1>3 DEF Plan, Verify, Compare, Copy, Flush, Commit, TypeOK, RunOK, Locs, memory
<1>4. CASE Mark \/ RemoveJournal
  BY <1>4 DEF Mark, RemoveJournal, TypeOK, RunOK, Locs, memory
<1>5. CASE Unmark
  BY <1>5, LeaveType DEF Unmark, TypeOK, RunOK, Locs
<1>6. CASE RemoveStage \/ Refuse
  BY <1>6, LeaveType DEF RemoveStage, Refuse, TypeOK
<1>7. CASE OpenOutput \/ ReadHistoryPage \/ Finish
  BY <1>7 DEF OpenOutput, ReadHistoryPage, Finish, TypeOK, RunOK, Locs
<1>8. CASE CheckpointHistory
  BY <1>8 DEF CheckpointHistory, TypeOK, PageOK, Pages, RunOK, Locs
<1> QED
  BY <1>1, <1>2, <1>3, <1>4, <1>5, <1>6, <1>7, <1>8 DEF Step

\* The checkpoints on disk and in memory.
LEMMA CheckpointStep == TypeOK /\ Step => CheckpointsOK' /\ MemoryOK'
<1> SUFFICES ASSUME TypeOK, Step PROVE CheckpointsOK' /\ MemoryOK'
  OBVIOUS
<1> USE ConstantTypes, UnchangedTypes
<1>0. jn \in Journals /\ Len(stage) \in Nat /\ page \in Pages /\ top \in MaybeID
  BY LenProperties DEF TypeOK, MemoryOK, StageOK, PageOK, RunOK
<1>1. CASE SaveJournal
  BY <1>0, <1>1 DEF SaveJournal, TypeOK, CheckpointsOK, MemoryOK, Journals, Phases
<1>2. CASE CheckpointPage
  <2>0. /\ jn.last \in MaybeID /\ page.last \in MaybeID
        /\ jn.added \in Nat /\ page.count \in Nat
    BY <1>0 DEF Journals, Pages
  <2>1. Max2(jn.last, page.last) \in MaybeID /\ jn.added + page.count \in Nat
    BY <2>0 DEF Max2
  <2>2. journal' \in Journals
    BY <1>0, <1>2, <2>1 DEF CheckpointPage, Journals, Pages
  <2> QED BY <1>2, <2>2 DEF CheckpointPage, TypeOK, CheckpointsOK, MemoryOK
<1>3. CASE MarkReady
  <2>1. journal' \in Journals
    BY <1>0, <1>3 DEF MarkReady, Journals, Phases
  <2> QED BY <1>3, <2>1 DEF MarkReady, TypeOK, CheckpointsOK, MemoryOK
<1>4. CASE Plan
  <2>1. [p \in Paths |-> IF p \in Mine THEN Len(out[p]) ELSE 0] \in [Paths -> Nat]
    BY LenProperties DEF TypeOK, OutputsOK
  <2>2. journal' \in Journals /\ st' \in SyncStates
    BY <1>0, <1>4, <2>1, NextStateType DEF Plan, Journals, Phases
  <2> QED BY <1>4, <2>2 DEF Plan, TypeOK, CheckpointsOK, MemoryOK
<1>5. CASE Commit
  BY <1>0, <1>5 DEF Commit, TypeOK, CheckpointsOK, MemoryOK, Journals
<1>6. CASE RemoveJournal
  BY <1>6 DEF RemoveJournal, memory, TypeOK, CheckpointsOK
<1>7. CASE Unmark
  BY <1>7, LeaveType DEF Unmark, TypeOK
<1>8. CASE RemoveStage \/ Refuse
  BY <1>8, LeaveType DEF RemoveStage, Refuse, disk, TypeOK
<1>9. CASE CheckpointHistory
  BY <1>9, BackfilledType DEF CheckpointHistory, TypeOK, CheckpointsOK, MemoryOK
<1>10. CASE Finish
  <2>1. st' \in SyncStates
    BY <1>0, <1>10, FreshType DEF Finish, TypeOK, MemoryOK, SyncStates
  <2> QED BY <1>10, <2>1 DEF Finish, TypeOK, CheckpointsOK, MemoryOK
<1>11. CASE OpenStage \/ ReadPage \/ Verify \/ Mark \/ Compare \/ Copy \/ Flush
            \/ OpenOutput \/ ReadHistoryPage
  BY <1>11 DEF OpenStage, ReadPage, Verify, Mark, Compare, Copy, Flush,
     OpenOutput, ReadHistoryPage, disk, memory
<1> QED
  BY <1>1, <1>2, <1>3, <1>4, <1>5, <1>6, <1>7, <1>8, <1>9, <1>10, <1>11 DEF Step

\* The stage and the outputs.  Writing over an output needs that it has not
\* shrunk since its size was recorded.
SizesOK == \/ pc \in {"compare", "copy", "flush"}
           \/ pc = "mark" /\ ~Full
           => \A p \in Mine : jn.sizes[p] <= Len(out[p])

\* The stage and the outputs stay sequences of records: the position a replay
\* writes from lies within the file.
LEMMA FileStep == TypeOK /\ SizesOK /\ Step => StageOK' /\ OutputsOK'
<1> SUFFICES ASSUME TypeOK, SizesOK, Step PROVE StageOK' /\ OutputsOK'
  OBVIOUS
<1> USE ConstantTypes, UnchangedTypes
<1>0. /\ jn \in Journals /\ stage \in Seq(Records) /\ staged \in Nat
      /\ Len(stage) \in Nat
      /\ out \in [Paths -> Seq(Records)] /\ synced \in [Paths -> Nat]
      /\ \A p \in Paths : Len(out[p]) \in Nat
      /\ pos \in 1..Len(Outputs) /\ Outputs[pos] \in Paths
  BY LenProperties DEF TypeOK, MemoryOK, StageOK, OutputsOK, RunOK
<1>1. CASE OpenStage
  <2>1. jn.bytes \in 0..Len(stage)
    BY <1>0, <1>1 DEF OpenStage, Journals
  <2>2. stage' \in Seq(Records) /\ staged' \in Nat
    BY <1>0, <1>1, <2>1, PrefixType DEF OpenStage, Min2
  <2> QED BY <1>1, <2>2 DEF OpenStage, StageOK
<1>2. CASE ReadPage
  <2>0. PICK P \in Answers(jn.offset, jn.minID), n \in 0..PageSize :
          \E ids \in [1..n -> IDs] :
            /\ Listing(ids, {id \in InRange(P, jn.minID, jn.start) : ~Unchanged(id)})
            /\ stage' = stage \o Encoded(ids)
    BY <1>2 DEF ReadPage
  <2>1. PICK ids \in [1..n -> IDs] :
            /\ Listing(ids, {id \in InRange(P, jn.minID, jn.start) : ~Unchanged(id)})
            /\ stage' = stage \o Encoded(ids)
    BY <2>0
  <2>2. Encoded(ids) \in Seq(Records)
    BY <2>1, PageRecordsType, BoundsAssumption DEF InRange
  <2>3. stage' \in Seq(Records)
    BY <1>0, <2>1, <2>2, ConcatProperties
  <2> QED BY <1>0, <1>2, <2>3 DEF ReadPage, StageOK
<1>3. CASE CheckpointPage \/ MarkReady
  BY <1>0, <1>3 DEF CheckpointPage, MarkReady, StageOK
<1>4. CASE Copy
  <2>1. jn.sizes[Outputs[pos]] \in 0..Len(out[Outputs[pos]])
    BY <1>0, <1>4 DEF Copy, Journals, SizesOK
  <2>2. Overwrite(out[Outputs[pos]], jn.sizes[Outputs[pos]], stage) \in Seq(Records)
    BY <1>0, <2>1, OverwriteType
  <2> QED BY <1>0, <1>4, <2>2 DEF Copy, OutputsOK
<1>5. CASE Flush
  BY <1>0, <1>5 DEF Flush, OutputsOK
<1>6. CASE RemoveStage
  BY <1>6 DEF RemoveStage, StageOK
<1>7. CASE OpenOutput
  BY <1>0, <1>7 DEF OpenOutput, OutputsOK
<1>8. CASE ReadHistoryPage
  <2>0. PICK P \in Answers(offset, 0), n \in 0..PageSize :
          \E ids \in [1..n -> IDs] :
            /\ Listing(ids, P)
            /\ out' = Emitted(Encoded(ids))
    BY <1>8 DEF ReadHistoryPage
  <2>1. PICK ids \in [1..n -> IDs] :
            /\ Listing(ids, P)
            /\ out' = Emitted(Encoded(ids))
    BY <2>0
  <2>2. Encoded(ids) \in Seq(Records)
    BY <2>1, PageRecordsType, BoundsAssumption, P \subseteq P, n \in Nat
  <2>3. out' \in [Paths -> Seq(Records)]
    BY <1>0, <2>1, <2>2, ConcatProperties DEF Emitted
  <2> QED BY <1>0, <1>8, <2>3 DEF ReadHistoryPage, OutputsOK
<1>9. CASE CheckpointHistory \/ Finish
  BY <1>0, <1>9 DEF CheckpointHistory, Finish, OutputsOK
<1>10. CASE SaveJournal \/ Plan \/ Verify \/ Mark \/ Compare \/ Commit \/ Unmark
            \/ RemoveJournal \/ Refuse
  BY <1>10 DEF SaveJournal, Plan, Verify, Mark, Compare, Commit, Unmark,
     RemoveJournal, Refuse, disk
<1> QED
  BY <1>1, <1>2, <1>3, <1>4, <1>5, <1>6, <1>7, <1>8, <1>9, <1>10 DEF Step

\* Markers, locks, the page at hand and the bounds.
LEMMA OtherStep == TypeOK /\ Step => MarkersOK' /\ LocksOK' /\ PageOK' /\ SpentOK'
<1> SUFFICES ASSUME TypeOK, Step PROVE MarkersOK' /\ LocksOK' /\ PageOK' /\ SpentOK'
  OBVIOUS
<1> USE ConstantTypes, UnchangedTypes
<1>1. CASE Mark
  BY <1>1, OwnersAssumption DEF Mark, TypeOK, MarkersOK
<1>2. CASE Unmark
  BY <1>2, LeaveType DEF Unmark, TypeOK, MarkersOK
<1>3. CASE RemoveStage \/ Refuse
  BY <1>3, LeaveType DEF RemoveStage, Refuse, disk, TypeOK
<1>4. CASE ReadPage
  <2>1. PICK P \in Answers(jn.offset, jn.minID), n \in 0..PageSize :
            ReportPage(P, jn.offset, jn.minID, jn.start, n)
    BY <1>4 DEF ReadPage
  <2>2. PageOK'
    BY <2>1, ReportPageType, BoundsAssumption, n \in Nat DEF PageOK
  <2> QED BY <1>4, <2>2 DEF ReadPage
<1>5. CASE ReadHistoryPage
  <2>1. PICK P \in Answers(offset, 0), n \in 0..PageSize :
            ReportPage(P, offset, 0, 0, n)
    BY <1>5 DEF ReadHistoryPage
  <2>2. PageOK'
    BY <2>1, ReportPageType, BoundsAssumption, n \in Nat DEF PageOK
  <2> QED BY <1>5, <2>2 DEF ReadHistoryPage
<1>6. CASE OpenStage \/ SaveJournal \/ CheckpointPage \/ MarkReady \/ Plan \/ Verify
           \/ Compare \/ Copy \/ Flush \/ Commit \/ RemoveJournal
           \/ OpenOutput \/ CheckpointHistory \/ Finish
  BY <1>6 DEF OpenStage, SaveJournal, CheckpointPage, MarkReady, Plan, Verify,
     Compare, Copy, Flush, Commit, RemoveJournal, OpenOutput, CheckpointHistory,
     Finish, disk, memory
<1> QED
  BY <1>1, <1>2, <1>3, <1>4, <1>5, <1>6 DEF Step

\* A command that starts keeps the types.
LEMMA StartTypeStep ==
    ASSUME TypeOK, NEW o \in Options, Start(o) PROVE TypeOK'
<1> USE ConstantTypes, UnchangedTypes, BoundsAssumption
<1>0. /\ o \in OptionSet /\ state \in SyncStates /\ journal \in Journals
      /\ top' \in MaybeID
  BY OptionsAssumption DEF TypeOK, CheckpointsOK, Start, StartIncremental,
     StartFull, Newest, IDs, MaybeID
<1>1. CASE StartIncremental(o)
  <2>1. RunStart(o) \in MaybeID /\ RunMinID(o) \in MaybeID
    BY <1>0 DEF RunStart, RunMinID, IncrementalMinID, Journals, SyncStates,
       OptionSet, MaybeID
  <2>2. [NoJournal EXCEPT !.minID = RunMinID(o), !.start = o.start, !.base = state]
           \in Journals
    BY <1>0, <2>1 DEF Journals, OptionSet
  <2>3. MemoryOK'
    BY <1>0, <1>1, <2>2 DEF StartIncremental, MemoryOK
  <2>4. opt' \in OptionSet
    BY <1>0, <1>1, <2>1 DEF StartIncremental, OptionSet
  <2>5. LocksOK' /\ PageOK' /\ pos' \in 1..Len(Outputs)
    BY <1>1, AcquireType DEF StartIncremental, TypeOK
  <2>6. RunOK'
    BY <1>0, <1>1, <2>4, <2>5 DEF StartIncremental, RunOK, Locs, MaybeID
  <2> QED
    BY <1>1, <2>3, <2>5, <2>6 DEF StartIncremental, disk, TypeOK
<1>2. CASE StartFull(o)
  <2>1. [ZeroState EXCEPT !.bf = "active"] \in SyncStates
    BY DEF SyncStates
  <2>2. MemoryOK'
    BY <1>0, <1>2, <2>1 DEF StartFull, MemoryOK
  <2>3. offset' \in MaybeID
    BY <1>0, <1>2 DEF StartFull, SyncStates, MaybeID
  <2>4. LocksOK' /\ PageOK' /\ pos' \in 1..Len(Outputs)
    BY <1>2, AcquireType DEF StartFull, TypeOK
  <2>5. RunOK'
    BY <1>0, <1>2, <2>3, <2>4 DEF StartFull, RunOK, Locs
  <2>6. SpentOK'
    BY <1>2 DEF StartFull, TypeOK, SpentOK
  <2> QED
    BY <1>2, <2>2, <2>4, <2>5, <2>6 DEF StartFull, disk, TypeOK
<1> QED BY <1>1, <1>2 DEF Start

\* So does an interruption, whatever part of a file it takes.
LEMMA CrashTypeStep == TypeOK /\ Crash => TypeOK'
<1> SUFFICES ASSUME TypeOK, Crash PROVE TypeOK'
  OBVIOUS
<1> USE ConstantTypes, UnchangedTypes, BoundsAssumption
<1>1. ASSUME Lose PROVE StageOK' /\ OutputsOK'
  <2>1. StageOK'
    <3>1. PICK n \in staged..Len(stage) : stage' = Prefix(stage, n) /\ staged' = n
      BY <1>1 DEF Lose
    <3>2. n \in 0..Len(stage) /\ stage \in Seq(Records)
      BY LenProperties DEF TypeOK, StageOK
    <3> QED BY <3>1, <3>2, PrefixType DEF StageOK
  <2>2. OutputsOK'
    <3>1. PICK keep \in [Mine -> UNION {synced[p]..Len(out[p]) : p \in Mine}] :
              /\ \A p \in Mine : keep[p] \in synced[p]..Len(out[p])
              /\ out' = [p \in Paths |-> IF p \in Mine THEN Prefix(out[p], keep[p]) ELSE out[p]]
              /\ synced' = [p \in Paths |-> IF p \in Mine THEN keep[p] ELSE synced[p]]
      BY <1>1 DEF Lose
    <3>2. /\ out \in [Paths -> Seq(Records)] /\ synced \in [Paths -> Nat]
          /\ \A p \in Mine : keep[p] \in 0..Len(out[p])
      <4>1. out \in [Paths -> Seq(Records)] /\ synced \in [Paths -> Nat]
        BY DEF TypeOK, OutputsOK
      <4>2. ASSUME NEW p \in Mine PROVE keep[p] \in 0..Len(out[p])
        <5>1. keep[p] \in synced[p]..Len(out[p]) /\ synced[p] \in Nat /\ Len(out[p]) \in Nat
          BY <3>1, <4>1, LenProperties
        <5> QED BY <5>1
      <4> QED BY <4>1, <4>2
    <3>3. \A p \in Mine : Prefix(out[p], keep[p]) \in Seq(Records)
      BY <3>2, PrefixType
    <3>4. \A p \in Mine : keep[p] \in Nat
      BY <3>2, LenProperties
    <3>5. out' \in [Paths -> Seq(Records)]
      BY <3>1, <3>2, <3>3
    <3>6. synced' \in [Paths -> Nat]
      BY <3>1, <3>2, <3>4
    <3> QED BY <3>5, <3>6 DEF OutputsOK
  <2> QED BY <2>1, <2>2
<1>2. ASSUME UNCHANGED <<stage, staged, out, synced>> PROVE StageOK' /\ OutputsOK'
  BY <1>2 DEF TypeOK, StageOK, OutputsOK
<1>3. LocksOK' /\ RunOK' /\ MemoryOK' /\ PageOK'
  BY LeaveType DEF Crash, TypeOK
<1>4. SpentOK'
  <2>1. spent.crashes \in Nat /\ spent.crashes < MaxCrashes
    BY DEF Crash, TypeOK, SpentOK
  <2>2. spent.crashes + 1 \in 0..MaxCrashes
    BY <2>1
  <2> QED BY <2>2 DEF Crash, TypeOK, SpentOK
<1> QED BY <1>1, <1>2, <1>3, <1>4 DEF Crash, TypeOK

-----------------------------------------------------------------------------
(* The journal and the stage *)

\* While a range is under way the journal in memory is the one on disk.
Staging == \/ pc \in {"ready", "plan", "verify", "compare", "copy", "flush", "commit"}
           \/ pc \in {"read", "checkpoint", "mark"} /\ ~Full

JournalInMemory ==
    /\ Staging => jn = journal /\ journal.phase # "absent"
    /\ pc = "openStage" => \/ jn = journal /\ journal.phase # "absent"
                           \/ jn.bytes = 0 /\ journal.phase = "absent"
    /\ pc = "saveJournal" => jn.bytes = 0
    /\ pc = "removeStage" => journal.phase = "absent"
    /\ pc \in {"openOutput", "finish"} => Full

StageDurable == staged <= Len(stage)

IInv == TypeOK /\ SizesOK /\ JournalInMemory /\ StageDurable /\ JournalDurable

\* The inductive invariant holds at first.
LEMMA InitInv == Init => IInv
<1> SUFFICES ASSUME Init PROVE IInv
  OBVIOUS
<1>1. TypeOK
  BY InitType
<1>2. SizesOK /\ JournalInMemory /\ StageDurable /\ JournalDurable
  BY DEF Init, NoJournal, SizesOK, JournalInMemory, Staging, StageDurable, JournalDurable
<1> QED BY <1>1, <1>2 DEF IInv

\* Every step keeps the types.
LEMMA TypeStep == IInv /\ [Next]_vars => TypeOK'
<1> SUFFICES ASSUME IInv, [Next]_vars PROVE TypeOK'
  OBVIOUS
<1> USE DEF IInv
<1>1. CASE Environment
  BY <1>1, TelegramTypeStep
<1>2. ASSUME NEW o \in Options, Start(o) PROVE TypeOK'
  BY <1>2, StartTypeStep
<1>3. CASE Step
  <2>1. UNCHANGED telegram
    BY <1>3 DEF Step, OpenStage, SaveJournal, ReadPage, CheckpointPage, MarkReady,
       Plan, Verify, Mark, Compare, Copy, Flush, Commit, Unmark, RemoveJournal,
       RemoveStage, OpenOutput, ReadHistoryPage, CheckpointHistory, Finish, Refuse
  <2> QED
    BY <1>3, <2>1, UnchangedTypes, LocationStep, CheckpointStep, FileStep, OtherStep
       DEF TypeOK
<1>4. CASE Crash
  BY <1>4, CrashTypeStep
<1>5. CASE UNCHANGED vars
  BY <1>5, UnchangedTypes DEF vars, disk, memory, TypeOK
<1> QED BY <1>1, <1>2, <1>3, <1>4, <1>5 DEF Next

\* An output shrinks only when a full run truncates it or a run dies, and
\* neither is between recording the sizes and copying.
LEMMA SizesStep == IInv /\ [Next]_vars => SizesOK'
<1> SUFFICES ASSUME IInv, [Next]_vars PROVE SizesOK'
  OBVIOUS
<1> USE DEF IInv
<1>1. CASE Environment \/ UNCHANGED vars
  BY <1>1 DEF Environment, Post, Edit, Delete, vars, disk, memory, SizesOK, Full
<1>2. ASSUME NEW o \in Options, Start(o) PROVE SizesOK'
  BY <1>2 DEF Start, StartIncremental, StartFull, SizesOK, Full
<1>3. CASE Verify
  BY <1>3 DEF Verify, disk, memory, SizesOK, SizesFit, Full
<1>4. CASE Mark
  BY <1>4 DEF Mark, SizesOK, Full
<1>5. CASE Compare \/ Flush
  BY <1>5 DEF Compare, Flush, disk, SizesOK, Full
<1>6. CASE Copy
  <2>1. ASSUME NEW p \in Mine PROVE jn.sizes[p] <= Len(out'[p])
    <3>1. /\ out \in [Paths -> Seq(Records)] /\ p \in Paths
          /\ stage \in Seq(Records) /\ jn.sizes[p] \in Nat
          /\ jn.sizes[p] <= Len(out[p])
      BY <1>6, ConstantTypes
         DEF Copy, TypeOK, OutputsOK, StageOK, MemoryOK, Journals, SizesOK
    <3>2. CASE p = Outputs[pos]
      <4>1. out'[p] = Overwrite(out[p], jn.sizes[p], stage)
        BY <1>6, <3>1, <3>2 DEF Copy
      <4>2. jn.sizes[p] \in 0..Len(out[p])
        BY <3>1, LenProperties
      <4>3. Len(Overwrite(out[p], jn.sizes[p], stage)) >= jn.sizes[p]
        BY <3>1, <4>2, OverwriteType
      <4>4. Overwrite(out[p], jn.sizes[p], stage) \in Seq(Records)
        BY <3>1, <4>2, OverwriteType
      <4>5. Len(Overwrite(out[p], jn.sizes[p], stage)) \in Nat
        BY <4>4, LenProperties
      <4> QED BY <3>1, <4>1, <4>3, <4>5
    <3>3. CASE p # Outputs[pos]
      BY <1>6, <3>1, <3>3 DEF Copy
    <3> QED BY <3>2, <3>3
  <2> QED BY <1>6, <2>1 DEF Copy, memory, SizesOK
<1>7. CASE OpenStage \/ SaveJournal \/ ReadPage \/ CheckpointPage \/ MarkReady \/ Plan
  BY <1>7 DEF OpenStage, SaveJournal, ReadPage, CheckpointPage, MarkReady, Plan,
     TypeOK, CheckpointsOK, Journals, Phases, SizesOK
<1>8. CASE Commit \/ Unmark \/ RemoveJournal \/ RemoveStage \/ Refuse \/ Crash
  BY <1>8 DEF Commit, Unmark, RemoveJournal, RemoveStage, Refuse, Crash, Leave, SizesOK
<1>9. CASE OpenOutput \/ ReadHistoryPage \/ CheckpointHistory \/ Finish
  BY <1>9 DEF OpenOutput, ReadHistoryPage, CheckpointHistory, Finish, SizesOK
<1> QED
  BY <1>1, <1>2, <1>3, <1>4, <1>5, <1>6, <1>7, <1>8, <1>9 DEF Next, Step

\* While a run works on a range, the journal in memory is the one on disk.
LEMMA JournalStep == IInv /\ [Next]_vars => JournalInMemory'
<1> SUFFICES ASSUME IInv, [Next]_vars PROVE JournalInMemory'
  OBVIOUS
<1> USE DEF IInv
<1>1. CASE Environment \/ UNCHANGED vars
  BY <1>1 DEF Environment, Post, Edit, Delete, vars, disk, memory, JournalInMemory,
     Staging, Full
<1>2. ASSUME NEW o \in Options, StartIncremental(o) PROVE JournalInMemory'
  <2>1. CASE journal.phase = "absent"
    <3>1. NoJournal.bytes = 0
      BY DEF NoJournal
    <3>2. jn' = [NoJournal EXCEPT !.minID = RunMinID(o), !.start = o.start,
                                  !.base = state]
          /\ pc' = "openStage" /\ journal' = journal
      BY <1>2, <2>1 DEF StartIncremental, disk
    <3>3. jn'.bytes = 0
      BY <3>1, <3>2 DEF NoJournal
    <3> QED BY <2>1, <3>2, <3>3 DEF JournalInMemory, Staging
  <2>2. CASE journal.phase # "absent"
    BY <1>2, <2>2 DEF StartIncremental, disk, JournalInMemory, Staging
  <2> QED BY <2>1, <2>2
<1>3. ASSUME NEW o \in Options, StartFull(o) PROVE JournalInMemory'
  BY <1>3 DEF StartFull, JournalInMemory, Staging, Full
<1>4. CASE OpenStage
  BY <1>4 DEF OpenStage, memory, TypeOK, CheckpointsOK, Journals, Phases,
     JournalInMemory, Staging, Full
<1>5. CASE SaveJournal
  <2>1. journal'.phase = "reading"
    BY <1>5 DEF SaveJournal, TypeOK, MemoryOK, Journals
  <2> QED BY <1>5, <2>1 DEF SaveJournal, JournalInMemory, Staging
<1>6. CASE CheckpointPage
  <2>1. jn.phase # "absent" /\ journal'.phase = jn.phase
    BY <1>6 DEF CheckpointPage, JournalInMemory, Staging, TypeOK, MemoryOK, Journals
  <2> QED BY <1>6, <2>1 DEF CheckpointPage, JournalInMemory, Staging
<1>7. CASE MarkReady
  <2>1. journal'.phase = "ready"
    BY <1>7 DEF MarkReady, TypeOK, MemoryOK, Journals
  <2> QED BY <1>7, <2>1 DEF MarkReady, JournalInMemory, Staging
<1>8. CASE Plan
  <2>1. journal'.phase = "planned"
    BY <1>8 DEF Plan, TypeOK, MemoryOK, Journals
  <2> QED BY <1>8, <2>1 DEF Plan, JournalInMemory, Staging
<1>9. CASE ReadPage \/ Verify \/ Mark \/ Compare \/ Copy \/ Flush \/ Commit
  BY <1>9 DEF ReadPage, Verify, Mark, Compare, Copy, Flush, Commit, disk, memory,
     JournalInMemory, Staging, Full
<1>10. CASE RemoveJournal \/ RemoveStage \/ Refuse \/ Crash \/ Unmark
  BY <1>10 DEF RemoveJournal, RemoveStage, Refuse, Crash, Unmark, Leave, NoJournal,
     JournalInMemory, Staging, Full
<1>11. CASE OpenOutput \/ ReadHistoryPage \/ CheckpointHistory \/ Finish
  BY <1>11 DEF OpenOutput, ReadHistoryPage, CheckpointHistory, Finish,
     JournalInMemory, Staging, Full
<1> QED
  BY <1>1, <1>2, <1>3, <1>4, <1>5, <1>6, <1>7, <1>8, <1>9, <1>10, <1>11
     DEF Next, Step, Start

\* The stage keeps what the journal promises: it is synced before the journal
\* is saved, cut at the promised length only, and removed after the journal.
LEMMA StageStep == IInv /\ [Next]_vars => StageDurable' /\ JournalDurable'
<1> SUFFICES ASSUME IInv, [Next]_vars PROVE StageDurable' /\ JournalDurable'
  OBVIOUS
<1> USE DEF IInv
<1>0. /\ stage \in Seq(Records) /\ staged \in Nat /\ Len(stage) \in Nat
      /\ journal \in Journals /\ jn \in Journals /\ jn.bytes \in Nat
      /\ journal.bytes \in Nat
  BY LenProperties DEF TypeOK, StageOK, CheckpointsOK, MemoryOK, Journals
<1>1. CASE OpenStage
  <2>1. jn.bytes \in 0..Len(stage)
    BY <1>0, <1>1 DEF OpenStage
  <2>2. Len(stage') = jn.bytes /\ staged' = Min2(staged, jn.bytes)
    BY <1>0, <1>1, <2>1, PrefixType DEF OpenStage
  <2>3. journal' = journal
    BY <1>1 DEF OpenStage
  <2> QED
    BY <1>0, <1>1, <2>2, <2>3 DEF OpenStage, JournalInMemory, StageDurable,
       JournalDurable, Min2
<1>2. CASE SaveJournal
  <2>1. journal'.bytes = 0 /\ UNCHANGED <<stage, staged>>
    BY <1>0, <1>2 DEF SaveJournal, JournalInMemory, Journals
  <2> QED BY <1>0, <2>1 DEF StageDurable, JournalDurable
<1>3. CASE ReadPage
  <2>1. PICK n \in 0..PageSize, P \in Answers(jn.offset, jn.minID) :
            \E ids \in [1..n -> IDs] :
               /\ Listing(ids, {id \in InRange(P, jn.minID, jn.start) : ~Unchanged(id)})
               /\ stage' = stage \o Encoded(ids)
    BY <1>3 DEF ReadPage
  <2>2. PICK ids \in [1..n -> IDs] :
               /\ Listing(ids, {id \in InRange(P, jn.minID, jn.start) : ~Unchanged(id)})
               /\ stage' = stage \o Encoded(ids)
    BY <2>1
  <2>3. Encoded(ids) \in Seq(Records)
    BY <2>1, <2>2, PageRecordsType, BoundsAssumption DEF InRange
  <2>4. Len(stage') = Len(stage) + Len(Encoded(ids)) /\ Len(Encoded(ids)) \in Nat
    BY <1>0, <2>2, <2>3, ConcatProperties, LenProperties
  <2> QED BY <1>0, <1>3, <2>4 DEF ReadPage, StageDurable, JournalDurable
<1>4. CASE CheckpointPage \/ MarkReady
  <2>1. journal'.bytes = Len(stage) /\ staged' = Len(stage) /\ stage' = stage
    BY <1>0, <1>4 DEF CheckpointPage, MarkReady, Journals
  <2> QED BY <1>0, <2>1 DEF StageDurable, JournalDurable
<1>5. CASE Plan
  <2>1. /\ journal'.bytes = jn.bytes /\ UNCHANGED <<stage, staged>>
        /\ jn = journal /\ journal.phase # "absent"
    BY <1>0, <1>5 DEF Plan, Journals, JournalInMemory, Staging
  <2> QED BY <2>1 DEF StageDurable, JournalDurable
<1>6. CASE RemoveJournal
  <2>1. journal'.phase = "absent" /\ UNCHANGED <<stage, staged>>
    BY <1>6 DEF RemoveJournal, NoJournal
  <2> QED BY <2>1 DEF StageDurable, JournalDurable
<1>7. CASE RemoveStage
  <2>1. Len(stage') = 0 /\ staged' = 0 /\ journal'.phase = "absent"
    BY <1>7 DEF RemoveStage, JournalInMemory
  <2> QED BY <2>1 DEF StageDurable, JournalDurable
<1>8. CASE Crash
  <2>1. journal' = journal
    BY <1>8 DEF Crash
  <2>2. CASE Lose
    <3>1. PICK n \in staged..Len(stage) : stage' = Prefix(stage, n) /\ staged' = n
      BY <2>2 DEF Lose
    <3>2. n \in 0..Len(stage) /\ n >= staged
      BY <1>0, <3>1
    <3>3. Len(stage') = n
      BY <1>0, <3>1, <3>2, PrefixType
    <3> QED BY <1>0, <2>1, <3>1, <3>2, <3>3 DEF StageDurable, JournalDurable
  <2>3. CASE UNCHANGED <<stage, staged>>
    BY <2>1, <2>3 DEF StageDurable, JournalDurable
  <2> QED BY <1>8, <2>2, <2>3 DEF Crash
<1>9. CASE UNCHANGED <<stage, staged, journal>>
  BY <1>9 DEF StageDurable, JournalDurable
<1>10. ASSUME NEW o \in Options, Start(o) PROVE UNCHANGED <<stage, staged, journal>>
  BY <1>10 DEF Start, StartIncremental, StartFull, disk
<1>11. Environment \/ UNCHANGED vars => UNCHANGED <<stage, staged, journal>>
  BY DEF Environment, Post, Edit, Delete, vars, disk
<1>12. \/ Verify \/ Mark \/ Compare \/ Copy \/ Flush \/ Commit \/ Unmark \/ Refuse
       \/ OpenOutput \/ ReadHistoryPage \/ CheckpointHistory \/ Finish
       => UNCHANGED <<stage, staged, journal>>
  BY DEF Verify, Mark, Compare, Copy, Flush, Commit, Unmark, Refuse, OpenOutput,
     ReadHistoryPage, CheckpointHistory, Finish, disk
<1> QED
  BY <1>1, <1>2, <1>3, <1>4, <1>5, <1>6, <1>7, <1>8, <1>9, <1>10, <1>11, <1>12
     DEF Next, Step

\* Every behaviour keeps the inductive invariant.
LEMMA Invariance == Spec => []IInv
<1>1. IInv /\ [Next]_vars => IInv'
  BY TypeStep, SizesStep, JournalStep, StageStep DEF IInv
<1> QED BY <1>1, InitInv, PTL DEF Spec

\* Every variable keeps its type: whatever is interrupted, files, checkpoints
\* and journals stay well formed.
THEOREM TypeCorrect == Spec => []TypeOK
<1>1. IInv => TypeOK
  BY DEF IInv
<1> QED BY <1>1, Invariance, PTL

\* A resumed run finds what the journal promises: the check against a stage
\* shorter than its durable checkpoint (incremental.go:99) never fails.
THEOREM JournalIsDurable == Spec => []JournalDurable
<1>1. IInv => JournalDurable
  BY DEF IInv
<1> QED BY <1>1, Invariance, PTL
=============================================================================
