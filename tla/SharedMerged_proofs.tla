------------------------- MODULE SharedMerged_proofs -------------------------
(***************************************************************************)
(* Proofs about two chats that publish to one merged output, for every     *)
(* value of the constants, as long as no run walks the full history (--all *)
(* and --reset truncate or repeat what the other chat's state counts on).  *)
(* Each chat keeps its own invariant by its own steps, and by the other's: *)
(* what a step of one promises (Guarantee) is what the other relies on     *)
(* (Rely).  Both are in SharedOutput_proofs.                               *)
(***************************************************************************)
EXTENDS SharedMerged, TLAPS

\* Each chat as SharedOutput_proofs sees it: the records that the other one has
\* committed come with its own.
PA == INSTANCE SharedOutput_proofs WITH
        Self <- "a", Outputs <- <<"a.jsonl", "merged.jsonl">>,
        msgs <- msgsA, head <- headA, state <- stateA,
        journal <- journalA, stage <- stageA, staged <- stagedA,
        pc <- pcA, opt <- optA, st <- stA, jn <- jnA, top <- topA,
        offset <- offsetA, page <- pageA, pos <- posA, spent <- spentA,
        others <- stateB.records

PB == INSTANCE SharedOutput_proofs WITH
        Self <- "b", Outputs <- <<"b.jsonl", "merged.jsonl">>,
        msgs <- msgsB, head <- headB, state <- stateB,
        journal <- journalB, stage <- stageB, staged <- stagedB,
        pc <- pcB, opt <- optB, st <- stB, jn <- jnB, top <- topB,
        offset <- offsetB, page <- pageB, pos <- posB, spent <- spentB,
        others <- stateA.records

\* No run walks the full history.
NoFullWalk == \A o \in Options : ~o.all /\ ~o.reset

\* Both chats' invariants.
BothInv == PA!AmongInv /\ PB!AmongInv

(***************************************************************************)
(* The chats of SharedMerged are those of SharedOutput_proofs              *)
(***************************************************************************)

\* What ChatSync assumes of its constants holds of each chat.
LEMMA Constants ==
    /\ "a" \in Owners /\ "b" \in Owners /\ NoOwner \notin Owners
    /\ Paths = {"a.jsonl", "b.jsonl", "merged.jsonl"}
    /\ \A s \in {"a.jsonl", "b.jsonl"} :
           LET outputs == <<s, "merged.jsonl">> IN
           /\ outputs \in Seq(Paths) /\ Len(outputs) = 2 /\ Len(outputs) \in 1..2
           /\ outputs[1] = s /\ outputs[2] = "merged.jsonl"
           /\ \A i, j \in DOMAIN outputs : outputs[i] = outputs[j] => i = j
BY NoOwnerAssumption DEF Owners, Paths

\* The steps of chat "a" are the same on either side.
LEMMA StepsA == A!Next => PA!Next
<1>1. A!Post => PA!Post
  BY DEF
     A!Post, A!disk, A!memory, PA!Post, PA!disk, PA!memory
<1>2. A!Edit => PA!Edit
  BY DEF
     A!Edit, A!IDs, A!disk, A!memory, PA!Edit, PA!IDs, PA!disk, PA!memory
<1>3. A!Delete => PA!Delete
  BY DEF
     A!Delete, A!IDs, A!disk, A!memory, PA!Delete, PA!IDs, PA!disk, PA!memory
<1>4. \A o \in Options : A!StartIncremental(o) => PA!StartIncremental(o)
  BY DEF
     A!StartIncremental, A!Acquire, A!NoJournal, A!RunMinID, A!RunStart,
     A!Committed, A!SizesHold, A!Newest, A!telegram, A!disk, A!Mine, A!NoPage,
     A!ZeroState, A!Adopts, A!IncrementalMinID, A!IDs, A!Stale,
     PA!StartIncremental, PA!Acquire, PA!NoJournal, PA!RunMinID, PA!RunStart,
     PA!Committed, PA!SizesHold, PA!Newest, PA!telegram, PA!disk, PA!Mine,
     PA!NoPage, PA!ZeroState, PA!Adopts, PA!IncrementalMinID, PA!IDs, PA!Stale
<1>5. \A o \in Options : A!StartFull(o) => PA!StartFull(o)
  BY DEF
     A!StartFull, A!Acquire, A!ZeroState, A!NoJournal, A!Newest, A!telegram,
     A!disk, A!Mine, A!NoPage, A!IDs, PA!StartFull, PA!Acquire, PA!ZeroState,
     PA!NoJournal, PA!Newest, PA!telegram, PA!disk, PA!Mine, PA!NoPage, PA!IDs
<1>6. A!OpenStage => PA!OpenStage
  BY DEF
     A!OpenStage, A!Prefix, A!Min2, A!telegram, A!memory, PA!OpenStage,
     PA!Prefix, PA!Min2, PA!telegram, PA!memory
<1>7. A!SaveJournal => PA!SaveJournal
  BY DEF
     A!SaveJournal, A!telegram, PA!SaveJournal, PA!telegram
<1>8. A!ReadPage => PA!ReadPage
  BY DEF
     A!ReadPage, A!Full, A!Answers, A!IDs, A!Listing, A!InRange, A!Unchanged,
     A!Encoded, A!ReportPage, A!telegram, A!Known, A!LastStored, A!RecordOf,
     A!MaybeID, A!IsLowest, A!IsHighest, A!WalkDone, A!Stored, A!Stream,
     A!Cardinality, PA!ReadPage, PA!Full, PA!Answers, PA!IDs, PA!Listing,
     PA!InRange, PA!Unchanged, PA!Encoded, PA!ReportPage, PA!telegram,
     PA!Known, PA!LastStored, PA!RecordOf, PA!MaybeID, PA!IsLowest,
     PA!IsHighest, PA!WalkDone, PA!Stored, PA!Stream, PA!Cardinality
<1>9. A!CheckpointPage => PA!CheckpointPage
  BY DEF
     A!CheckpointPage, A!Full, A!Max2, A!telegram, PA!CheckpointPage, PA!Full,
     PA!Max2, PA!telegram
<1>10. A!MarkReady => PA!MarkReady
  BY DEF
     A!MarkReady, A!telegram, PA!MarkReady, PA!telegram
<1>11. A!Plan => PA!Plan
  BY DEF
     A!Plan, A!NextState, A!Mine, A!telegram, A!NextLastID, A!Fresh, A!Max2,
     A!Stale, A!Recovered, A!Stamps, PA!Plan, PA!NextState, PA!Mine,
     PA!telegram, PA!NextLastID, PA!Fresh, PA!Max2, PA!Stale, PA!Recovered,
     PA!Stamps
<1>12. A!Verify => PA!Verify
  BY DEF
     A!Verify, A!SizesFit, A!telegram, A!disk, A!memory, A!Mine, PA!Verify,
     PA!SizesFit, PA!telegram, PA!disk, PA!memory, PA!Mine
<1>13. A!Mark => PA!Mark
  BY DEF
     A!Mark, A!Full, A!telegram, PA!Mark, PA!Full, PA!telegram
<1>14. A!Compare => PA!Compare
  BY DEF
     A!Compare, A!Mine, A!SuffixOurs, A!telegram, A!disk, PA!Compare, PA!Mine,
     PA!SuffixOurs, PA!telegram, PA!disk
<1>15. A!Copy => PA!Copy
  BY DEF
     A!Copy, A!Overwrite, A!telegram, A!memory, A!Prefix, PA!Copy,
     PA!Overwrite, PA!telegram, PA!memory, PA!Prefix
<1>16. A!Flush => PA!Flush
  BY DEF
     A!Flush, A!telegram, PA!Flush, PA!telegram
<1>17. A!Commit => PA!Commit
  BY DEF
     A!Commit, A!telegram, PA!Commit, PA!telegram
<1>18. A!Unmark => PA!Unmark
  BY DEF
     A!Unmark, A!Full, A!Leave, A!telegram, A!Mine, A!NoOpt, A!ZeroState,
     A!NoJournal, A!NoPage, PA!Unmark, PA!Full, PA!Leave, PA!telegram,
     PA!Mine, PA!NoOpt, PA!ZeroState, PA!NoJournal, PA!NoPage
<1>19. A!RemoveJournal => PA!RemoveJournal
  BY DEF
     A!RemoveJournal, A!NoJournal, A!telegram, A!memory, A!ZeroState,
     PA!RemoveJournal, PA!NoJournal, PA!telegram, PA!memory, PA!ZeroState
<1>20. A!RemoveStage => PA!RemoveStage
  BY DEF
     A!RemoveStage, A!Leave, A!telegram, A!Mine, A!NoOpt, A!ZeroState,
     A!NoJournal, A!NoPage, PA!RemoveStage, PA!Leave, PA!telegram, PA!Mine,
     PA!NoOpt, PA!ZeroState, PA!NoJournal, PA!NoPage
<1>21. A!OpenOutput => PA!OpenOutput
  BY DEF
     A!OpenOutput, A!telegram, PA!OpenOutput, PA!telegram
<1>22. A!ReadHistoryPage => PA!ReadHistoryPage
  BY DEF
     A!ReadHistoryPage, A!Full, A!Answers, A!IDs, A!Listing, A!Emitted,
     A!Encoded, A!ReportPage, A!telegram, A!Mine, A!RecordOf, A!MaybeID,
     A!IsLowest, A!IsHighest, A!InRange, A!WalkDone, A!Known, A!Stored,
     A!Stream, A!Cardinality, PA!ReadHistoryPage, PA!Full, PA!Answers, PA!IDs,
     PA!Listing, PA!Emitted, PA!Encoded, PA!ReportPage, PA!telegram, PA!Mine,
     PA!RecordOf, PA!MaybeID, PA!IsLowest, PA!IsHighest, PA!InRange,
     PA!WalkDone, PA!Known, PA!Stored, PA!Stream, PA!Cardinality
<1>23. A!CheckpointHistory => PA!CheckpointHistory
  BY DEF
     A!CheckpointHistory, A!Full, A!Mine, A!Backfilled, A!Summed, A!telegram,
     A!Max2, A!Fresh, A!Stamps, PA!CheckpointHistory, PA!Full, PA!Mine,
     PA!Backfilled, PA!Summed, PA!telegram, PA!Max2, PA!Fresh, PA!Stamps
<1>24. A!Finish => PA!Finish
  BY DEF
     A!Finish, A!Mine, A!Fresh, A!telegram, A!Stamps, PA!Finish, PA!Mine,
     PA!Fresh, PA!telegram, PA!Stamps
<1>25. A!Refuse => PA!Refuse
  BY DEF
     A!Refuse, A!CheckFails, A!Leave, A!telegram, A!disk, A!SizesFit, A!Mine,
     A!SuffixOurs, A!NoOpt, A!ZeroState, A!NoJournal, A!NoPage, PA!Refuse,
     PA!CheckFails, PA!Leave, PA!telegram, PA!disk, PA!SizesFit, PA!Mine,
     PA!SuffixOurs, PA!NoOpt, PA!ZeroState, PA!NoJournal, PA!NoPage
<1>26. A!Crash => PA!Crash
  BY DEF
     A!Crash, A!Lose, A!Leave, A!telegram, A!Prefix, A!Mine, A!NoOpt,
     A!ZeroState, A!NoJournal, A!NoPage, PA!Crash, PA!Lose, PA!Leave,
     PA!telegram, PA!Prefix, PA!Mine, PA!NoOpt, PA!ZeroState, PA!NoJournal,
     PA!NoPage
<1> QED
  BY <1>1, <1>2, <1>3, <1>4, <1>5, <1>6, <1>7, <1>8, <1>9, <1>10, <1>11, <1>12,
     <1>13, <1>14, <1>15, <1>16, <1>17, <1>18, <1>19, <1>20, <1>21, <1>22,
     <1>23, <1>24, <1>25, <1>26
     DEF A!Next, A!Environment, A!Start, A!Step, PA!Next, PA!Environment,
         PA!Start, PA!Step

\* The steps of chat "b" are the same on either side.
LEMMA StepsB == B!Next => PB!Next
<1>1. B!Post => PB!Post
  BY DEF
     B!Post, B!disk, B!memory, PB!Post, PB!disk, PB!memory
<1>2. B!Edit => PB!Edit
  BY DEF
     B!Edit, B!IDs, B!disk, B!memory, PB!Edit, PB!IDs, PB!disk, PB!memory
<1>3. B!Delete => PB!Delete
  BY DEF
     B!Delete, B!IDs, B!disk, B!memory, PB!Delete, PB!IDs, PB!disk, PB!memory
<1>4. \A o \in Options : B!StartIncremental(o) => PB!StartIncremental(o)
  BY DEF
     B!StartIncremental, B!Acquire, B!NoJournal, B!RunMinID, B!RunStart,
     B!Committed, B!SizesHold, B!Newest, B!telegram, B!disk, B!Mine, B!NoPage,
     B!ZeroState, B!Adopts, B!IncrementalMinID, B!IDs, B!Stale,
     PB!StartIncremental, PB!Acquire, PB!NoJournal, PB!RunMinID, PB!RunStart,
     PB!Committed, PB!SizesHold, PB!Newest, PB!telegram, PB!disk, PB!Mine,
     PB!NoPage, PB!ZeroState, PB!Adopts, PB!IncrementalMinID, PB!IDs, PB!Stale
<1>5. \A o \in Options : B!StartFull(o) => PB!StartFull(o)
  BY DEF
     B!StartFull, B!Acquire, B!ZeroState, B!NoJournal, B!Newest, B!telegram,
     B!disk, B!Mine, B!NoPage, B!IDs, PB!StartFull, PB!Acquire, PB!ZeroState,
     PB!NoJournal, PB!Newest, PB!telegram, PB!disk, PB!Mine, PB!NoPage, PB!IDs
<1>6. B!OpenStage => PB!OpenStage
  BY DEF
     B!OpenStage, B!Prefix, B!Min2, B!telegram, B!memory, PB!OpenStage,
     PB!Prefix, PB!Min2, PB!telegram, PB!memory
<1>7. B!SaveJournal => PB!SaveJournal
  BY DEF
     B!SaveJournal, B!telegram, PB!SaveJournal, PB!telegram
<1>8. B!ReadPage => PB!ReadPage
  BY DEF
     B!ReadPage, B!Full, B!Answers, B!IDs, B!Listing, B!InRange, B!Unchanged,
     B!Encoded, B!ReportPage, B!telegram, B!Known, B!LastStored, B!RecordOf,
     B!MaybeID, B!IsLowest, B!IsHighest, B!WalkDone, B!Stored, B!Stream,
     B!Cardinality, PB!ReadPage, PB!Full, PB!Answers, PB!IDs, PB!Listing,
     PB!InRange, PB!Unchanged, PB!Encoded, PB!ReportPage, PB!telegram,
     PB!Known, PB!LastStored, PB!RecordOf, PB!MaybeID, PB!IsLowest,
     PB!IsHighest, PB!WalkDone, PB!Stored, PB!Stream, PB!Cardinality
<1>9. B!CheckpointPage => PB!CheckpointPage
  BY DEF
     B!CheckpointPage, B!Full, B!Max2, B!telegram, PB!CheckpointPage, PB!Full,
     PB!Max2, PB!telegram
<1>10. B!MarkReady => PB!MarkReady
  BY DEF
     B!MarkReady, B!telegram, PB!MarkReady, PB!telegram
<1>11. B!Plan => PB!Plan
  BY DEF
     B!Plan, B!NextState, B!Mine, B!telegram, B!NextLastID, B!Fresh, B!Max2,
     B!Stale, B!Recovered, B!Stamps, PB!Plan, PB!NextState, PB!Mine,
     PB!telegram, PB!NextLastID, PB!Fresh, PB!Max2, PB!Stale, PB!Recovered,
     PB!Stamps
<1>12. B!Verify => PB!Verify
  BY DEF
     B!Verify, B!SizesFit, B!telegram, B!disk, B!memory, B!Mine, PB!Verify,
     PB!SizesFit, PB!telegram, PB!disk, PB!memory, PB!Mine
<1>13. B!Mark => PB!Mark
  BY DEF
     B!Mark, B!Full, B!telegram, PB!Mark, PB!Full, PB!telegram
<1>14. B!Compare => PB!Compare
  BY DEF
     B!Compare, B!Mine, B!SuffixOurs, B!telegram, B!disk, PB!Compare, PB!Mine,
     PB!SuffixOurs, PB!telegram, PB!disk
<1>15. B!Copy => PB!Copy
  BY DEF
     B!Copy, B!Overwrite, B!telegram, B!memory, B!Prefix, PB!Copy,
     PB!Overwrite, PB!telegram, PB!memory, PB!Prefix
<1>16. B!Flush => PB!Flush
  BY DEF
     B!Flush, B!telegram, PB!Flush, PB!telegram
<1>17. B!Commit => PB!Commit
  BY DEF
     B!Commit, B!telegram, PB!Commit, PB!telegram
<1>18. B!Unmark => PB!Unmark
  BY DEF
     B!Unmark, B!Full, B!Leave, B!telegram, B!Mine, B!NoOpt, B!ZeroState,
     B!NoJournal, B!NoPage, PB!Unmark, PB!Full, PB!Leave, PB!telegram,
     PB!Mine, PB!NoOpt, PB!ZeroState, PB!NoJournal, PB!NoPage
<1>19. B!RemoveJournal => PB!RemoveJournal
  BY DEF
     B!RemoveJournal, B!NoJournal, B!telegram, B!memory, B!ZeroState,
     PB!RemoveJournal, PB!NoJournal, PB!telegram, PB!memory, PB!ZeroState
<1>20. B!RemoveStage => PB!RemoveStage
  BY DEF
     B!RemoveStage, B!Leave, B!telegram, B!Mine, B!NoOpt, B!ZeroState,
     B!NoJournal, B!NoPage, PB!RemoveStage, PB!Leave, PB!telegram, PB!Mine,
     PB!NoOpt, PB!ZeroState, PB!NoJournal, PB!NoPage
<1>21. B!OpenOutput => PB!OpenOutput
  BY DEF
     B!OpenOutput, B!telegram, PB!OpenOutput, PB!telegram
<1>22. B!ReadHistoryPage => PB!ReadHistoryPage
  BY DEF
     B!ReadHistoryPage, B!Full, B!Answers, B!IDs, B!Listing, B!Emitted,
     B!Encoded, B!ReportPage, B!telegram, B!Mine, B!RecordOf, B!MaybeID,
     B!IsLowest, B!IsHighest, B!InRange, B!WalkDone, B!Known, B!Stored,
     B!Stream, B!Cardinality, PB!ReadHistoryPage, PB!Full, PB!Answers, PB!IDs,
     PB!Listing, PB!Emitted, PB!Encoded, PB!ReportPage, PB!telegram, PB!Mine,
     PB!RecordOf, PB!MaybeID, PB!IsLowest, PB!IsHighest, PB!InRange,
     PB!WalkDone, PB!Known, PB!Stored, PB!Stream, PB!Cardinality
<1>23. B!CheckpointHistory => PB!CheckpointHistory
  BY DEF
     B!CheckpointHistory, B!Full, B!Mine, B!Backfilled, B!Summed, B!telegram,
     B!Max2, B!Fresh, B!Stamps, PB!CheckpointHistory, PB!Full, PB!Mine,
     PB!Backfilled, PB!Summed, PB!telegram, PB!Max2, PB!Fresh, PB!Stamps
<1>24. B!Finish => PB!Finish
  BY DEF
     B!Finish, B!Mine, B!Fresh, B!telegram, B!Stamps, PB!Finish, PB!Mine,
     PB!Fresh, PB!telegram, PB!Stamps
<1>25. B!Refuse => PB!Refuse
  BY DEF
     B!Refuse, B!CheckFails, B!Leave, B!telegram, B!disk, B!SizesFit, B!Mine,
     B!SuffixOurs, B!NoOpt, B!ZeroState, B!NoJournal, B!NoPage, PB!Refuse,
     PB!CheckFails, PB!Leave, PB!telegram, PB!disk, PB!SizesFit, PB!Mine,
     PB!SuffixOurs, PB!NoOpt, PB!ZeroState, PB!NoJournal, PB!NoPage
<1>26. B!Crash => PB!Crash
  BY DEF
     B!Crash, B!Lose, B!Leave, B!telegram, B!Prefix, B!Mine, B!NoOpt,
     B!ZeroState, B!NoJournal, B!NoPage, PB!Crash, PB!Lose, PB!Leave,
     PB!telegram, PB!Prefix, PB!Mine, PB!NoOpt, PB!ZeroState, PB!NoJournal,
     PB!NoPage
<1> QED
  BY <1>1, <1>2, <1>3, <1>4, <1>5, <1>6, <1>7, <1>8, <1>9, <1>10, <1>11, <1>12,
     <1>13, <1>14, <1>15, <1>16, <1>17, <1>18, <1>19, <1>20, <1>21, <1>22,
     <1>23, <1>24, <1>25, <1>26
     DEF B!Next, B!Environment, B!Start, B!Step, PB!Next, PB!Environment,
         PB!Start, PB!Step

(***************************************************************************)
(* Each chat on its own                                                    *)
(***************************************************************************)

\* The invariant of chat "a" holds at first.
LEMMA InitA == ASSUME Init, NoFullWalk PROVE PA!AmongInv
<1>1. PA!Init /\ stateB.records = 0
  BY DEF Init, A!Init, B!Init, PA!Init, A!ZeroState, B!ZeroState, A!NoJournal,
         B!NoJournal, A!NoPage, B!NoPage, A!NoOpt, B!NoOpt, A!IDs, B!IDs,
         PA!ZeroState, PA!NoJournal, PA!NoPage, PA!NoOpt, PA!IDs
<1>2. PA!Setting
  BY Constants DEF NoFullWalk, PA!Setting
<1> QED
  BY <1>1, <1>2, Constants, BoundsAssumption, OptionsAssumption, PA!InitAmong
     DEF PA!OptionSet, PA!MaybeID

\* A step of chat "a" keeps its invariant and its promise.
LEMMA OwnA ==
    ASSUME PA!AmongInv, A!Next \/ UNCHANGED vars, UNCHANGED varsB
    PROVE  PA!AmongInv' /\ PA!Guarantee
<1>1. [PA!Next]_(PA!vars)
  BY StepsA DEF vars, varsA, files, PA!vars, PA!telegram, PA!disk, PA!memory
<1>2. UNCHANGED stateB.records
  BY DEF varsB
<1> QED
  BY <1>1, <1>2, Constants, BoundsAssumption, OptionsAssumption, PA!OwnStep, PA!GuaranteeStep
     DEF PA!OptionSet, PA!MaybeID

\* A step of the other chat keeps the invariant of chat "a".
LEMMA KeptA == ASSUME PA!AmongInv, PA!Rely PROVE PA!AmongInv'
BY Constants, BoundsAssumption, OptionsAssumption, PA!RelyStep DEF PA!OptionSet, PA!MaybeID

\* The outputs of chat "a", and the records accounted for in them.
LEMMA OutputsA ==
    ASSUME PA!AmongInv
    PROVE  /\ PA!Stream = "a.jsonl" /\ PA!Shared = Merged
           /\ PA!Mine = {"a.jsonl", Merged}
           /\ PA!OutputsOK /\ PA!MarkersOK /\ PA!LocksOK
           /\ stateA.records \in Nat /\ stateB.records \in Nat
           /\ PA!Before(PA!Shared) = stateA.records + stateB.records
<1>1. PA!Stream = "a.jsonl" /\ PA!Shared = Merged
  BY DEF PA!Stream, PA!Shared, Merged
<1>2. PA!Mine = {PA!Stream, PA!Shared}
  BY Constants, BoundsAssumption, OptionsAssumption, PA!TwoOutputs
     DEF PA!OptionSet, PA!MaybeID, PA!AmongInv
<1>3. stateA \in PA!SyncStates /\ stateB.records \in Nat
  BY DEF PA!AmongInv, PA!IInv, PA!TypeOK, PA!CheckpointsOK
<1> QED
  BY <1>1, <1>2, <1>3
     DEF Merged, PA!AmongInv, PA!IInv, PA!TypeOK, PA!SyncStates, PA!Before

\* The invariant of chat "b" holds at first.
LEMMA InitB == ASSUME Init, NoFullWalk PROVE PB!AmongInv
<1>1. PB!Init /\ stateA.records = 0
  BY DEF Init, A!Init, B!Init, PB!Init, A!ZeroState, B!ZeroState, A!NoJournal,
         B!NoJournal, A!NoPage, B!NoPage, A!NoOpt, B!NoOpt, A!IDs, B!IDs,
         PB!ZeroState, PB!NoJournal, PB!NoPage, PB!NoOpt, PB!IDs
<1>2. PB!Setting
  BY Constants DEF NoFullWalk, PB!Setting
<1> QED
  BY <1>1, <1>2, Constants, BoundsAssumption, OptionsAssumption, PB!InitAmong
     DEF PB!OptionSet, PB!MaybeID

\* A step of chat "b" keeps its invariant and its promise.
LEMMA OwnB ==
    ASSUME PB!AmongInv, B!Next \/ UNCHANGED vars, UNCHANGED varsA
    PROVE  PB!AmongInv' /\ PB!Guarantee
<1>1. [PB!Next]_(PB!vars)
  BY StepsB DEF vars, varsB, files, PB!vars, PB!telegram, PB!disk, PB!memory
<1>2. UNCHANGED stateA.records
  BY DEF varsA
<1> QED
  BY <1>1, <1>2, Constants, BoundsAssumption, OptionsAssumption, PB!OwnStep, PB!GuaranteeStep
     DEF PB!OptionSet, PB!MaybeID

\* A step of the other chat keeps the invariant of chat "b".
LEMMA KeptB == ASSUME PB!AmongInv, PB!Rely PROVE PB!AmongInv'
BY Constants, BoundsAssumption, OptionsAssumption, PB!RelyStep DEF PB!OptionSet, PB!MaybeID

\* The outputs of chat "b", and the records accounted for in them.
LEMMA OutputsB ==
    ASSUME PB!AmongInv
    PROVE  /\ PB!Stream = "b.jsonl" /\ PB!Shared = Merged
           /\ PB!Mine = {"b.jsonl", Merged}
           /\ PB!OutputsOK /\ PB!MarkersOK /\ PB!LocksOK
           /\ stateB.records \in Nat /\ stateA.records \in Nat
           /\ PB!Before(PB!Shared) = stateB.records + stateA.records
<1>1. PB!Stream = "b.jsonl" /\ PB!Shared = Merged
  BY DEF PB!Stream, PB!Shared, Merged
<1>2. PB!Mine = {PB!Stream, PB!Shared}
  BY Constants, BoundsAssumption, OptionsAssumption, PB!TwoOutputs
     DEF PB!OptionSet, PB!MaybeID, PB!AmongInv
<1>3. stateB \in PB!SyncStates /\ stateA.records \in Nat
  BY DEF PB!AmongInv, PB!IInv, PB!TypeOK, PB!CheckpointsOK
<1> QED
  BY <1>1, <1>2, <1>3
     DEF Merged, PB!AmongInv, PB!IInv, PB!TypeOK, PB!SyncStates, PB!Before

(***************************************************************************)
(* Each chat relies on the other                                           *)
(***************************************************************************)

\* What chat "a" promises is what chat "b" relies on.
LEMMA RelyOnA ==
    ASSUME PA!AmongInv, PB!AmongInv, PA!AmongInv', PA!Guarantee, UNCHANGED varsB
    PROVE  PB!Rely
<1>1. /\ PA!Shared = Merged /\ PA!Mine = {"a.jsonl", Merged} /\ Merged \in PA!Mine
      /\ PB!Stream = "b.jsonl" /\ PB!Shared = Merged /\ Merged # "b.jsonl"
      /\ PA!Stream = "a.jsonl" /\ Merged # "a.jsonl"
      /\ NoOwner # "a" /\ NoOwner # "b" /\ "b.jsonl" \in Paths \ PA!Mine
  BY OutputsA, OutputsB, Constants DEF Merged, Owners
<1>2. /\ stateA.records \in Nat /\ stateB.records \in Nat
      /\ stateA'.records \in Nat /\ stateB'.records = stateB.records
  <2>1. stateA' \in PA!SyncStates
    BY DEF PA!AmongInv, PA!IInv, PA!TypeOK, PA!CheckpointsOK
  <2> QED BY <2>1, OutputsA DEF PA!SyncStates, varsB
<1>3. /\ PA!Before(Merged) = stateA.records + stateB.records
      /\ PA!Before(Merged)' = stateA'.records + stateB'.records
      /\ PB!Before(Merged) = PA!Before(Merged)
      /\ PB!Before(Merged)' = PA!Before(Merged)'
  BY <1>1, <1>2 DEF PA!Before, PB!Before
<1>4. UNCHANGED <<PB!telegram, stateB, journalB, stageB, stagedB, pcB, PB!memory, spentB>>
  BY DEF varsB, PB!telegram, PB!memory
<1>5. PB!OutputsOK' /\ PB!MarkersOK' /\ PB!LocksOK'
  BY DEF PA!AmongInv, PA!IInv, PA!TypeOK, PA!OutputsOK, PA!MarkersOK, PA!LocksOK,
         PA!Records, PA!IDs, PB!OutputsOK, PB!MarkersOK, PB!LocksOK, PB!Records, PB!IDs
<1>6. \A i \in 1..PB!Before(PB!Shared) : out'[PB!Shared][i] = out[PB!Shared][i]
  BY <1>1, <1>3 DEF PA!Guarantee
<1>7. \A i \in PB!Before(PB!Shared) + 1..PB!Before(PB!Shared)' : out'[PB!Shared][i].owner # "b"
  <2>1. \A i \in PA!Before(Merged) + 1..PA!Before(Merged)' : out'[Merged][i].owner = "a"
    BY <1>1 DEF PA!Guarantee
  <2> QED BY <1>1, <1>3, <2>1
<1>8. marker[Merged] = "b" \/ holder[Merged] = "b" => UNCHANGED <<stateA, out, synced, marker, holder>>
  BY <1>1 DEF PA!Guarantee, PA!Barred
<1>9. /\ out'["b.jsonl"] = out["b.jsonl"] /\ synced'["b.jsonl"] = synced["b.jsonl"]
      /\ marker'["b.jsonl"] = marker["b.jsonl"] /\ holder'["b.jsonl"] = holder["b.jsonl"]
      /\ marker'[Merged] \in {marker[Merged], NoOwner, "a"}
      /\ stateA.records <= stateA'.records
  BY <1>1 DEF PA!Guarantee
<1>10. /\ PA!Before(Merged)' <= synced'[Merged] /\ synced'[Merged] <= Len(out'[Merged])
       /\ marker'[Merged] = NoOwner => Len(out'[Merged]) = PA!Before(Merged)'
  BY <1>1 DEF PA!AmongInv, PA!Accounted, PA!Ours
<1> QED BY <1>1, <1>2, <1>3, <1>4, <1>5, <1>6, <1>7, <1>8, <1>9, <1>10 DEF PB!Rely

\* What chat "b" promises is what chat "a" relies on.
LEMMA RelyOnB ==
    ASSUME PB!AmongInv, PA!AmongInv, PB!AmongInv', PB!Guarantee, UNCHANGED varsA
    PROVE  PA!Rely
<1>1. /\ PB!Shared = Merged /\ PB!Mine = {"b.jsonl", Merged} /\ Merged \in PB!Mine
      /\ PA!Stream = "a.jsonl" /\ PA!Shared = Merged /\ Merged # "a.jsonl"
      /\ PB!Stream = "b.jsonl" /\ Merged # "b.jsonl"
      /\ NoOwner # "a" /\ NoOwner # "b" /\ "a.jsonl" \in Paths \ PB!Mine
  BY OutputsB, OutputsA, Constants DEF Merged, Owners
<1>2. /\ stateB.records \in Nat /\ stateA.records \in Nat
      /\ stateB'.records \in Nat /\ stateA'.records = stateA.records
  <2>1. stateB' \in PB!SyncStates
    BY DEF PB!AmongInv, PB!IInv, PB!TypeOK, PB!CheckpointsOK
  <2> QED BY <2>1, OutputsB DEF PB!SyncStates, varsA
<1>3. /\ PB!Before(Merged) = stateB.records + stateA.records
      /\ PB!Before(Merged)' = stateB'.records + stateA'.records
      /\ PA!Before(Merged) = PB!Before(Merged)
      /\ PA!Before(Merged)' = PB!Before(Merged)'
  BY <1>1, <1>2 DEF PB!Before, PA!Before
<1>4. UNCHANGED <<PA!telegram, stateA, journalA, stageA, stagedA, pcA, PA!memory, spentA>>
  BY DEF varsA, PA!telegram, PA!memory
<1>5. PA!OutputsOK' /\ PA!MarkersOK' /\ PA!LocksOK'
  BY DEF PB!AmongInv, PB!IInv, PB!TypeOK, PB!OutputsOK, PB!MarkersOK, PB!LocksOK,
         PB!Records, PB!IDs, PA!OutputsOK, PA!MarkersOK, PA!LocksOK, PA!Records, PA!IDs
<1>6. \A i \in 1..PA!Before(PA!Shared) : out'[PA!Shared][i] = out[PA!Shared][i]
  BY <1>1, <1>3 DEF PB!Guarantee
<1>7. \A i \in PA!Before(PA!Shared) + 1..PA!Before(PA!Shared)' : out'[PA!Shared][i].owner # "a"
  <2>1. \A i \in PB!Before(Merged) + 1..PB!Before(Merged)' : out'[Merged][i].owner = "b"
    BY <1>1 DEF PB!Guarantee
  <2> QED BY <1>1, <1>3, <2>1
<1>8. marker[Merged] = "a" \/ holder[Merged] = "a" => UNCHANGED <<stateB, out, synced, marker, holder>>
  BY <1>1 DEF PB!Guarantee, PB!Barred
<1>9. /\ out'["a.jsonl"] = out["a.jsonl"] /\ synced'["a.jsonl"] = synced["a.jsonl"]
      /\ marker'["a.jsonl"] = marker["a.jsonl"] /\ holder'["a.jsonl"] = holder["a.jsonl"]
      /\ marker'[Merged] \in {marker[Merged], NoOwner, "b"}
      /\ stateB.records <= stateB'.records
  BY <1>1 DEF PB!Guarantee
<1>10. /\ PB!Before(Merged)' <= synced'[Merged] /\ synced'[Merged] <= Len(out'[Merged])
       /\ marker'[Merged] = NoOwner => Len(out'[Merged]) = PB!Before(Merged)'
  BY <1>1 DEF PB!AmongInv, PB!Accounted, PB!Ours
<1> QED BY <1>1, <1>2, <1>3, <1>4, <1>5, <1>6, <1>7, <1>8, <1>9, <1>10 DEF PA!Rely

\* A step of chat "a" keeps both invariants.
LEMMA StepA == ASSUME BothInv, A!Next \/ UNCHANGED vars, UNCHANGED varsB PROVE BothInv'
BY OwnA, RelyOnA, KeptB DEF BothInv

\* A step of chat "b" keeps both invariants.
LEMMA StepB == ASSUME BothInv, B!Next \/ UNCHANGED vars, UNCHANGED varsA PROVE BothInv'
BY OwnB, RelyOnB, KeptA DEF BothInv

\* Both invariants hold always.
LEMMA Both == ASSUME NoFullWalk PROVE Spec => []BothInv
<1>1. Init => BothInv
  BY InitA, InitB DEF BothInv
<1>2. BothInv /\ [Next]_vars => BothInv'
  BY StepA, StepB DEF Next, NextA, NextB, vars
<1> QED BY <1>1, <1>2, PTL DEF Spec

(***************************************************************************)
(* The theorems                                                            *)
(***************************************************************************)

\* The records of chat "a" in the merged output.
LEMMA MergedA == ASSUME PA!AmongInv PROVE InMerged("a", out["a.jsonl"], stateA.records)
<1> DEFINE n == stateA.records
           places == PlacesOf("a")
<1>1. PA!Stream = "a.jsonl" /\ PA!Shared = Merged
  BY OutputsA
<1>2. places = PA!Places
  BY <1>1 DEF PlacesOf, PA!Places
<1> HIDE DEF places
<1>3. \E place \in [1..n -> places] :
         /\ \A i, k \in 1..n : i < k => place[i] < place[k]
         /\ \A i \in 1..n : /\ i <= Len(out[PA!Stream])
                           /\ out[PA!Shared][place[i]] = out[PA!Stream][i]
         /\ \A k \in places : \/ \E i \in 1..n : place[i] = k
                              \/ \A i \in 1..n : place[i] < k
  BY <1>2, Constants, BoundsAssumption, OptionsAssumption, PA!CommittedShared
     DEF PA!OptionSet, PA!MaybeID
<1> QED BY <1>1, <1>3 DEF InMerged, places

\* The records of chat "b" in the merged output.
LEMMA MergedB == ASSUME PB!AmongInv PROVE InMerged("b", out["b.jsonl"], stateB.records)
<1> DEFINE n == stateB.records
           places == PlacesOf("b")
<1>1. PB!Stream = "b.jsonl" /\ PB!Shared = Merged
  BY OutputsB
<1>2. places = PB!Places
  BY <1>1 DEF PlacesOf, PB!Places
<1> HIDE DEF places
<1>3. \E place \in [1..n -> places] :
         /\ \A i, k \in 1..n : i < k => place[i] < place[k]
         /\ \A i \in 1..n : /\ i <= Len(out[PB!Stream])
                           /\ out[PB!Shared][place[i]] = out[PB!Stream][i]
         /\ \A k \in places : \/ \E i \in 1..n : place[i] = k
                              \/ \A i \in 1..n : place[i] < k
  BY <1>2, Constants, BoundsAssumption, OptionsAssumption, PB!CommittedShared
     DEF PB!OptionSet, PB!MaybeID
<1> QED BY <1>1, <1>3 DEF InMerged, places

\* What either chat has committed stays in the merged output, in order: no
\* publication of the other chat, interrupted or replayed, overwrites or cuts it.
THEOREM CommittedInMergedTheorem == ASSUME NoFullWalk PROVE Spec => []CommittedInMerged
<1>1. BothInv => CommittedInMerged
  BY MergedA, MergedB DEF BothInv, CommittedInMerged
<1> QED BY <1>1, Both, PTL

\* A merged output that readers accept holds what both chats have committed and
\* nothing else.
THEOREM ReadableMergedTheorem == ASSUME NoFullWalk PROVE Spec => []ReadableMergedIsCommitted
<1>1. BothInv => ReadableMergedIsCommitted
  <2> SUFFICES ASSUME PA!AmongInv, marker[Merged] = NoOwner
               PROVE  Len(out[Merged]) = stateA.records + stateB.records
    BY DEF BothInv, ReadableMergedIsCommitted, A!Readable
  <2>1. PA!Shared = Merged /\ PA!Before(PA!Shared) = stateA.records + stateB.records
    BY OutputsA
  <2>2. Len(out[PA!Shared]) = PA!Before(PA!Shared)
    BY <2>1, Constants, BoundsAssumption, OptionsAssumption, PA!UnmarkedShared
       DEF PA!OptionSet, PA!MaybeID
  <2> QED BY <2>1, <2>2
<1> QED BY <1>1, Both, PTL

\* Readers of the merged output may remember where a record is: what is committed
\* stays at its place, whoever publishes, crashes or resumes.
CommittedPlacesStay ==
    [][\A i \in 1..stateA.records + stateB.records : out'[Merged][i] = out[Merged][i]]_vars

\* No step of either chat moves or replaces what both have committed.
THEOREM CommittedPlacesStayTheorem == ASSUME NoFullWalk PROVE Spec => CommittedPlacesStay
<1>1. ASSUME BothInv, [Next]_vars
      PROVE  \A i \in 1..stateA.records + stateB.records : out'[Merged][i] = out[Merged][i]
  <2>1. CASE NextA
    <3>1. PA!Guarantee
      BY <1>1, <2>1, OwnA DEF BothInv, NextA
    <3> QED BY <1>1, <3>1, OutputsA DEF BothInv, PA!Guarantee
  <2>2. CASE NextB
    <3>1. PB!Guarantee
      BY <1>1, <2>2, OwnB DEF BothInv, NextB
    <3>2. stateB.records + stateA.records = stateA.records + stateB.records
      BY <1>1, OutputsB DEF BothInv
    <3> QED BY <1>1, <3>1, <3>2, OutputsB DEF BothInv, PB!Guarantee
  <2>3. CASE UNCHANGED vars
    BY <2>3 DEF vars, files
  <2> QED BY <1>1, <2>1, <2>2, <2>3 DEF Next
<1> QED BY <1>1, Both, PTL DEF Spec, CommittedPlacesStay

=============================================================================
