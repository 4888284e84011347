---------------------------- MODULE SharedMerged ----------------------------
(***************************************************************************)
(* Two chats whose `sync` runs publish to one --merged-out file, as the    *)
(* study streams do: each has its own state, journal, stage and stream;    *)
(* the merged file, its publication marker and its lock are shared.  Both  *)
(* are instances of ChatSync.  The lock keeps their runs apart, so what    *)
(* interleaves is a run of one chat between two runs of the other, the     *)
(* first of which was interrupted.                                         *)
(***************************************************************************)
EXTENDS Integers, Sequences, FiniteSets

CONSTANTS NoOwner, MaxID, MaxVersion, PageSize, Options,
          MaxCrashes, MaxResets, MaxDeletes

ASSUME BoundsAssumption ==
    /\ MaxID \in Nat \ {0} /\ MaxVersion \in Nat \ {0} /\ PageSize \in Nat \ {0}
    /\ MaxCrashes \in Nat /\ MaxResets \in Nat /\ MaxDeletes \in Nat
ASSUME NoOwnerAssumption == NoOwner \notin {"a", "b"}
ASSUME OptionsAssumption ==
    /\ Options \subseteq [all : BOOLEAN, reset : BOOLEAN, resetMerged : BOOLEAN,
                          start : 0..MaxID]
    /\ \A o \in Options : /\ o.start # 0 => ~o.all /\ ~o.reset
                          /\ o.resetMerged => o.reset

Owners == {"a", "b"}
Paths  == {"a.jsonl", "b.jsonl", "merged.jsonl"}
Merged == "merged.jsonl"

VARIABLES
    msgsA, headA, stateA, journalA, stageA, stagedA, pcA, optA, stA, jnA,
    topA, offsetA, pageA, posA, spentA,
    msgsB, headB, stateB, journalB, stageB, stagedB, pcB, optB, stB, jnB,
    topB, offsetB, pageB, posB, spentB,
    out, synced, marker, holder   \* shared: the output files, markers and locks

varsA == <<msgsA, headA, stateA, journalA, stageA, stagedA, pcA, optA,
          stA, jnA, topA, offsetA, pageA, posA, spentA>>
varsB == <<msgsB, headB, stateB, journalB, stageB, stagedB, pcB, optB,
          stB, jnB, topB, offsetB, pageB, posB, spentB>>
files == <<out, synced, marker, holder>>
vars  == <<varsA, varsB, files>>

A == INSTANCE ChatSync WITH
        Self <- "a", Outputs <- <<"a.jsonl", "merged.jsonl">>,
        msgs <- msgsA, head <- headA, state <- stateA,
        journal <- journalA, stage <- stageA, staged <- stagedA,
        pc <- pcA, opt <- optA, st <- stA, jn <- jnA, top <- topA,
        offset <- offsetA, page <- pageA, pos <- posA, spent <- spentA

B == INSTANCE ChatSync WITH
        Self <- "b", Outputs <- <<"b.jsonl", "merged.jsonl">>,
        msgs <- msgsB, head <- headB, state <- stateB,
        journal <- journalB, stage <- stageB, staged <- stagedB,
        pc <- pcB, opt <- optB, st <- stB, jn <- jnB, top <- topB,
        offset <- offsetB, page <- pageB, pos <- posB, spent <- spentB

Init == A!Init /\ B!Init

NextA == A!Next /\ UNCHANGED varsB
NextB == B!Next /\ UNCHANGED varsA
Next  == NextA \/ NextB

Spec == Init /\ [][Next]_vars

-----------------------------------------------------------------------------
(* Properties *)

\* Where the merged file holds records of a chat.
PlacesOf(c) == {k \in DOMAIN out[Merged] : out[Merged][k].owner = c}

\* The first n records of a chat in the merged file are those of its own stream.
InMerged(c, stream, n) ==
    \E place \in [1..n -> PlacesOf(c)] :
       /\ \A i, k \in 1..n : i < k => place[i] < place[k]
       /\ \A i \in 1..n : i <= Len(stream) /\ out[Merged][place[i]] = stream[i]
       /\ \A k \in PlacesOf(c) : \/ \E i \in 1..n : place[i] = k
                                 \/ \A i \in 1..n : place[i] < k

\* What either chat has committed stays in the merged file: its first Records
\* records of the chat are those of the chat's own stream.  The other chat's
\* publications, interrupted and replayed, neither overwrite nor cut it.
CommittedInMerged ==
    /\ InMerged("a", out["a.jsonl"], stateA.records)
    /\ InMerged("b", out["b.jsonl"], stateB.records)

\* Once readers accept the merged file, it holds the committed records of both
\* chats and nothing else.
ReadableMergedIsCommitted ==
    A!Readable(Merged) => Len(out[Merged]) = stateA.records + stateB.records
=============================================================================
