------------------------- MODULE SharedOutput_proofs -------------------------
(***************************************************************************)
(* Proofs about one chat of ChatSync whose second output is shared with    *)
(* other chats (--merged-out), for every value of the constants: what its  *)
(* own steps keep, what they promise the other chats (Guarantee), and that *)
(* its invariant survives what the other chats promise it (Rely).          *)
(* SharedMerged_proofs puts two such chats together.                       *)
(***************************************************************************)
EXTENDS ChatSync_proofs

VARIABLE others   \* records that the other chats have committed

(***************************************************************************)
(* The invariant of a chat that shares an output                           *)
(***************************************************************************)

\* The stream and the shared output, and no full walk of the history (--all,
\* --reset), which would truncate or repeat what others count on.
Setting == Len(Outputs) = 2 /\ \A o \in Options : ~o.all /\ ~o.reset
Shared  == Outputs[2]

\* The records of an output that some state accounts for.
Before(p) == IF p = Stream THEN state.records ELSE state.records + others

\* A range is on its way to the outputs.
Publishing == journal.phase = "planned" /\ state # journal.next

\* The journal on disk continues the state on disk, and promises what it says.
Continues ==
    /\ journal.phase # "absent" => /\ state = journal.base \/ Committed
                                   /\ journal.added = journal.bytes
    /\ journal.phase = "planned" =>
           /\ journal.next # journal.base
           /\ journal.next.records = journal.base.records + journal.bytes

Writing == {"verify", "mark", "compare", "copy", "flush", "commit"}

\* Where the run is, and which phase the journal is in.
Located ==
    /\ ~Full
    /\ pc \in {"openStage", "saveJournal"} /\ journal.phase = "absent" =>
           jn.base = state /\ jn.bytes = 0 /\ jn.added = 0
    /\ pc \in {"openStage", "saveJournal", "read", "checkpoint", "ready", "plan"} => st = state
    /\ pc = "openStage" /\ journal.phase # "absent" => state = journal.base
    /\ pc \in {"saveJournal", "removeStage"} => journal.phase = "absent"
    /\ pc \in {"read", "checkpoint", "ready"} => journal.phase = "reading"
    /\ pc = "plan" => journal.phase = "ready"
    /\ pc \in Writing => Publishing
    /\ pc \in {"unmark", "removeJournal"} => Committed
    /\ pc \notin {"openOutput", "finish"}
    /\ pc \in {"openStage", "saveJournal", "read", "checkpoint", "ready", "plan", "verify"} =>
           pos = 1
    /\ pc = "saveJournal" => stage = <<>>
    /\ pc \in {"read", "ready", "plan"} \cup Writing => Len(stage) = journal.bytes
    /\ pc = "checkpoint" => Len(stage) = journal.bytes + page.count

\* A run holds the locks of its outputs; it writes to the shared one under its
\* own marker.
Locked ==
    /\ pc # "idle" => /\ \A p \in Mine : holder[p] = Self
                      /\ marker[Shared] \in {NoOwner, Self}
    /\ pc \in {"compare", "copy", "flush", "commit"} => marker[Shared] = Self

\* The stage and the stream hold this chat's records.
OwnRecords ==
    /\ \A i \in 1..Len(stage) : stage[i].owner = Self
    /\ \A i \in 1..state.records : out[Stream][i].owner = Self

\* No other chat is publishing to the output.
Ours(p) == p = Stream \/ marker[p] \in {NoOwner, Self}

\* An output begins with the records that are accounted for, synced.  Past
\* them, unless another chat is publishing, there is at most the beginning of
\* the stage, under this chat's marker.
Accounted ==
    \A p \in Mine :
        /\ Before(p) <= synced[p] /\ synced[p] <= Len(out[p])
        /\ Ours(p) /\ Len(out[p]) # Before(p) =>
               /\ Publishing /\ journal.sizes[p] = Before(p)
               /\ Len(out[p]) <= Before(p) + journal.bytes
               /\ \A i \in 1..Len(out[p]) - Before(p) : out[p][Before(p) + i] = stage[i]
               /\ p = Shared => marker[p] = Self

\* What was committed to an output since its size was planned is another's.
Recorded ==
    Publishing =>
        \A p \in Mine :
            /\ journal.sizes[p] <= Before(p)
            /\ \A k \in journal.sizes[p] + 1..Before(p) : out[p][k].owner # Self

Whole(p) == Len(out[p]) = Before(p) + journal.bytes

\* The outputs before the one at hand are copied and synced.
Copied ==
    /\ pc \in {"copy", "flush", "commit"} => \A p \in Mine : journal.sizes[p] = Before(p)
    /\ pc \in {"copy", "flush"} => \A i \in 1..pos - 1 :
           Whole(Outputs[i]) /\ synced[Outputs[i]] = Len(out[Outputs[i]])
    /\ pc = "flush" => Whole(Outputs[pos])
    /\ pc = "commit" => \A p \in Mine : Whole(p) /\ synced[p] = Len(out[p])

\* The places of the stream's records among the first n of the shared output.
PlacedAt(place, r, n) ==
    /\ place \in [1..r -> 1..n]
    /\ \A i, k \in 1..r : i < k => place[i] < place[k]
    /\ \A i \in 1..r : out[Shared][place[i]] = out[Stream][i]
    /\ \A k \in 1..n : out[Shared][k].owner = Self => \E i \in 1..r : place[i] = k

\* What the state accounts for is in the shared output, in order.
Placed == \E place : PlacedAt(place, state.records, Before(Shared))

AmongInv ==
    /\ Setting /\ others \in Nat /\ IInv
    /\ Continues /\ Located /\ Locked /\ OwnRecords /\ Accounted /\ Recorded /\ Copied
    /\ Placed

(***************************************************************************)
(* What a step of this chat promises the others, and what it relies on     *)
(***************************************************************************)

\* Another chat is at work, or was interrupted while it published.
Barred == marker[Shared] \notin {NoOwner, Self} \/ holder[Shared] \notin {NoOwner, Self}

\* A step of this chat leaves what is committed, adds its own records, and
\* leaves everything alone while another chat has the shared output.
Guarantee ==
    /\ state.records <= state'.records
    /\ \A i \in 1..Before(Shared) : out'[Shared][i] = out[Shared][i]
    /\ \A i \in Before(Shared) + 1..Before(Shared)' : out'[Shared][i].owner = Self
    /\ Barred => UNCHANGED <<state, out, synced, marker, holder>>
    /\ \A p \in Paths \ Mine : /\ out'[p] = out[p] /\ synced'[p] = synced[p]
                               /\ marker'[p] = marker[p] /\ holder'[p] = holder[p]
    /\ marker'[Shared] \in {marker[Shared], NoOwner, Self}

\* A step of another chat, as this one sees it.
Rely ==
    /\ UNCHANGED <<telegram, state, journal, stage, staged, pc, memory, spent>>
    /\ OutputsOK' /\ MarkersOK' /\ LocksOK'
    /\ out'[Stream] = out[Stream] /\ synced'[Stream] = synced[Stream]
    /\ marker'[Stream] = marker[Stream] /\ holder'[Stream] = holder[Stream]
    /\ others' \in Nat /\ others <= others'
    /\ \A i \in 1..Before(Shared) : out'[Shared][i] = out[Shared][i]
    /\ \A i \in Before(Shared) + 1..Before(Shared)' : out'[Shared][i].owner # Self
    /\ marker[Shared] = Self \/ holder[Shared] = Self =>
           /\ out'[Shared] = out[Shared] /\ synced'[Shared] = synced[Shared]
           /\ marker'[Shared] = marker[Shared] /\ holder'[Shared] = holder[Shared]
           /\ others' = others
    /\ marker'[Shared] = Self => marker[Shared] = Self
    /\ Before(Shared)' <= synced'[Shared] /\ synced'[Shared] <= Len(out'[Shared])
    /\ marker'[Shared] = NoOwner => Len(out'[Shared]) = Before(Shared)'

(***************************************************************************)
(* What the invariant says where                                           *)
(***************************************************************************)

\* The stream and the shared output are this chat's outputs.
LEMMA TwoOutputs ==
    ASSUME Setting
    PROVE  /\ Mine = {Stream, Shared} /\ Stream # Shared /\ Mine \subseteq Paths
           /\ Outputs[1] = Stream /\ Outputs[2] = Shared /\ Len(Outputs) = 2
           /\ \A i \in 1..2 : Outputs[i] \in Mine
<1>1. Len(Outputs) = 2 /\ DOMAIN Outputs = 1..2 /\ 1 \in 1..2 /\ 2 \in 1..2 /\ 1..2 = {1, 2}
  BY OutputsAssumption DEF Setting
<1>2. \A i, j \in 1..2 : Outputs[i] = Outputs[j] => i = j
  BY <1>1, OutputsAssumption
<1>3. Outputs[1] # Outputs[2]
  BY <1>1, <1>2
<1> QED BY <1>1, <1>3, ConstantTypes DEF Mine, Stream, Shared

\* The values the steps work with.
LEMMA Values ==
    ASSUME AmongInv
    PROVE  /\ journal \in Journals /\ jn \in Journals /\ state \in SyncStates /\ st \in SyncStates
           /\ stage \in Seq(Records) /\ Len(stage) \in Nat /\ staged \in Nat
           /\ out \in [Paths -> Seq(Records)] /\ synced \in [Paths -> Nat]
           /\ \A p \in Mine : p \in Paths /\ out[p] \in Seq(Records) /\ Len(out[p]) \in Nat
                              /\ synced[p] \in Nat
           /\ Stream \in Mine /\ Shared \in Mine
           /\ pos \in 1..2 /\ pos \in {1, 2} /\ page \in Pages /\ opt \in OptionSet
           /\ marker \in [Paths -> Owners \cup {NoOwner}]
           /\ holder \in [Paths -> Owners \cup {NoOwner}]
<1>1. TypeOK /\ Setting
  BY DEF AmongInv, IInv
<1>2. /\ stage \in Seq(Records) /\ out \in [Paths -> Seq(Records)] /\ Mine \subseteq Paths
  BY <1>1, ConstantTypes DEF TypeOK, StageOK, OutputsOK
<1>3. Len(stage) \in Nat
  BY <1>2, LenProperties
<1>4. \A p \in Mine : p \in Paths /\ out[p] \in Seq(Records)
  BY <1>2
<1>5. \A p \in Mine : Len(out[p]) \in Nat
  BY <1>4, LenProperties
<1>6. pos \in 1..2
  BY <1>1, TwoOutputs DEF TypeOK, RunOK
<1> QED
  BY <1>1, <1>2, <1>3, <1>4, <1>5, <1>6, TwoOutputs
     DEF TypeOK, StageOK, OutputsOK, CheckpointsOK, MemoryOK, RunOK, PageOK, MarkersOK, LocksOK

\* The numbers the steps calculate with.
LEMMA Numbers ==
    ASSUME AmongInv
    PROVE  /\ state.records \in Nat /\ others \in Nat
           /\ journal.bytes \in Nat /\ journal.added \in Nat
           /\ jn.bytes \in Nat /\ jn.added \in Nat /\ page.count \in Nat
           /\ journal.base \in SyncStates /\ journal.next \in SyncStates
           /\ journal.base.records \in Nat /\ journal.next.records \in Nat
           /\ \A p \in Mine : /\ Before(p) \in Nat /\ journal.sizes[p] \in Nat
                              /\ state.records <= Before(p)
           /\ Before(Stream) = state.records /\ Before(Shared) = state.records + others
<1>1. /\ state \in SyncStates /\ journal \in Journals /\ jn \in Journals /\ page \in Pages
      /\ others \in Nat /\ Setting
  BY Values DEF AmongInv
<1>2. journal.base \in SyncStates /\ journal.next \in SyncStates
      /\ journal.sizes \in [Paths -> Nat]
  BY <1>1 DEF Journals
<1>3. /\ state.records \in Nat /\ journal.base.records \in Nat /\ journal.next.records \in Nat
  BY <1>1, <1>2 DEF SyncStates
<1>4. /\ journal.bytes \in Nat /\ journal.added \in Nat /\ jn.bytes \in Nat /\ jn.added \in Nat
  BY <1>1 DEF Journals
<1>5. page.count \in Nat
  BY <1>1 DEF Pages
<1>6. /\ Before(Stream) = state.records /\ Before(Shared) = state.records + others
      /\ \A p \in Mine : p \in {Stream, Shared} /\ p \in Paths
  BY <1>1, TwoOutputs DEF Before
<1>7. \A p \in Mine : /\ Before(p) \in Nat /\ journal.sizes[p] \in Nat
                      /\ state.records <= Before(p)
  BY <1>1, <1>2, <1>3, <1>6
<1> QED BY <1>1, <1>2, <1>3, <1>4, <1>5, <1>6, <1>7

\* While the range is staged or published, the journal in memory is the one on
\* disk, and the state is the one the range began with.
LEMMA Underway ==
    ASSUME AmongInv
    PROVE  /\ pc \in {"read", "checkpoint", "ready", "plan"} \cup Writing =>
                  jn = journal /\ journal.phase # "absent" /\ state = journal.base /\ ~Committed
           /\ pc = "openStage" /\ journal.phase # "absent" =>
                  jn = journal /\ state = journal.base /\ ~Committed
           /\ Publishing => journal.phase = "planned" /\ state = journal.base /\ ~Committed
           /\ journal.phase = "planned" => (Publishing <=> ~Committed)
<1>1. pc \in {"read", "checkpoint", "ready", "plan"} \cup Writing =>
          jn = journal /\ journal.phase # "absent"
  BY DEF AmongInv, IInv, JournalInMemory, Staging, Located, Writing
<1>2. journal.phase # "absent" => state = journal.base \/ Committed
  BY DEF AmongInv, Continues
<1>3. journal.phase = "planned" => journal.next # journal.base
  BY DEF AmongInv, Continues
<1>4. Committed <=> journal.phase = "planned" /\ journal.next = state
  BY DEF Committed
<1>5. Publishing <=> journal.phase = "planned" /\ state # journal.next
  BY DEF Publishing
<1>6. pc \in {"read", "checkpoint", "ready", "plan"} => journal.phase # "planned"
  BY DEF AmongInv, Located
<1>7. pc \in Writing => Publishing
  BY DEF AmongInv, Located
<1>8. pc = "openStage" /\ journal.phase # "absent" => jn = journal /\ state = journal.base
  <2>1. pc = "openStage" /\ journal.phase # "absent" => jn = journal
    BY DEF AmongInv, IInv, JournalInMemory
  <2> QED BY <2>1 DEF AmongInv, Located
<1> QED BY <1>1, <1>2, <1>3, <1>4, <1>5, <1>6, <1>7, <1>8

\* How long an output is, compared with the records accounted for.
LEMMA Lengths ==
    ASSUME AmongInv, NEW p \in Mine
    PROVE  /\ Before(p) <= synced[p] /\ synced[p] <= Len(out[p])
           /\ Ours(p) /\ ~Publishing => Len(out[p]) = Before(p) /\ synced[p] = Before(p)
           /\ Ours(p) => Len(out[p]) <= Before(p) + journal.bytes
<1>1. /\ Before(p) <= synced[p] /\ synced[p] <= Len(out[p])
      /\ Ours(p) /\ Len(out[p]) # Before(p) =>
             Publishing /\ Len(out[p]) <= Before(p) + journal.bytes
  BY DEF AmongInv, Accounted
<1>2. synced[p] \in Nat /\ Len(out[p]) \in Nat /\ Before(p) \in Nat /\ journal.bytes \in Nat
  BY Values, Numbers
<1>3. Before(p) <= Before(p) + journal.bytes
  BY <1>2
<1>4. Len(out[p]) = Before(p) => synced[p] = Before(p)
  BY <1>1, <1>2
<1> QED BY <1>1, <1>3, <1>4

\* While a run works on its outputs, they are this chat's.
LEMMA OursAtWork ==
    ASSUME AmongInv, pc # "idle"
    PROVE  \A p \in Mine : Ours(p) /\ holder[p] = Self
BY TwoOutputs DEF AmongInv, Locked, Ours

(***************************************************************************)
(* The steps of the other chats                                            *)
(***************************************************************************)

\* The types and the journal survive the others' steps.
LEMMA RelyTypes == ASSUME AmongInv, Rely PROVE IInv'
<1>1. /\ UNCHANGED <<telegram, state, journal, stage, staged, pc, opt, st, jn, top, offset,
                     page, pos, spent>>
      /\ OutputsOK' /\ MarkersOK' /\ LocksOK'
  BY DEF Rely, memory
<1>2. TypeOK'
  BY <1>1, UnchangedTypes DEF AmongInv, IInv, TypeOK
<1>3. JournalInMemory' /\ StageDurable' /\ JournalDurable'
  BY <1>1 DEF AmongInv, IInv, JournalInMemory, Staging, StageDurable, JournalDurable, Full
<1>4. SizesOK'
  <2>1. pc # "idle" => \A p \in Mine : out'[p] = out[p]
    BY OursAtWork, TwoOutputs, Values DEF AmongInv, Rely
  <2> QED BY <1>1, <2>1 DEF AmongInv, IInv, SizesOK, Full
<1> QED BY <1>2, <1>3, <1>4 DEF IInv

\* What is accounted for survives them.
LEMMA RelyAccounted == ASSUME AmongInv, Rely PROVE Accounted' /\ Recorded' /\ Copied'
<1>1. /\ UNCHANGED <<state, journal, stage, pc, pos>>
      /\ out'[Stream] = out[Stream] /\ synced'[Stream] = synced[Stream]
      /\ others' \in Nat /\ others <= others'
      /\ \A i \in 1..Before(Shared) : out'[Shared][i] = out[Shared][i]
      /\ \A i \in Before(Shared) + 1..Before(Shared)' : out'[Shared][i].owner # Self
      /\ marker'[Shared] = Self => marker[Shared] = Self
      /\ Before(Shared)' <= synced'[Shared] /\ synced'[Shared] <= Len(out'[Shared])
      /\ marker'[Shared] = NoOwner => Len(out'[Shared]) = Before(Shared)'
  BY DEF Rely, memory
<1>2. marker[Shared] = Self \/ holder[Shared] = Self =>
           /\ out'[Shared] = out[Shared] /\ synced'[Shared] = synced[Shared]
           /\ marker'[Shared] = marker[Shared] /\ others' = others
  BY DEF Rely
<1>3. Mine = {Stream, Shared} /\ Stream # Shared
  BY TwoOutputs DEF AmongInv
<1>4. (Publishing' <=> Publishing) /\ Before(Stream)' = Before(Stream)
      /\ Before(Shared)' = state.records + others'
  BY <1>1, <1>3 DEF Publishing, Before
<1>5. marker[Shared] = Self \/ holder[Shared] = Self => Before(Shared)' = Before(Shared)
  BY <1>2, <1>4, Numbers
<1>6. Accounted'
  <2> SUFFICES ASSUME NEW p \in Mine
               PROVE  /\ Before(p)' <= synced'[p] /\ synced'[p] <= Len(out'[p])
                      /\ Ours(p)' /\ Len(out'[p]) # Before(p)' =>
                             /\ Publishing /\ journal.sizes[p] = Before(p)'
                             /\ Len(out'[p]) <= Before(p)' + journal.bytes
                             /\ \A i \in 1..Len(out'[p]) - Before(p)' :
                                    out'[p][Before(p)' + i] = stage[i]
                             /\ p = Shared => marker'[p] = Self
    BY <1>1, <1>4 DEF Accounted
  <2>0. /\ Before(p) <= synced[p] /\ synced[p] <= Len(out[p])
        /\ Ours(p) /\ Len(out[p]) # Before(p) =>
               /\ Publishing /\ journal.sizes[p] = Before(p)
               /\ Len(out[p]) <= Before(p) + journal.bytes
               /\ \A i \in 1..Len(out[p]) - Before(p) : out[p][Before(p) + i] = stage[i]
               /\ p = Shared => marker[p] = Self
    BY DEF AmongInv, Accounted
  <2>1. CASE p = Stream
    <3>1. /\ out'[p] = out[p] /\ synced'[p] = synced[p] /\ Before(p)' = Before(p)
          /\ Ours(p) /\ p # Shared
      BY <1>1, <1>3, <1>4, <2>1 DEF Ours
    <3> QED BY <2>0, <3>1
  <2>2. CASE p = Shared
    <3>1. CASE marker[Shared] = Self
      <4>1. /\ out'[p] = out[p] /\ synced'[p] = synced[p] /\ Before(p)' = Before(p)
            /\ Ours(p) /\ marker'[p] = Self
        BY <1>2, <1>5, <2>2, <3>1 DEF Ours
      <4> QED BY <2>0, <4>1
    <3>2. CASE marker[Shared] # Self
      <4>1. marker'[Shared] # Self
        BY <1>1, <3>2
      <4>2. Ours(p)' => marker'[Shared] = NoOwner
        BY <1>3, <2>2, <4>1 DEF Ours
      <4> QED BY <1>1, <2>2, <4>2
    <3> QED BY <3>1, <3>2
  <2> QED BY <1>3, <2>1, <2>2
<1>7. Recorded'
  <2> SUFFICES ASSUME Publishing, NEW p \in Mine
               PROVE  /\ journal.sizes[p] <= Before(p)'
                      /\ \A k \in journal.sizes[p] + 1..Before(p)' : out'[p][k].owner # Self
    BY <1>1, <1>4 DEF Recorded
  <2>0. /\ journal.sizes[p] <= Before(p)
        /\ \A k \in journal.sizes[p] + 1..Before(p) : out[p][k].owner # Self
    BY DEF AmongInv, Recorded
  <2>1. CASE p = Stream
    BY <1>1, <1>4, <2>0, <2>1
  <2>2. CASE p = Shared
    <3>1. /\ journal.sizes[p] \in Nat /\ Before(p) \in Nat /\ Before(p)' \in Nat
          /\ Before(p) <= Before(p)'
      BY <1>1, <1>4, <2>2, Numbers
    <3>2. ASSUME NEW k \in journal.sizes[p] + 1..Before(p)' PROVE out'[p][k].owner # Self
      <4>1. CASE k <= Before(p)
        <5>1. k \in journal.sizes[p] + 1..Before(p) /\ k \in 1..Before(p)
          BY <3>1, <3>2, <4>1
        <5> QED BY <1>1, <2>0, <2>2, <5>1
      <4>2. CASE k > Before(p)
        <5>1. k \in Before(p) + 1..Before(p)'
          BY <3>1, <3>2, <4>2
        <5> QED BY <1>1, <2>2, <5>1
      <4> QED BY <3>1, <3>2, <4>1, <4>2
    <3> QED BY <2>0, <3>1, <3>2
  <2> QED BY <1>3, <2>1, <2>2
<1>8. Copied'
  <2>1. CASE pc = "idle"
    BY <1>1, <2>1 DEF Copied
  <2>2. CASE pc # "idle"
    <3>1. holder[Shared] = Self
      BY <1>3, <2>2, OursAtWork
    <3>2. \A p \in Mine : /\ out'[p] = out[p] /\ synced'[p] = synced[p] /\ Before(p)' = Before(p)
      BY <1>1, <1>2, <1>3, <1>4, <1>5, <3>1
    <3>3. pos \in 1..2 /\ \A i \in 1..pos - 1 : Outputs[i] \in Mine
      BY TwoOutputs, Values DEF AmongInv
    <3>4. Outputs[pos] \in Mine
      BY TwoOutputs, Values DEF AmongInv
    <3> QED BY <1>1, <3>2, <3>3, <3>4 DEF AmongInv, Copied, Whole
  <2> QED BY <2>1, <2>2
<1> QED BY <1>6, <1>7, <1>8

\* The places that n records take are places among the first m as well, when
\* the records up to m are another's.
LEMMA RelyPlaced == ASSUME AmongInv, Rely PROVE Placed'
<1>1. /\ UNCHANGED state /\ out'[Stream] = out[Stream]
      /\ others' \in Nat /\ others <= others'
      /\ \A i \in 1..Before(Shared) : out'[Shared][i] = out[Shared][i]
      /\ \A i \in Before(Shared) + 1..Before(Shared)' : out'[Shared][i].owner # Self
  BY DEF Rely
<1> DEFINE r == state.records
           n == Before(Shared)
           m == state.records + others'
<1>0. Before(Shared)' = m
  <2>1. Shared # Stream
    BY TwoOutputs DEF AmongInv
  <2> QED BY <1>1, <2>1 DEF Before
<1>2. n \in Nat /\ m \in Nat /\ n <= m /\ r \in Nat /\ state'.records = r
  BY <1>1, Numbers
<1>3. PICK place : PlacedAt(place, r, n)
  BY DEF AmongInv, Placed
<1>10. \A i \in n + 1..m : out'[Shared][i].owner # Self
  BY <1>0, <1>1
<1> HIDE DEF r, n, m
<1>4. /\ place \in [1..r -> 1..n]
      /\ \A i, k \in 1..r : i < k => place[i] < place[k]
      /\ \A i \in 1..r : out[Shared][place[i]] = out[Stream][i]
      /\ \A k \in 1..n : out[Shared][k].owner = Self => \E i \in 1..r : place[i] = k
  BY <1>3 DEF PlacedAt
<1>5. place \in [1..r -> 1..m]
  BY <1>2, <1>4
<1>6. \A i \in 1..r : out'[Shared][place[i]] = out'[Stream][i]
  BY <1>1, <1>4 DEF n
<1>7. ASSUME NEW k \in 1..m, out'[Shared][k].owner = Self PROVE \E i \in 1..r : place[i] = k
  <2>1. k \in 1..n
    <3>1. k \notin n + 1..m
      BY <1>7, <1>10
    <3> QED BY <1>2, <3>1
  <2>2. out'[Shared][k] = out[Shared][k]
    BY <1>1, <2>1 DEF n
  <2> QED BY <1>4, <1>7, <2>1, <2>2
<1> QED BY <1>0, <1>2, <1>4, <1>5, <1>6, <1>7 DEF Placed, PlacedAt

\* What the others promise keeps the invariant of this chat.
LEMMA RelyStep == ASSUME AmongInv, Rely PROVE AmongInv'
<1>1. /\ UNCHANGED <<state, journal, stage, pc, opt, st, jn, page, pos>>
      /\ out'[Stream] = out[Stream] /\ holder'[Stream] = holder[Stream]
      /\ others' \in Nat
      /\ holder[Shared] = Self => /\ marker'[Shared] = marker[Shared]
                                  /\ holder'[Shared] = holder[Shared]
  BY DEF Rely, memory
<1>2. Setting'
  BY DEF AmongInv, Setting
<1>3. Continues'
  BY <1>1 DEF AmongInv, Continues, Committed
<1>4. Located'
  BY <1>1 DEF AmongInv, Located, Committed, Publishing, Full
<1>5. Locked'
  <2>1. Mine = {Stream, Shared}
    BY TwoOutputs DEF AmongInv
  <2>2. pc # "idle" => holder[Shared] = Self
    BY <2>1 DEF AmongInv, Locked
  <2>3. \A p \in Mine : pc # "idle" => holder'[p] = holder[p]
    BY <1>1, <2>1, <2>2
  <2> QED BY <1>1, <2>1, <2>2, <2>3 DEF AmongInv, Locked
<1>6. OwnRecords'
  BY <1>1 DEF AmongInv, OwnRecords
<1> QED BY <1>1, <1>2, <1>3, <1>4, <1>5, <1>6, RelyTypes, RelyAccounted, RelyPlaced DEF AmongInv

(***************************************************************************)
(* The steps of this chat: what they leave alone                           *)
(***************************************************************************)

\* The invariant of ChatSync_proofs is kept.
LEMMA KeepsTypes == ASSUME IInv, [Next]_vars PROVE IInv'
BY TypeStep, SizesStep, JournalStep, StageStep DEF IInv

\* The records that are accounted for stay where they are.
LEMMA PlacedKept ==
    ASSUME AmongInv, UNCHANGED <<state, others>>,
           \A p \in Mine : \A i \in 1..Before(p) : out'[p][i] = out[p][i]
    PROVE  /\ Placed' /\ \A p \in Mine : Before(p)' = Before(p)
           /\ \A i \in 1..state.records : out'[Stream][i].owner = Self
<1>1. \A p \in Mine : Before(p)' = Before(p)
  BY DEF Before
<1>2. Stream \in Mine /\ Shared \in Mine /\ Before(Stream) = state.records
  BY Values, Numbers
<1>3. \A i \in 1..state.records : out'[Stream][i].owner = Self
  BY <1>2 DEF AmongInv, OwnRecords
<1>4. PICK place : PlacedAt(place, state.records, Before(Shared))
  BY DEF AmongInv, Placed
<1>5. /\ place \in [1..state.records -> 1..Before(Shared)]
      /\ \A i, k \in 1..state.records : i < k => place[i] < place[k]
      /\ \A i \in 1..state.records : out[Shared][place[i]] = out[Stream][i]
      /\ \A k \in 1..Before(Shared) :
             out[Shared][k].owner = Self => \E i \in 1..state.records : place[i] = k
  BY <1>4 DEF PlacedAt
<1>6. \A i \in 1..state.records : out'[Shared][place[i]] = out'[Stream][i]
  BY <1>2, <1>5
<1>7. \A k \in 1..Before(Shared) :
          out'[Shared][k].owner = Self => \E i \in 1..state.records : place[i] = k
  BY <1>2, <1>5
<1>8. Placed'
  <2>1. state' = state /\ Before(Shared)' = Before(Shared)
    BY <1>1, <1>2
  <2>2. PlacedAt(place, state.records, Before(Shared))'
    BY <1>5, <1>6, <1>7, <2>1 DEF PlacedAt
  <2> QED BY <2>2 DEF Placed
<1> QED BY <1>1, <1>3, <1>8

\* So they do when neither checkpoint nor journal is written.
LEMMA FilesKept ==
    ASSUME AmongInv, UNCHANGED <<state, journal, others>>,
           \A p \in Mine : \A i \in 1..Before(p) : out'[p][i] = out[p][i]
    PROVE  /\ Continues' /\ Recorded' /\ Placed'
           /\ (Committed' <=> Committed) /\ (Publishing' <=> Publishing)
           /\ \A p \in Mine : Before(p)' = Before(p)
           /\ \A i \in 1..state.records : out'[Stream][i].owner = Self
<1>1. (Committed' <=> Committed) /\ (Publishing' <=> Publishing)
  BY DEF Committed, Publishing
<1>2. Continues'
  BY <1>1 DEF AmongInv, Continues
<1>3. /\ Placed' /\ \A p \in Mine : Before(p)' = Before(p)
      /\ \A i \in 1..state.records : out'[Stream][i].owner = Self
  BY PlacedKept
<1>4. Recorded'
  <2> SUFFICES ASSUME Publishing, NEW p \in Mine
               PROVE  /\ journal.sizes[p] <= Before(p)
                      /\ \A k \in journal.sizes[p] + 1..Before(p) : out'[p][k].owner # Self
    BY <1>1, <1>3 DEF Recorded
  <2>1. /\ journal.sizes[p] <= Before(p)
        /\ \A k \in journal.sizes[p] + 1..Before(p) : out[p][k].owner # Self
    BY DEF AmongInv, Recorded
  <2>2. \A k \in journal.sizes[p] + 1..Before(p) : k \in 1..Before(p)
    BY Numbers
  <2> QED BY <2>1, <2>2
<1> QED BY <1>1, <1>2, <1>3, <1>4

\* A step that writes neither checkpoint, journal nor outputs.  It may set this
\* chat's marker, and remove it when nothing is on its way.
LEMMA DiskStands ==
    ASSUME AmongInv, UNCHANGED <<state, journal, out, synced, others>>,
           \A i \in 1..journal.bytes : stage'[i] = stage[i],
           \A i \in 1..Len(stage') : stage'[i].owner = Self,
           marker'[Shared] \in {NoOwner, Self} => marker[Shared] \in {NoOwner, Self},
           Publishing /\ marker[Shared] = Self => marker'[Shared] = Self
    PROVE  /\ Continues' /\ OwnRecords' /\ Accounted' /\ Recorded' /\ Placed'
           /\ (Committed' <=> Committed) /\ (Publishing' <=> Publishing)
           /\ \A p \in Mine : Before(p)' = Before(p)
<1>1. /\ Continues' /\ Recorded' /\ Placed'
      /\ (Committed' <=> Committed) /\ (Publishing' <=> Publishing)
      /\ \A p \in Mine : Before(p)' = Before(p)
  BY FilesKept
<1>2. OwnRecords'
  BY DEF AmongInv, OwnRecords
<1>3. Accounted'
  <2> SUFFICES ASSUME NEW p \in Mine
               PROVE  /\ Before(p) <= synced[p] /\ synced[p] <= Len(out[p])
                      /\ Ours(p)' /\ Len(out[p]) # Before(p) =>
                             /\ Publishing /\ journal.sizes[p] = Before(p)
                             /\ Len(out[p]) <= Before(p) + journal.bytes
                             /\ \A i \in 1..Len(out[p]) - Before(p) :
                                    out[p][Before(p) + i] = stage'[i]
                             /\ p = Shared => marker'[p] = Self
    BY <1>1 DEF Accounted
  <2>1. /\ Before(p) <= synced[p] /\ synced[p] <= Len(out[p])
        /\ Ours(p) /\ Len(out[p]) # Before(p) =>
               /\ Publishing /\ journal.sizes[p] = Before(p)
               /\ Len(out[p]) <= Before(p) + journal.bytes
               /\ \A i \in 1..Len(out[p]) - Before(p) : out[p][Before(p) + i] = stage[i]
               /\ p = Shared => marker[p] = Self
    BY DEF AmongInv, Accounted
  <2>2. Before(p) \in Nat /\ journal.bytes \in Nat /\ Len(out[p]) \in Nat
    BY Values, Numbers
  <2>3. Len(out[p]) <= Before(p) + journal.bytes =>
            \A i \in 1..Len(out[p]) - Before(p) : i \in 1..journal.bytes
    BY <2>2
  <2>4. Ours(p)' => Ours(p)
    BY TwoOutputs DEF AmongInv, Ours
  <2> QED BY <2>1, <2>3, <2>4
<1> QED BY <1>1, <1>2, <1>3

\* Nothing but Telegram changes.
LEMMA QuietAmong ==
    ASSUME AmongInv, UNCHANGED <<disk, holder, pc, memory, others>>, IInv'
    PROVE  AmongInv'
<1>1. UNCHANGED <<state, journal, stage, staged, out, synced, marker, pc, opt, st, jn, top,
                  offset, page, pos, holder, others>>
  BY DEF disk, memory
<1>2. /\ Continues' /\ OwnRecords' /\ Accounted' /\ Recorded' /\ Placed'
      /\ (Committed' <=> Committed) /\ (Publishing' <=> Publishing)
      /\ \A p \in Mine : Before(p)' = Before(p)
  <2>1. \A i \in 1..Len(stage') : stage'[i].owner = Self
    BY <1>1 DEF AmongInv, OwnRecords
  <2> QED BY <1>1, <2>1, DiskStands
<1>3. Located'
  BY <1>1, <1>2 DEF AmongInv, Located, Full
<1>4. Locked'
  BY <1>1 DEF AmongInv, Locked
<1>5. Copied'
  <2>1. \A i \in 1..pos - 1 : Outputs[i] \in Mine
    BY TwoOutputs, Values DEF AmongInv
  <2>2. Outputs[pos] \in Mine
    BY TwoOutputs, Values DEF AmongInv
  <2> QED BY <1>1, <1>2, <2>1, <2>2 DEF AmongInv, Copied, Whole
<1>6. Setting' /\ others' \in Nat
  BY <1>1 DEF AmongInv, Setting
<1> QED BY <1>2, <1>3, <1>4, <1>5, <1>6 DEF AmongInv

\* A run begins a range, or takes one over: nobody else has the outputs.
LEMMA StartAmong ==
    ASSUME AmongInv, NEW o \in Options, StartIncremental(o), UNCHANGED others, IInv'
    PROVE  AmongInv'
<1>1. /\ pos' = 1 /\ page' = NoPage /\ st' = state
      /\ opt' = [o EXCEPT !.start = RunStart(o)]
      /\ UNCHANGED <<telegram, state, journal, stage, staged, out, synced, marker>>
      /\ pc' \in {"openStage", "unmark"}
      /\ holder' = [p \in Paths |-> IF p \in Mine THEN Self ELSE holder[p]]
      /\ \A p \in Mine : marker[p] \in {NoOwner, Self}
  BY DEF StartIncremental, Acquire, disk
<1>2. /\ Continues' /\ OwnRecords' /\ Accounted' /\ Recorded' /\ Placed'
      /\ (Committed' <=> Committed) /\ (Publishing' <=> Publishing)
  <2>1. \A i \in 1..Len(stage') : stage'[i].owner = Self
    BY <1>1 DEF AmongInv, OwnRecords
  <2> QED BY <1>1, <2>1, DiskStands
<1>3. ~Full'
  <2>1. o \in OptionSet /\ ~o.all /\ ~o.reset
    BY OptionsAssumption DEF AmongInv, Setting
  <2> QED BY <1>1, <2>1 DEF Full, OptionSet
<1>4. Locked' /\ Copied'
  <2>1. Mine \subseteq Paths /\ Shared \in Mine
    BY TwoOutputs DEF AmongInv
  <2> QED BY <1>1, <2>1 DEF Locked, Copied
<1>5. CASE journal.phase = "absent"
  <2>1. /\ pc' = "openStage"
        /\ jn' = [NoJournal EXCEPT !.minID = RunMinID(o), !.start = o.start, !.base = state]
    BY <1>5 DEF StartIncremental
  <2>2. jn'.base = state' /\ jn'.bytes = 0 /\ jn'.added = 0
    BY <1>1, <2>1 DEF NoJournal
  <2>3. Located'
    BY <1>1, <1>3, <1>5, <2>1, <2>2 DEF Located, Writing
  <2> QED BY <1>1, <1>2, <1>4, <2>3 DEF AmongInv, Setting
<1>6. CASE journal.phase # "absent"
  <2>1. IF Committed THEN pc' = "unmark" ELSE state = journal.base /\ pc' = "openStage"
    BY <1>6 DEF StartIncremental
  <2>2. Located'
    BY <1>1, <1>2, <1>3, <1>6, <2>1 DEF Located, Writing
  <2> QED BY <1>1, <1>2, <1>4, <2>2 DEF AmongInv, Setting
<1> QED BY <1>5, <1>6

\* A run that ends.
LEMMA LeaveAmong ==
    ASSUME AmongInv, IInv', Leave, UNCHANGED others,
           Continues', OwnRecords', Accounted', Recorded', Placed'
    PROVE  AmongInv'
<1>1. pc' = "idle" /\ opt' = NoOpt
  BY DEF Leave
<1>2. ~Full'
  BY <1>1 DEF Full, NoOpt
<1>3. Located' /\ Locked' /\ Copied'
  BY <1>1, <1>2 DEF Located, Locked, Copied, Writing
<1> QED BY <1>3 DEF AmongInv, Setting

\* A run that a check refuses leaves everything on disk.
LEMMA RefuseAmong ==
    ASSUME AmongInv, Refuse, UNCHANGED others, IInv' PROVE AmongInv'
<1>1. Leave /\ UNCHANGED <<telegram, state, journal, stage, staged, out, synced, marker>>
  BY DEF Refuse, disk
<1>2. \A i \in 1..Len(stage') : stage'[i].owner = Self
  BY <1>1 DEF AmongInv, OwnRecords
<1>3. Continues' /\ OwnRecords' /\ Accounted' /\ Recorded' /\ Placed'
  BY <1>1, <1>2, DiskStands
<1> QED BY <1>1, <1>3, LeaveAmong

\* A run ends with no journal left.
LEMMA RemoveStageAmong ==
    ASSUME AmongInv, RemoveStage, UNCHANGED others, IInv' PROVE AmongInv'
<1>1. /\ Leave /\ UNCHANGED <<telegram, state, journal, out, synced, marker>>
      /\ journal.phase = "absent" /\ stage' = <<>> /\ pc = "removeStage"
  BY DEF RemoveStage, AmongInv, Located
<1>2. ~Publishing /\ ~Publishing'
  BY <1>1 DEF Publishing
<1>3. Continues' /\ Recorded' /\ Placed' /\ \A p \in Mine : Before(p)' = Before(p)
  BY <1>1, FilesKept
<1>4. OwnRecords'
  BY <1>1 DEF AmongInv, OwnRecords
<1>5. Accounted'
  BY <1>1, <1>2, <1>3 DEF AmongInv, Accounted, Ours
<1> QED BY <1>1, <1>3, <1>4, <1>5, LeaveAmong

\* What a power loss leaves of the stage and of an output.
LEMMA LoseFacts ==
    ASSUME AmongInv, Lose
    PROVE  /\ journal.phase # "absent" => \A i \in 1..journal.bytes : stage'[i] = stage[i]
           /\ \A i \in 1..Len(stage') : stage'[i].owner = Self
           /\ \A p \in Mine :
                  /\ synced'[p] = Len(out'[p]) /\ Len(out'[p]) \in Nat
                  /\ synced[p] <= Len(out'[p]) /\ Len(out'[p]) <= Len(out[p])
                  /\ \A i \in 1..Len(out'[p]) : out'[p][i] = out[p][i]
           /\ \A p \in Paths \ Mine : out'[p] = out[p] /\ synced'[p] = synced[p]
<1>1. PICK n \in staged..Len(stage) : stage' = Prefix(stage, n) /\ staged' = n
  BY DEF Lose
<1>2. PICK keep \in [Mine -> Nat] :
         /\ \A p \in Mine : keep[p] \in synced[p]..Len(out[p])
         /\ out' = [p \in Paths |-> IF p \in Mine THEN Prefix(out[p], keep[p]) ELSE out[p]]
         /\ synced' = [p \in Paths |-> IF p \in Mine THEN keep[p] ELSE synced[p]]
  <2>1. UNION {synced[p]..Len(out[p]) : p \in Mine} \subseteq Nat
    BY Values
  <2> QED BY <2>1 DEF Lose
<1>3. n \in 0..Len(stage) /\ n \in Nat /\ (journal.phase # "absent" => journal.bytes <= n)
  <2>1. Len(stage) \in Nat /\ staged \in Nat /\ journal.bytes \in Nat
    BY Values, Numbers
  <2>2. journal.phase # "absent" => journal.bytes <= staged
    BY DEF AmongInv, IInv, JournalDurable
  <2>3. n \in Nat /\ staged <= n /\ n <= Len(stage)
    BY <1>1, <2>1
  <2> QED BY <2>1, <2>2, <2>3
<1>4. Len(stage') = n /\ \A i \in 1..n : stage'[i] = stage[i]
  BY <1>1, <1>3, CutFacts, Values
<1>5. journal.phase # "absent" => \A i \in 1..journal.bytes : stage'[i] = stage[i]
  <2>1. journal.bytes \in Nat
    BY Numbers
  <2>2. journal.phase # "absent" => \A i \in 1..journal.bytes : i \in 1..n
    BY <1>3, <2>1
  <2> QED BY <1>4, <2>2
<1>6. \A i \in 1..Len(stage') : stage'[i].owner = Self
  <2>1. Len(stage) \in Nat
    BY Values
  <2>2. \A i \in 1..n : i \in 1..Len(stage)
    BY <1>3, <2>1
  <2> QED BY <1>4, <2>2 DEF AmongInv, OwnRecords
<1>7. ASSUME NEW p \in Mine
      PROVE  /\ Len(out'[p]) = keep[p] /\ synced'[p] = keep[p]
             /\ keep[p] \in Nat /\ synced[p] <= keep[p] /\ keep[p] <= Len(out[p])
             /\ \A i \in 1..keep[p] : out'[p][i] = out[p][i]
  <2>1. p \in Paths /\ out[p] \in Seq(Records) /\ synced[p] \in Nat /\ Len(out[p]) \in Nat
    BY Values
  <2>2. keep[p] \in 0..Len(out[p]) /\ synced[p] <= keep[p] /\ keep[p] \in Nat
    BY <1>2, <2>1
  <2>3. out'[p] = Prefix(out[p], keep[p]) /\ synced'[p] = keep[p]
    BY <1>2, <2>1
  <2>4. /\ Len(Prefix(out[p], keep[p])) = keep[p]
        /\ \A i \in 1..keep[p] : Prefix(out[p], keep[p])[i] = out[p][i]
    BY <2>1, <2>2, CutFacts
  <2> QED BY <2>1, <2>2, <2>3, <2>4
<1>8. \A p \in Paths \ Mine : out'[p] = out[p] /\ synced'[p] = synced[p]
  BY <1>2
<1> QED BY <1>5, <1>6, <1>7, <1>8

\* It leaves what is accounted for.
LEMMA LoseKeeps ==
    ASSUME AmongInv, Lose
    PROVE  \A p \in Mine : \A i \in 1..Before(p) : out'[p][i] = out[p][i]
<1> SUFFICES ASSUME NEW p \in Mine, NEW i \in 1..Before(p) PROVE out'[p][i] = out[p][i]
  OBVIOUS
<1>1. /\ Len(out'[p]) \in Nat /\ synced[p] <= Len(out'[p])
      /\ \A k \in 1..Len(out'[p]) : out'[p][k] = out[p][k]
  BY LoseFacts
<1>2. Before(p) <= synced[p] /\ synced[p] \in Nat /\ Before(p) \in Nat
  BY Lengths, Values, Numbers
<1>3. i \in 1..Len(out'[p])
  BY <1>1, <1>2
<1> QED BY <1>1, <1>3

\* An interruption loses at most what was not synced.
LEMMA CrashAmong ==
    ASSUME AmongInv, Crash, UNCHANGED others, IInv' PROVE AmongInv'
<1>1. /\ Leave /\ UNCHANGED <<telegram, state, journal, marker>> /\ pc # "idle"
      /\ Lose \/ UNCHANGED <<stage, staged, out, synced>>
  BY DEF Crash
<1>2. CASE UNCHANGED <<stage, staged, out, synced>>
  <2>1. \A i \in 1..Len(stage') : stage'[i].owner = Self
    BY <1>2 DEF AmongInv, OwnRecords
  <2>2. Continues' /\ OwnRecords' /\ Accounted' /\ Recorded' /\ Placed'
    BY <1>1, <1>2, <2>1, DiskStands
  <2> QED BY <1>1, <2>2, LeaveAmong
<1>3. CASE Lose
  <2>1. /\ journal.phase # "absent" => \A i \in 1..journal.bytes : stage'[i] = stage[i]
        /\ \A i \in 1..Len(stage') : stage'[i].owner = Self
    BY <1>3, LoseFacts
  <2>2. /\ Continues' /\ Recorded' /\ Placed' /\ (Publishing' <=> Publishing)
        /\ \A p \in Mine : Before(p)' = Before(p)
        /\ \A i \in 1..state.records : out'[Stream][i].owner = Self
    BY <1>1, <1>3, LoseKeeps, FilesKept
  <2>3. OwnRecords'
    BY <1>1, <2>1, <2>2 DEF OwnRecords
  <2>4. ASSUME NEW p \in Mine
        PROVE  /\ Before(p) <= synced'[p] /\ synced'[p] <= Len(out'[p])
               /\ Len(out'[p]) # Before(p) =>
                      /\ Publishing /\ journal.sizes[p] = Before(p)
                      /\ Len(out'[p]) <= Before(p) + journal.bytes
                      /\ \A i \in 1..Len(out'[p]) - Before(p) :
                             out'[p][Before(p) + i] = stage'[i]
                      /\ p = Shared => marker[p] = Self
    <3>1. /\ Before(p) \in Nat /\ journal.bytes \in Nat /\ Len(out[p]) \in Nat
          /\ synced[p] \in Nat /\ Before(p) <= synced[p]
      BY Values, Numbers, Lengths
    <3>2. /\ synced'[p] = Len(out'[p]) /\ Len(out'[p]) \in Nat
          /\ synced[p] <= Len(out'[p]) /\ Len(out'[p]) <= Len(out[p])
          /\ \A i \in 1..Len(out'[p]) : out'[p][i] = out[p][i]
      BY <1>3, LoseFacts
    <3>3. Before(p) <= synced'[p] /\ synced'[p] <= Len(out'[p])
      BY <3>1, <3>2
    <3>4. ASSUME Len(out'[p]) # Before(p)
          PROVE  /\ Publishing /\ journal.sizes[p] = Before(p)
                 /\ Len(out'[p]) <= Before(p) + journal.bytes
                 /\ \A i \in 1..Len(out'[p]) - Before(p) :
                        out'[p][Before(p) + i] = stage'[i]
                 /\ p = Shared => marker[p] = Self
      <4>1. Len(out[p]) # Before(p)
        BY <3>1, <3>2, <3>3, <3>4
      <4>2. Ours(p)
        BY <1>1, OursAtWork
      <4>3. /\ Publishing /\ journal.sizes[p] = Before(p)
            /\ Len(out[p]) <= Before(p) + journal.bytes
            /\ \A i \in 1..Len(out[p]) - Before(p) : out[p][Before(p) + i] = stage[i]
            /\ p = Shared => marker[p] = Self
        BY <4>1, <4>2 DEF AmongInv, Accounted
      <4>4. Len(out'[p]) <= Before(p) + journal.bytes
        BY <3>1, <3>2, <4>3
      <4>5. ASSUME NEW i \in 1..Len(out'[p]) - Before(p)
            PROVE  out'[p][Before(p) + i] = stage'[i]
        <5>1. /\ i \in 1..Len(out[p]) - Before(p) /\ i \in 1..journal.bytes
              /\ Before(p) + i \in 1..Len(out'[p])
          BY <3>1, <3>2, <4>4
        <5>2. stage'[i] = stage[i]
          BY <2>1, <4>3, <5>1, Underway
        <5> QED BY <3>2, <4>3, <5>1, <5>2
      <4> QED BY <4>3, <4>4, <4>5
    <3> QED BY <3>3, <3>4
  <2>5. Accounted'
    BY <1>1, <2>2, <2>4 DEF Accounted
  <2> QED BY <1>1, <2>2, <2>3, <2>5, LeaveAmong
<1> QED BY <1>1, <1>2, <1>3

(***************************************************************************)
(* The steps of this chat: the range is staged                             *)
(***************************************************************************)

\* The stage is cut to what the journal promises.
LEMMA OpenStageAmong ==
    ASSUME AmongInv, OpenStage, UNCHANGED others, IInv' PROVE AmongInv'
<1>1. /\ pc = "openStage" /\ jn.bytes <= Len(stage) /\ stage' = Prefix(stage, jn.bytes)
      /\ UNCHANGED <<state, journal, out, synced, marker, holder, opt, st, jn, page, pos>>
      /\ pc' = CASE journal.phase = "absent"  -> "saveJournal"
                 [] journal.phase = "reading" -> "read"
                 [] journal.phase = "ready"   -> "plan"
                 [] journal.phase = "planned" -> "verify"
  BY DEF OpenStage, memory
<1>2. /\ Len(stage') = jn.bytes /\ \A i \in 1..jn.bytes : stage'[i] = stage[i]
      /\ \A i \in 1..Len(stage') : stage'[i].owner = Self
  <2>1. jn.bytes \in Nat /\ Len(stage) \in Nat /\ stage \in Seq(Records)
    BY Values, Numbers
  <2>2. jn.bytes \in 0..Len(stage)
    BY <1>1, <2>1
  <2>3. Len(stage') = jn.bytes /\ \A i \in 1..jn.bytes : stage'[i] = stage[i]
    BY <1>1, <2>1, <2>2, CutFacts
  <2>4. \A i \in 1..jn.bytes : i \in 1..Len(stage)
    BY <2>1, <2>2
  <2> QED BY <2>3, <2>4 DEF AmongInv, OwnRecords
<1>3. journal.phase \in Phases
  BY Values DEF Journals
<1>4. Locked' /\ Copied'
  BY <1>1, <1>3 DEF Phases, Copied, AmongInv, Locked
<1>5. CASE journal.phase = "absent"
  <2>1. pc' = "saveJournal"
    BY <1>1, <1>5
  <2>2. jn.bytes = 0 /\ ~Publishing
    BY <1>1, <1>5 DEF AmongInv, IInv, JournalInMemory, Publishing
  <2>3. stage' = <<>>
    <3>1. Len(stage') = 0
      BY <1>2, <2>2
    <3>2. stage' \in Seq(Records)
      BY DEF IInv, TypeOK, StageOK
    <3> QED BY <3>1, <3>2
  <2>4. /\ Continues' /\ Recorded' /\ Placed' /\ (Publishing' <=> Publishing)
        /\ \A p \in Mine : Before(p)' = Before(p)
    BY <1>1, FilesKept
  <2>5. OwnRecords'
    BY <1>1, <1>2 DEF AmongInv, OwnRecords
  <2>6. Accounted'
    BY <1>1, <2>2, <2>4 DEF AmongInv, Accounted, Ours
  <2>7. Located'
    BY <1>1, <1>5, <2>1, <2>3 DEF AmongInv, Located, Writing, Full
  <2> QED BY <1>4, <2>4, <2>5, <2>6, <2>7 DEF AmongInv, Setting
<1>6. CASE journal.phase # "absent"
  <2>1. jn = journal /\ state = journal.base /\ ~Committed /\ st = state /\ pos = 1 /\ ~Full
    BY <1>1, <1>6, Underway DEF AmongInv, Located
  <2>2. /\ Continues' /\ OwnRecords' /\ Accounted' /\ Recorded' /\ Placed'
        /\ (Committed' <=> Committed) /\ (Publishing' <=> Publishing)
    BY <1>1, <1>2, <2>1, DiskStands
  <2>3. \/ journal.phase = "reading" /\ pc' = "read"
        \/ journal.phase = "ready" /\ pc' = "plan"
        \/ journal.phase = "planned" /\ pc' = "verify"
    BY <1>1, <1>3, <1>6 DEF Phases
  <2>4. journal.phase = "planned" => Publishing
    BY <2>1, Underway
  <2>5. Located'
    BY <1>1, <1>2, <1>6, <2>1, <2>2, <2>3, <2>4 DEF Located, Writing, Full
  <2> QED BY <1>4, <2>2, <2>5 DEF AmongInv, Setting
<1> QED BY <1>5, <1>6

\* Nothing is on its way before the range has been read: the outputs are as
\* long as what is accounted for, and stay so.
LEMMA NothingPublished ==
    ASSUME AmongInv, UNCHANGED <<state, out, synced, marker, others>>,
           ~Publishing, ~Publishing'
    PROVE  /\ Accounted' /\ Recorded' /\ Placed'
           /\ \A p \in Mine : Before(p)' = Before(p)
<1>1. Placed' /\ \A p \in Mine : Before(p)' = Before(p)
  BY PlacedKept
<1>2. Accounted'
  BY <1>1 DEF AmongInv, Accounted, Ours
<1>3. Recorded'
  BY DEF Recorded
<1> QED BY <1>1, <1>2, <1>3

\* The journal begins a range, or takes it further, with nothing published.
LEMMA StagingAmong ==
    ASSUME AmongInv, IInv',
           UNCHANGED <<state, stage, out, synced, marker, holder, st, opt, pos, others>>,
           ~Publishing, journal'.base = state,
           journal'.bytes = Len(stage), journal'.added = journal'.bytes,
           jn' = journal', st = state, pos = 1, pc # "idle",
           journal'.phase = (IF pc' = "plan" THEN "ready" ELSE "reading"),
           pc' \in {"read", "ready", "plan"}
    PROVE  AmongInv'
<1>1. ~Committed' /\ ~Publishing'
  BY DEF Committed, Publishing
<1>2. Continues'
  BY <1>1 DEF Continues
<1>3. Located'
  BY <1>1 DEF AmongInv, Located, Writing, Full
<1>4. Locked' /\ OwnRecords' /\ Copied'
  BY DEF AmongInv, Locked, OwnRecords, Copied
<1>5. Accounted' /\ Recorded' /\ Placed'
  BY <1>1, NothingPublished
<1> QED BY <1>2, <1>3, <1>4, <1>5 DEF AmongInv, Setting

\* The journal of an empty range is written.
LEMMA SaveJournalAmong ==
    ASSUME AmongInv, SaveJournal, UNCHANGED others, IInv' PROVE AmongInv'
<1>1. /\ pc = "saveJournal" /\ journal' = [jn EXCEPT !.phase = "reading"] /\ jn' = journal'
      /\ pc' = "read"
      /\ UNCHANGED <<state, stage, out, synced, marker, holder, st, opt, pos>>
  BY DEF SaveJournal
<1>2. /\ journal.phase = "absent" /\ stage = <<>> /\ st = state /\ pos = 1
      /\ jn.base = state /\ jn.bytes = 0 /\ jn.added = 0
  BY <1>1 DEF AmongInv, Located
<1>3. jn \in Journals
  BY Values
<1>4. /\ journal'.phase = "reading" /\ journal'.base = jn.base /\ journal'.bytes = jn.bytes
      /\ journal'.added = jn.added
  BY <1>1, <1>3 DEF Journals
<1>5. ~Publishing
  BY <1>2 DEF Publishing
<1>6. Len(stage) = 0
  BY <1>2
<1>7. /\ journal'.base = state /\ journal'.bytes = Len(stage) /\ journal'.added = journal'.bytes
  BY <1>2, <1>4, <1>6
<1>8. pc # "idle" /\ pc' \in {"read", "ready", "plan"}
      /\ journal'.phase = (IF pc' = "plan" THEN "ready" ELSE "reading")
  BY <1>1, <1>4
<1> QED BY <1>1, <1>2, <1>5, <1>7, <1>8, StagingAmong

\* What a page of the range stages: records of this chat.
LEMMA PageFacts ==
    ASSUME AmongInv, ReadPage
    PROVE  /\ pc = "read" /\ pc' = "checkpoint" /\ jn = journal /\ journal.phase = "reading"
           /\ UNCHANGED <<state, journal, staged, out, synced, marker, holder, opt, st, jn, pos>>
           /\ Len(stage') = Len(stage) + page'.count
           /\ \A i \in 1..Len(stage) : stage'[i] = stage[i]
           /\ \A i \in 1..Len(stage') : stage'[i].owner = Self
<1>1. /\ pc = "read" /\ pc' = "checkpoint"
      /\ UNCHANGED <<state, journal, staged, out, synced, marker, holder, opt, st, jn, pos>>
  BY DEF ReadPage
<1>2. jn = journal /\ journal.phase = "reading"
  BY <1>1, Underway DEF AmongInv, Located
<1>3. PICK P \in Answers(jn.offset, jn.minID), n \in 0..PageSize :
         \E ids \in [1..n -> IDs] :
            /\ Listing(ids, {id \in InRange(P, jn.minID, jn.start) : ~Unchanged(id)})
            /\ stage' = stage \o Encoded(ids)
            /\ ReportPage(P, jn.offset, jn.minID, jn.start, n)
  BY DEF ReadPage
<1>4. PICK ids \in [1..n -> IDs] :
            /\ Listing(ids, {id \in InRange(P, jn.minID, jn.start) : ~Unchanged(id)})
            /\ stage' = stage \o Encoded(ids)
            /\ ReportPage(P, jn.offset, jn.minID, jn.start, n)
  BY <1>3
<1>5. n \in Nat /\ TypeOK
  BY BoundsAssumption DEF AmongInv, IInv
<1>6. Encoded(ids) \in Seq(Records)
  <2>1. {id \in InRange(P, jn.minID, jn.start) : ~Unchanged(id)} \subseteq P
    BY DEF InRange
  <2> QED BY <1>4, <1>5, <2>1, PageRecordsType
<1>7. Len(Encoded(ids)) = n /\ \A i \in 1..n : Encoded(ids)[i].owner = Self
  BY <1>5 DEF Encoded, RecordOf
<1>8. page'.count = n
  BY <1>4 DEF ReportPage
<1>9. stage \in Seq(Records) /\ Len(stage) \in Nat
  BY Values
<1> DEFINE e == Encoded(ids)
<1> HIDE DEF e
<1>10. e \in Seq(Records) /\ Len(e) = n /\ stage' = stage \o e
       /\ \A i \in 1..n : e[i].owner = Self
  BY <1>4, <1>6, <1>7 DEF e
<1>11. /\ Len(stage') = Len(stage) + n
       /\ \A i \in 1..Len(stage) : stage'[i] = stage[i]
       /\ \A i \in 1..n : stage'[Len(stage) + i] = e[i]
  <2>1. stage \in Seq(Records) /\ e \in Seq(Records)
    BY <1>9, <1>10
  <2>2. /\ Len(stage \o e) = Len(stage) + Len(e)
        /\ \A i \in 1..Len(stage) : (stage \o e)[i] = stage[i]
        /\ \A i \in 1..Len(e) : (stage \o e)[Len(stage) + i] = e[i]
    BY <2>1, JoinFacts
  <2> QED BY <1>10, <2>2
<1>12. ASSUME NEW i \in 1..Len(stage') PROVE stage'[i].owner = Self
  <2>1. CASE i <= Len(stage)
    <3>1. i \in 1..Len(stage)
      BY <1>5, <1>9, <1>11, <2>1
    <3> QED BY <1>11, <3>1 DEF AmongInv, OwnRecords
  <2>2. CASE i > Len(stage)
    <3>1. i - Len(stage) \in 1..n /\ Len(stage) + (i - Len(stage)) = i
      BY <1>5, <1>9, <1>11, <2>2
    <3> QED BY <1>10, <1>11, <3>1
  <2> QED BY <1>5, <1>9, <1>11, <2>1, <2>2
<1> QED BY <1>1, <1>2, <1>8, <1>11, <1>12

\* A page is appended to the stage.
LEMMA ReadPageAmong ==
    ASSUME AmongInv, ReadPage, UNCHANGED others, IInv' PROVE AmongInv'
<1>1. /\ pc = "read" /\ pc' = "checkpoint" /\ jn = journal /\ journal.phase = "reading"
      /\ UNCHANGED <<state, journal, staged, out, synced, marker, holder, opt, st, jn, pos>>
      /\ Len(stage') = Len(stage) + page'.count
      /\ \A i \in 1..Len(stage) : stage'[i] = stage[i]
      /\ \A i \in 1..Len(stage') : stage'[i].owner = Self
  BY PageFacts
<1>2. Len(stage) = journal.bytes /\ st = state /\ pos = 1 /\ ~Full
  BY <1>1 DEF AmongInv, Located
<1>3. /\ Continues' /\ OwnRecords' /\ Accounted' /\ Recorded' /\ Placed'
      /\ (Committed' <=> Committed) /\ (Publishing' <=> Publishing)
  BY <1>1, <1>2, DiskStands
<1>4. Located'
  BY <1>1, <1>2 DEF Located, Writing, Full
<1>5. Locked' /\ Copied'
  BY <1>1 DEF AmongInv, Locked, Copied
<1> QED BY <1>3, <1>4, <1>5 DEF AmongInv, Setting

\* The journal takes the page in.
LEMMA CheckpointAmong ==
    ASSUME AmongInv, CheckpointPage, UNCHANGED others, IInv' PROVE AmongInv'
<1>1. /\ pc = "checkpoint" /\ jn' = journal' /\ pc' \in {"ready", "read"}
      /\ journal' = [jn EXCEPT !.bytes = Len(stage), !.offset = page.next,
                               !.last = Max2(@, page.last), !.added = @ + page.count]
      /\ UNCHANGED <<state, stage, out, synced, marker, holder, st, opt, pos>>
  BY DEF CheckpointPage
<1>2. /\ jn = journal /\ journal.phase = "reading" /\ state = journal.base /\ ~Committed
      /\ st = state /\ pos = 1 /\ Len(stage) = journal.bytes + page.count
  BY <1>1, Underway DEF AmongInv, Located
<1>3. jn \in Journals
  BY Values
<1>4. /\ journal'.phase = jn.phase /\ journal'.base = jn.base /\ journal'.bytes = Len(stage)
      /\ journal'.added = jn.added + page.count
  BY <1>1, <1>3 DEF Journals
<1>5. journal'.added = journal'.bytes /\ journal'.base = state
  BY <1>2, <1>4 DEF AmongInv, Continues
<1>6. ~Publishing
  BY <1>2 DEF Publishing
<1>7. pc # "idle" /\ pc' \in {"read", "ready", "plan"}
      /\ journal'.phase = (IF pc' = "plan" THEN "ready" ELSE "reading")
  BY <1>1, <1>2, <1>4
<1> QED BY <1>1, <1>2, <1>4, <1>5, <1>6, <1>7, StagingAmong

\* The journal says that the range is complete.
LEMMA MarkReadyAmong ==
    ASSUME AmongInv, MarkReady, UNCHANGED others, IInv' PROVE AmongInv'
<1>1. /\ pc = "ready" /\ jn' = journal' /\ pc' = "plan"
      /\ journal' = [jn EXCEPT !.phase = "ready", !.bytes = Len(stage), !.top = top]
      /\ UNCHANGED <<state, stage, out, synced, marker, holder, st, opt, pos>>
  BY DEF MarkReady
<1>2. /\ jn = journal /\ journal.phase = "reading" /\ state = journal.base /\ ~Committed
      /\ st = state /\ pos = 1 /\ Len(stage) = journal.bytes
  BY <1>1, Underway DEF AmongInv, Located
<1>3. jn \in Journals
  BY Values
<1>4. /\ journal'.phase = "ready" /\ journal'.base = jn.base /\ journal'.bytes = Len(stage)
      /\ journal'.added = jn.added
  BY <1>1, <1>3 DEF Journals
<1>5. journal'.added = journal'.bytes /\ journal'.base = state
  BY <1>2, <1>4 DEF AmongInv, Continues
<1>6. ~Publishing
  BY <1>2 DEF Publishing
<1>7. pc # "idle" /\ pc' \in {"read", "ready", "plan"}
      /\ journal'.phase = (IF pc' = "plan" THEN "ready" ELSE "reading")
  BY <1>1, <1>4
<1> QED BY <1>1, <1>2, <1>4, <1>5, <1>6, <1>7, StagingAmong

\* The journal says what the commit will write, and how long the outputs are:
\* as long as what is accounted for, since nobody else is publishing.
LEMMA PlanAmong ==
    ASSUME AmongInv, Plan, UNCHANGED others, IInv' PROVE AmongInv'
<1>1. /\ pc = "plan" /\ jn' = journal' /\ pc' = "verify"
      /\ journal' = [jn EXCEPT !.phase = "planned", !.next = NextState,
                               !.sizes = [p \in Paths |-> IF p \in Mine THEN Len(out[p]) ELSE 0]]
      /\ UNCHANGED <<state, stage, out, synced, marker, holder, opt, pos>>
  BY DEF Plan
<1>2. /\ jn = journal /\ journal.phase = "ready" /\ state = journal.base /\ ~Committed
      /\ st = state /\ pos = 1 /\ Len(stage) = journal.bytes /\ ~Publishing
  BY <1>1, Underway DEF AmongInv, Located, Publishing
<1>3. jn \in Journals /\ st \in SyncStates
  BY Values
<1>4. /\ journal'.phase = "planned" /\ journal'.base = jn.base /\ journal'.bytes = jn.bytes
      /\ journal'.added = jn.added /\ journal'.next = NextState
      /\ journal'.sizes = [p \in Paths |-> IF p \in Mine THEN Len(out[p]) ELSE 0]
  BY <1>1, <1>3 DEF Journals
<1>5. NextState.records = st.records + jn.added /\ NextState.stamp = Fresh
  BY <1>3 DEF NextState, SyncStates
<1>6. NextState # state
  BY <1>5, FreshDiffers
<1>7. Publishing' /\ ~Committed'
  BY <1>1, <1>2, <1>4, <1>6 DEF Publishing, Committed
<1>8. \A p \in Mine : /\ journal'.sizes[p] = Before(p) /\ Len(out[p]) = Before(p)
                      /\ Before(p) \in Nat /\ Before(p) <= synced[p]
                      /\ synced[p] <= Len(out[p])
  BY <1>1, <1>2, <1>4, Values, Numbers, Lengths, OursAtWork
<1>9. Placed' /\ \A p \in Mine : Before(p)' = Before(p)
  BY <1>1, PlacedKept
<1>10. Continues'
  <2>1. NextState.records = journal.base.records + journal.bytes
    BY <1>2, <1>5 DEF AmongInv, Continues
  <2> QED BY <1>1, <1>2, <1>4, <1>6, <2>1 DEF AmongInv, Continues
<1>11. Located'
  BY <1>1, <1>2, <1>4, <1>7 DEF AmongInv, Located, Writing, Full
<1>12. Locked' /\ OwnRecords' /\ Copied'
  BY <1>1 DEF AmongInv, Locked, OwnRecords, Copied
<1>13. Accounted'
  BY <1>1, <1>8, <1>9 DEF Accounted
<1>14. Recorded'
  <2> SUFFICES ASSUME NEW p \in Mine
               PROVE  /\ journal'.sizes[p] <= Before(p)
                      /\ \A k \in journal'.sizes[p] + 1..Before(p) : out[p][k].owner # Self
    BY <1>1, <1>9 DEF Recorded
  <2>1. journal'.sizes[p] = Before(p) /\ Before(p) \in Nat
    BY <1>8
  <2> QED BY <2>1
<1> QED BY <1>9, <1>10, <1>11, <1>12, <1>13, <1>14 DEF AmongInv, Setting

(***************************************************************************)
(* The steps of this chat: the range is copied to the outputs              *)
(***************************************************************************)

\* The lengths of the outputs are checked.
LEMMA VerifyAmong ==
    ASSUME AmongInv, Verify, UNCHANGED others, IInv' PROVE AmongInv'
<1>1. /\ pc = "verify" /\ pc' = "mark"
      /\ UNCHANGED <<state, journal, stage, out, synced, marker, holder, opt, page, pos>>
  BY DEF Verify, disk, memory
<1>2. /\ Continues' /\ OwnRecords' /\ Accounted' /\ Recorded' /\ Placed'
      /\ (Committed' <=> Committed) /\ (Publishing' <=> Publishing)
  <2>1. \A i \in 1..Len(stage') : stage'[i].owner = Self
    BY <1>1 DEF AmongInv, OwnRecords
  <2> QED BY <1>1, <2>1, DiskStands
<1>3. Located' /\ Locked' /\ Copied'
  BY <1>1, <1>2 DEF AmongInv, Located, Locked, Copied, Writing, Full
<1> QED BY <1>2, <1>3 DEF AmongInv, Setting

\* One more output is marked; the shared one is the last.
LEMMA MarkAmong ==
    ASSUME AmongInv, Mark, UNCHANGED others, IInv' PROVE AmongInv'
<1>1. /\ pc = "mark" /\ ~Full /\ marker[Outputs[pos]] \in {NoOwner, Self}
      /\ marker' = [marker EXCEPT ![Outputs[pos]] = Self]
      /\ IF pos < Len(Outputs) THEN pc' = "mark" /\ pos' = pos + 1
                               ELSE pc' = "compare" /\ pos' = 1
      /\ UNCHANGED <<state, journal, stage, out, synced, holder, opt, page>>
  BY DEF Mark, AmongInv, Located
<1>2. /\ pos \in {1, 2} /\ Outputs[1] = Stream /\ Outputs[2] = Shared /\ Len(Outputs) = 2
      /\ Stream # Shared /\ Shared \in Paths /\ Stream \in Paths
      /\ marker \in [Paths -> Owners \cup {NoOwner}]
  BY TwoOutputs, Values DEF AmongInv
<1>3. /\ marker'[Shared] = (IF pos = 2 THEN Self ELSE marker[Shared])
      /\ pc' = (IF pos = 2 THEN "compare" ELSE "mark")
  BY <1>1, <1>2
<1>4. /\ Continues' /\ OwnRecords' /\ Accounted' /\ Recorded' /\ Placed'
      /\ (Committed' <=> Committed) /\ (Publishing' <=> Publishing)
  <2>1. \A i \in 1..Len(stage') : stage'[i].owner = Self
    BY <1>1 DEF AmongInv, OwnRecords
  <2>2. marker[Shared] \in {NoOwner, Self}
    BY <1>1 DEF AmongInv, Locked
  <2>3. marker[Shared] = Self => marker'[Shared] = Self
    BY <1>3
  <2> QED BY <1>1, <2>1, <2>2, <2>3, DiskStands
<1>5. Located' /\ Copied'
  BY <1>1, <1>3, <1>4 DEF AmongInv, Located, Copied, Writing, Full
<1>6. Locked'
  BY <1>1, <1>3 DEF AmongInv, Locked
<1> QED BY <1>4, <1>5, <1>6 DEF AmongInv, Setting

\* What the outputs hold past their planned size is checked: had another chat
\* committed records there, they would not be the stage's.
LEMMA CompareAmong ==
    ASSUME AmongInv, Compare, UNCHANGED others, IInv' PROVE AmongInv'
<1>1. /\ pc = "compare" /\ pc' = "copy" /\ pos' = 1 /\ \A p \in Mine : SuffixOurs(p)
      /\ UNCHANGED <<state, journal, stage, out, synced, marker, holder, opt, page>>
  BY DEF Compare, disk
<1>2. /\ Continues' /\ OwnRecords' /\ Accounted' /\ Recorded' /\ Placed'
      /\ (Committed' <=> Committed) /\ (Publishing' <=> Publishing)
      /\ \A p \in Mine : Before(p)' = Before(p)
  <2>1. \A i \in 1..Len(stage') : stage'[i].owner = Self
    BY <1>1 DEF AmongInv, OwnRecords
  <2> QED BY <1>1, <2>1, DiskStands
<1>3. ASSUME NEW p \in Mine PROVE journal.sizes[p] = Before(p)
  <2>1. Publishing /\ jn = journal
    BY <1>1, Underway DEF AmongInv, Located, Writing
  <2>2. /\ journal.sizes[p] <= Before(p)
        /\ \A k \in journal.sizes[p] + 1..Before(p) : out[p][k].owner # Self
    BY <2>1 DEF AmongInv, Recorded
  <2>3. /\ journal.sizes[p] \in Nat /\ Before(p) \in Nat /\ Len(out[p]) \in Nat
        /\ Before(p) <= Len(out[p])
    <3>1. Before(p) <= synced[p] /\ synced[p] <= Len(out[p]) /\ synced[p] \in Nat
      BY Lengths, Values
    <3> QED BY <3>1, Numbers, Values
  <2>4. SUFFICES ASSUME journal.sizes[p] < Before(p) PROVE FALSE
    BY <2>2, <2>3
  <2>5. 1 \in 1..(Len(out[p]) - journal.sizes[p]) /\ journal.sizes[p] + 1 \in journal.sizes[p] + 1..Before(p)
    BY <2>3, <2>4
  <2>6. 1 \in DOMAIN stage /\ out[p][journal.sizes[p] + 1] = stage[1]
    BY <1>1, <2>1, <2>5 DEF SuffixOurs
  <2>7. stage[1].owner = Self
    <3>1. DOMAIN stage = 1..Len(stage)
      BY Values, LenProperties
    <3> QED BY <2>6, <3>1 DEF AmongInv, OwnRecords
  <2> QED BY <2>2, <2>5, <2>6, <2>7
<1>4. Located' /\ Locked'
  BY <1>1, <1>2 DEF AmongInv, Located, Locked, Writing, Full
<1>5. Copied'
  BY <1>1, <1>2, <1>3 DEF Copied
<1> QED BY <1>2, <1>4, <1>5 DEF AmongInv, Setting

\* What copying does to the output at hand.
LEMMA CopyFacts ==
    ASSUME AmongInv, Copy
    PROVE  LET p == Outputs[pos]
           IN  /\ p \in Mine
               /\ Len(out'[p]) = Before(p) + journal.bytes
               /\ \A i \in 1..Before(p) : out'[p][i] = out[p][i]
               /\ \A i \in 1..journal.bytes : out'[p][Before(p) + i] = stage[i]
               /\ \A q \in Paths \ {p} : out'[q] = out[q]
               /\ Len(out[p]) <= Len(out'[p])
<1> DEFINE p == Outputs[pos]
<1>1. /\ pc = "copy" /\ out' = [out EXCEPT ![p] = Overwrite(out[p], jn.sizes[p], stage)]
  BY DEF Copy
<1>2. p \in Mine /\ p \in Paths /\ out[p] \in Seq(Records) /\ out \in [Paths -> Seq(Records)]
      /\ stage \in Seq(Records) /\ Len(out[p]) \in Nat
  <2>1. p \in Mine
    BY TwoOutputs, Values DEF AmongInv
  <2> QED BY <2>1, Values
<1> HIDE DEF p
<1>3. jn = journal /\ Publishing /\ Len(stage) = journal.bytes
  BY <1>1, Underway DEF AmongInv, Located, Writing
<1>4. /\ journal.sizes[p] = Before(p) /\ Before(p) <= Len(out[p])
      /\ Len(out[p]) <= Before(p) + journal.bytes
  <2>1. /\ journal.sizes[p] = Before(p) /\ Before(p) <= synced[p]
        /\ synced[p] <= Len(out[p]) /\ Len(out[p]) <= Before(p) + journal.bytes
    <3>1. journal.sizes[p] = Before(p)
      BY <1>1, <1>2 DEF AmongInv, Copied
    <3> QED BY <1>1, <1>2, <3>1, Lengths, OursAtWork
  <2>2. synced[p] \in Nat /\ Before(p) \in Nat
    BY <1>2, Values, Numbers
  <2> QED BY <1>2, <2>1, <2>2
<1>5. Before(p) \in 0..Len(out[p]) /\ Len(out[p]) <= Before(p) + Len(stage)
  BY <1>2, <1>3, <1>4, Numbers
<1>6. /\ Len(Overwrite(out[p], Before(p), stage)) = Before(p) + Len(stage)
      /\ \A i \in 1..Before(p) : Overwrite(out[p], Before(p), stage)[i] = out[p][i]
      /\ \A i \in 1..Len(stage) :
             Overwrite(out[p], Before(p), stage)[Before(p) + i] = stage[i]
  <2>1. out[p] \in Seq(Records) /\ stage \in Seq(Records)
    BY <1>2
  <2> QED BY <1>5, <2>1, OverwriteFacts
<1>7. /\ out'[p] = Overwrite(out[p], Before(p), stage)
      /\ \A q \in Paths \ {p} : out'[q] = out[q]
  BY <1>1, <1>2, <1>3, <1>4
<1>8. /\ p \in Mine /\ Len(out'[p]) = Before(p) + journal.bytes
      /\ \A i \in 1..Before(p) : out'[p][i] = out[p][i]
      /\ \A i \in 1..journal.bytes : out'[p][Before(p) + i] = stage[i]
      /\ \A q \in Paths \ {p} : out'[q] = out[q]
      /\ Len(out[p]) <= Len(out'[p])
  BY <1>2, <1>3, <1>4, <1>6, <1>7
<1> QED BY <1>8 DEF p

\* It leaves what is accounted for.
LEMMA CopyKeeps ==
    ASSUME AmongInv, Copy
    PROVE  \A q \in Mine : \A i \in 1..Before(q) : out'[q][i] = out[q][i]
<1> DEFINE p == Outputs[pos]
<1>1. /\ \A i \in 1..Before(p) : out'[p][i] = out[p][i]
      /\ \A q \in Paths \ {p} : out'[q] = out[q]
  BY CopyFacts
<1> HIDE DEF p
<1>2. \A q \in Mine : q \in Paths
  BY Values
<1> QED BY <1>1, <1>2

\* One output receives the whole stage.
LEMMA CopyAmong ==
    ASSUME AmongInv, Copy, UNCHANGED others, IInv' PROVE AmongInv'
<1> DEFINE p == Outputs[pos]
<1>1. /\ pc = "copy" /\ pc' = "flush"
      /\ UNCHANGED <<state, journal, stage, synced, marker, holder, opt, page, pos>>
  BY DEF Copy, memory
<1>2. /\ p \in Mine
      /\ Len(out'[p]) = Before(p) + journal.bytes
      /\ \A i \in 1..journal.bytes : out'[p][Before(p) + i] = stage[i]
      /\ \A q \in Paths \ {p} : out'[q] = out[q]
      /\ Len(out[p]) <= Len(out'[p])
  BY CopyFacts
<1>3. pos \in {1, 2} /\ Outputs[1] = Stream /\ Outputs[2] = Shared /\ Stream # Shared
      /\ Mine = {Stream, Shared} /\ Mine \subseteq Paths
  BY TwoOutputs, Values DEF AmongInv
<1>4. Publishing /\ \A q \in Mine : journal.sizes[q] = Before(q)
  BY <1>1 DEF AmongInv, Located, Writing, Copied
<1>5. /\ Continues' /\ Recorded' /\ Placed'
      /\ (Committed' <=> Committed) /\ (Publishing' <=> Publishing)
      /\ \A q \in Mine : Before(q)' = Before(q)
      /\ \A i \in 1..state.records : out'[Stream][i].owner = Self
  BY <1>1, CopyKeeps, FilesKept
<1>6. marker[Shared] = Self
  BY <1>1 DEF AmongInv, Locked
<1>7. Located' /\ Locked'
  BY <1>1, <1>5 DEF AmongInv, Located, Locked, Writing, Full
<1>8. OwnRecords'
  BY <1>1, <1>5 DEF AmongInv, OwnRecords
<1> HIDE DEF p
<1>9. Accounted'
  <2> SUFFICES ASSUME NEW q \in Mine
               PROVE  /\ Before(q) <= synced[q] /\ synced[q] <= Len(out'[q])
                      /\ Len(out'[q]) # Before(q) =>
                             /\ Len(out'[q]) <= Before(q) + journal.bytes
                             /\ \A i \in 1..Len(out'[q]) - Before(q) :
                                    out'[q][Before(q) + i] = stage[i]
    BY <1>1, <1>4, <1>5, <1>6 DEF Accounted
  <2>0. /\ Before(q) <= synced[q] /\ synced[q] <= Len(out[q])
        /\ synced[q] \in Nat /\ Len(out[q]) \in Nat /\ Before(q) \in Nat
        /\ journal.bytes \in Nat
    BY Lengths, Values, Numbers
  <2>1. CASE q = p
    <3>1. synced[q] <= Len(out'[q]) /\ Len(out'[q]) - Before(q) = journal.bytes
      BY <1>2, <2>0, <2>1
    <3> QED BY <1>2, <2>0, <2>1, <3>1
  <2>2. CASE q # p
    <3>1. out'[q] = out[q] /\ Ours(q)
      BY <1>1, <1>2, <1>3, <2>2, OursAtWork
    <3> QED BY <3>1 DEF AmongInv, Accounted
  <2> QED BY <2>1, <2>2
<1>10. Copied'
  <2>1. Len(out'[Outputs[pos]]) = Before(Outputs[pos]) + journal.bytes
    BY <1>2 DEF p
  <2>2. ASSUME NEW i \in 1..pos - 1
        PROVE  /\ Outputs[i] \in Mine /\ Whole(Outputs[i])' /\ synced[Outputs[i]] = Len(out'[Outputs[i]])
    <3>1. i = 1 /\ pos = 2
      BY <1>3
    <3>2. Outputs[i] # p /\ Outputs[i] \in Mine
      BY <1>3, <3>1 DEF p
    <3>3. Whole(Outputs[i]) /\ synced[Outputs[i]] = Len(out[Outputs[i]])
      BY <1>1 DEF AmongInv, Copied
    <3>4. out'[Outputs[i]] = out[Outputs[i]]
      BY <1>2, <1>3, <3>2
    <3> QED BY <1>1, <1>5, <3>2, <3>3, <3>4 DEF Whole
  <2>3. Outputs[pos] \in Mine
    BY <1>2 DEF p
  <2> QED BY <1>1, <1>4, <1>5, <2>1, <2>2, <2>3 DEF Copied, Whole
<1> QED BY <1>5, <1>7, <1>8, <1>9, <1>10 DEF AmongInv, Setting

\* One output is synced.
LEMMA FlushAmong ==
    ASSUME AmongInv, Flush, UNCHANGED others, IInv' PROVE AmongInv'
<1>1. /\ pc = "flush" /\ synced' = [synced EXCEPT ![Outputs[pos]] = Len(out[Outputs[pos]])]
      /\ IF pos < Len(Outputs) THEN pc' = "copy" /\ pos' = pos + 1
                               ELSE pc' = "commit" /\ pos' = 1
      /\ UNCHANGED <<state, journal, stage, out, marker, holder, opt, page>>
  BY DEF Flush
<1>2. pos \in {1, 2} /\ Outputs[1] = Stream /\ Outputs[2] = Shared /\ Stream # Shared
      /\ Mine = {Stream, Shared} /\ Mine \subseteq Paths /\ Len(Outputs) = 2
      /\ synced \in [Paths -> Nat]
  BY TwoOutputs, Values DEF AmongInv
<1>3. /\ \A q \in Mine : synced'[q] = IF q = Outputs[pos] THEN Len(out[q]) ELSE synced[q]
      /\ IF pos = 1 THEN pc' = "copy" /\ pos' = 2 ELSE pc' = "commit" /\ pos' = 1
  BY <1>1, <1>2
<1>4. /\ Continues' /\ Recorded' /\ Placed'
      /\ (Committed' <=> Committed) /\ (Publishing' <=> Publishing)
      /\ \A q \in Mine : Before(q)' = Before(q)
  BY <1>1, FilesKept
<1>5. Located' /\ Locked' /\ OwnRecords'
  BY <1>1, <1>3, <1>4 DEF AmongInv, Located, Locked, OwnRecords, Writing, Full
<1>6. Accounted'
  <2>1. ASSUME NEW q \in Mine PROVE Before(q) <= synced'[q] /\ synced'[q] <= Len(out[q])
    <3>1. Before(q) <= synced[q] /\ synced[q] <= Len(out[q])
      BY Lengths
    <3>2. Before(q) \in Nat /\ synced[q] \in Nat /\ Len(out[q]) \in Nat
      BY Values, Numbers
    <3> QED BY <1>3, <3>1, <3>2
  <2> QED BY <1>1, <1>4, <2>1 DEF AmongInv, Accounted, Ours
<1>7. Copied'
  <2>1. /\ \A q \in Mine : journal.sizes[q] = Before(q)
        /\ \A i \in 1..pos - 1 : Whole(Outputs[i]) /\ synced[Outputs[i]] = Len(out[Outputs[i]])
        /\ Whole(Outputs[pos])
    BY <1>1 DEF AmongInv, Copied
  <2>2. CASE pos = 1
    <3>1. Whole(Stream)' /\ synced'[Stream] = Len(out[Stream])
      BY <1>1, <1>2, <1>3, <1>4, <2>1, <2>2 DEF Whole
    <3>2. \A i \in 1..1 : Outputs[i] = Stream
      BY <1>2
    <3>3. pc' = "copy" /\ pos' - 1 = 1
      BY <1>3, <2>2
    <3> QED BY <1>1, <1>4, <2>1, <3>1, <3>2, <3>3 DEF Copied
  <2>3. CASE pos = 2
    <3>1. 1 \in 1..pos - 1
      BY <2>3
    <3>2. Whole(Stream) /\ synced[Stream] = Len(out[Stream]) /\ Whole(Shared)
      BY <1>2, <2>1, <2>3, <3>1
    <3>3. \A q \in Mine : Whole(q)' /\ synced'[q] = Len(out[q])
      BY <1>1, <1>2, <1>3, <1>4, <2>3, <3>2 DEF Whole
    <3>4. pc' = "commit"
      BY <1>3, <2>3
    <3> QED BY <1>1, <1>4, <2>1, <3>3, <3>4 DEF Copied
  <2> QED BY <1>2, <2>2, <2>3
<1> QED BY <1>4, <1>5, <1>6, <1>7 DEF AmongInv, Setting

\* What the commit adds to what the state accounts for.
LEMMA CommitFacts ==
    ASSUME AmongInv, Commit, UNCHANGED others
    PROVE  /\ pc = "commit" /\ state' = journal.next /\ Publishing
           /\ UNCHANGED <<journal, stage, out, synced, marker, holder>>
           /\ state'.records = state.records + journal.bytes
           /\ \A p \in Mine :
                  /\ Before(p)' = Before(p) + journal.bytes
                  /\ Len(out[p]) = Before(p)' /\ synced[p] = Before(p)'
                  /\ \A i \in 1..journal.bytes : /\ out[p][Before(p) + i] = stage[i]
                                                 /\ stage[i].owner = Self
           /\ Committed' /\ ~Publishing'
<1>1. /\ pc = "commit" /\ state' = jn.next
      /\ UNCHANGED <<journal, stage, out, synced, marker, holder>>
  BY DEF Commit
<1>2. jn = journal /\ Publishing /\ state = journal.base /\ journal.phase = "planned"
      /\ Len(stage) = journal.bytes
  BY <1>1, Underway DEF AmongInv, Located, Writing
<1>3. state'.records = state.records + journal.bytes
  BY <1>1, <1>2 DEF AmongInv, Continues
<1>4. state.records \in Nat /\ others \in Nat /\ journal.bytes \in Nat
  BY Numbers
<1>5. ASSUME NEW p \in Mine
      PROVE  /\ Before(p)' = Before(p) + journal.bytes
             /\ Len(out[p]) = Before(p)' /\ synced[p] = Before(p)'
             /\ \A i \in 1..journal.bytes : /\ out[p][Before(p) + i] = stage[i]
                                            /\ stage[i].owner = Self
  <2>1. Before(p)' = Before(p) + journal.bytes
    BY <1>3, <1>4 DEF Before
  <2>2. Len(out[p]) = Before(p) + journal.bytes /\ synced[p] = Len(out[p])
    BY <1>1 DEF AmongInv, Copied, Whole
  <2>3. Before(p) \in Nat /\ Len(out[p]) - Before(p) = journal.bytes
    BY <1>4, <2>2, Numbers
  <2>4. Ours(p)
    BY <1>1, OursAtWork
  <2>5. ASSUME NEW i \in 1..journal.bytes
        PROVE  out[p][Before(p) + i] = stage[i] /\ stage[i].owner = Self
    <3>1. Len(out[p]) # Before(p)
      BY <1>4, <2>2, <2>3, <2>5
    <3> QED BY <1>2, <2>3, <2>4, <2>5, <3>1 DEF AmongInv, Accounted, OwnRecords
  <2> QED BY <2>1, <2>2, <2>5
<1>6. Committed' /\ ~Publishing'
  BY <1>1, <1>2 DEF Committed, Publishing
<1> QED BY <1>1, <1>2, <1>3, <1>5, <1>6

\* What the commit adds to the stream is in the shared output, after the rest.
LEMMA CommitPlaced ==
    ASSUME AmongInv, Commit, UNCHANGED others PROVE Placed'
<1> DEFINE r == state.records
           n == Before(Shared)
           b == journal.bytes
<1>1. Stream \in Mine /\ Shared \in Mine /\ Before(Stream) = r
  BY Values, Numbers
<1>2. /\ out' = out /\ state'.records = r + b
      /\ Before(Shared)' = n + b
      /\ \A i \in 1..b : out[Shared][n + i] = stage[i] /\ out[Stream][r + i] = stage[i]
  BY <1>1, CommitFacts
<1>3. r \in Nat /\ n \in Nat /\ b \in Nat
  BY <1>1, Numbers
<1>4. PICK place : PlacedAt(place, r, n)
  BY DEF AmongInv, Placed
<1> HIDE DEF r, n, b
<1>5. /\ place \in [1..r -> 1..n]
      /\ \A i, k \in 1..r : i < k => place[i] < place[k]
      /\ \A i \in 1..r : out[Shared][place[i]] = out[Stream][i]
      /\ \A k \in 1..n : out[Shared][k].owner = Self => \E i \in 1..r : place[i] = k
  BY <1>4 DEF PlacedAt
<1> DEFINE next == [i \in 1..r + b |-> IF i <= r THEN place[i] ELSE n + (i - r)]
<1>6. ASSUME NEW i \in 1..r + b
      PROVE  \/ i \in 1..r /\ next[i] = place[i] /\ place[i] \in 1..n
             \/ i - r \in 1..b /\ next[i] = n + (i - r) /\ i > r
  <2>1. CASE i <= r
    <3>1. i \in 1..r
      BY <1>3, <2>1
    <3> QED BY <1>5, <1>6, <2>1, <3>1
  <2>2. CASE ~(i <= r)
    <3>1. i - r \in 1..b /\ i > r
      BY <1>3, <2>2
    <3> QED BY <1>6, <2>2, <3>1
  <2> QED BY <2>1, <2>2
<1>7. next \in [1..r + b -> 1..n + b]
  <2>1. ASSUME NEW i \in 1..r + b PROVE next[i] \in 1..n + b
    BY <1>3, <1>6
  <2>2. next = [i \in 1..r + b |-> next[i]]
    OBVIOUS
  <2> HIDE DEF next
  <2> QED BY <2>1, <2>2
<1>8. ASSUME NEW i \in 1..r, NEW j \in 1..b
      PROVE  /\ i \in 1..r + b /\ r + j \in 1..r + b
             /\ next[i] = place[i] /\ next[r + j] = n + j
  <2>1. i \in 1..r + b /\ r + j \in 1..r + b /\ i <= r /\ ~(r + j <= r) /\ n + ((r + j) - r) = n + j
    BY <1>3
  <2> QED BY <2>1
<1>9. \A i \in 1..r : i \in 1..r + b /\ next[i] = place[i]
  <2> TAKE i \in 1..r
  <2>1. i \in 1..r + b /\ i <= r
    BY <1>3
  <2> QED BY <2>1
<1>10. \A j \in 1..b : r + j \in 1..r + b /\ next[r + j] = n + j
  <2> TAKE j \in 1..b
  <2>1. r + j \in 1..r + b /\ ~(r + j <= r) /\ n + ((r + j) - r) = n + j
    BY <1>3
  <2> QED BY <2>1
<1> HIDE DEF next
<1>11. ASSUME NEW i \in 1..r + b, NEW k \in 1..r + b, i < k PROVE next[i] < next[k]
  <2>1. CASE i \in 1..r /\ k \in 1..r
    BY <1>5, <1>9, <1>11, <2>1
  <2>2. CASE i \in 1..r /\ k - r \in 1..b /\ next[k] = n + (k - r)
    <3>1. next[i] \in 1..n
      BY <1>5, <1>9, <2>2
    <3> QED BY <1>3, <2>2, <3>1
  <2>3. CASE k \in 1..r /\ i > r
    BY <1>3, <1>11, <2>3
  <2>4. CASE /\ i - r \in 1..b /\ next[i] = n + (i - r)
             /\ k - r \in 1..b /\ next[k] = n + (k - r)
    BY <1>3, <1>11, <2>4
  <2> QED BY <1>6, <2>1, <2>2, <2>3, <2>4
<1>12. ASSUME NEW i \in 1..r + b PROVE out[Shared][next[i]] = out[Stream][i]
  <2>1. CASE i \in 1..r
    BY <1>5, <1>9, <2>1
  <2>2. CASE i - r \in 1..b /\ next[i] = n + (i - r)
    <3>1. r + (i - r) = i
      BY <1>3
    <3> QED BY <1>2, <2>2, <3>1
  <2> QED BY <1>6, <2>1, <2>2
<1>13. ASSUME NEW k \in 1..n + b, out[Shared][k].owner = Self
       PROVE  \E i \in 1..r + b : next[i] = k
  <2>1. CASE k <= n
    <3>1. k \in 1..n
      BY <1>3, <2>1
    <3>2. PICK i \in 1..r : place[i] = k
      BY <1>5, <1>13, <3>1
    <3> QED BY <1>9, <3>2
  <2>2. CASE k > n
    <3>1. k - n \in 1..b /\ n + (k - n) = k
      BY <1>3, <2>2
    <3> QED BY <1>10, <3>1
  <2> QED BY <1>3, <2>1, <2>2
<1>14. \E f : /\ f \in [1..r + b -> 1..n + b]
              /\ \A i, k \in 1..r + b : i < k => f[i] < f[k]
              /\ \A i \in 1..r + b : out[Shared][f[i]] = out[Stream][i]
              /\ \A k \in 1..n + b : out[Shared][k].owner = Self =>
                                       \E i \in 1..r + b : f[i] = k
  <2>1. \A i, k \in 1..r + b : i < k => next[i] < next[k]
    BY <1>11
  <2>2. \A i \in 1..r + b : out[Shared][next[i]] = out[Stream][i]
    BY <1>12
  <2>3. \A k \in 1..n + b : out[Shared][k].owner = Self => \E i \in 1..r + b : next[i] = k
    BY <1>13
  <2> QED BY <1>7, <2>1, <2>2, <2>3
<1>15. PICK f : /\ f \in [1..r + b -> 1..n + b]
                /\ \A i, k \in 1..r + b : i < k => f[i] < f[k]
                /\ \A i \in 1..r + b : out[Shared][f[i]] = out[Stream][i]
                /\ \A k \in 1..n + b : out[Shared][k].owner = Self =>
                                         \E i \in 1..r + b : f[i] = k
  BY <1>14
<1>16. PlacedAt(f, state.records, Before(Shared))'
  BY <1>2, <1>15 DEF PlacedAt
<1> QED BY <1>16 DEF Placed

\* The planned checkpoint replaces the state.
LEMMA CommitAmong ==
    ASSUME AmongInv, Commit, UNCHANGED others, IInv' PROVE AmongInv'
<1>1. pc = "commit" /\ pc' = "unmark" /\ pos' = 1 /\ UNCHANGED <<opt, page>>
  BY DEF Commit
<1>2. /\ Publishing /\ state' = journal.next
      /\ UNCHANGED <<journal, stage, out, synced, marker, holder>>
      /\ state'.records = state.records + journal.bytes
      /\ \A p \in Mine :
             /\ Before(p)' = Before(p) + journal.bytes
             /\ Len(out[p]) = Before(p)' /\ synced[p] = Before(p)'
             /\ \A i \in 1..journal.bytes : /\ out[p][Before(p) + i] = stage[i]
                                            /\ stage[i].owner = Self
      /\ Committed' /\ ~Publishing'
  BY CommitFacts
<1>3. Continues'
  BY <1>2 DEF AmongInv, Continues, Publishing
<1>4. Located' /\ Locked' /\ Copied' /\ Recorded'
  BY <1>1, <1>2 DEF AmongInv, Located, Locked, Copied, Recorded, Writing, Full
<1>5. OwnRecords'
  <2>1. ASSUME NEW i \in 1..state'.records PROVE out[Stream][i].owner = Self
    <3>1. state.records \in Nat /\ journal.bytes \in Nat /\ Stream \in Mine
          /\ Before(Stream) = state.records
      BY Values, Numbers
    <3>2. CASE i <= state.records
      BY <1>2, <3>1, <3>2 DEF AmongInv, OwnRecords
    <3>3. CASE i > state.records
      <4>1. i - state.records \in 1..journal.bytes
            /\ state.records + (i - state.records) = i
        BY <1>2, <3>1, <3>3
      <4>2. /\ out[Stream][Before(Stream) + (i - state.records)] = stage[i - state.records]
            /\ stage[i - state.records].owner = Self
        BY <1>2, <3>1, <4>1
      <4> QED BY <3>1, <4>1, <4>2
    <3> QED BY <1>2, <3>1, <3>2, <3>3
  <2> QED BY <1>2, <2>1 DEF AmongInv, OwnRecords
<1>6. Accounted'
  <2>1. \A p \in Mine : Len(out[p]) \in Nat
    BY Values
  <2> QED BY <1>2, <2>1 DEF Accounted
<1> QED BY <1>3, <1>4, <1>5, <1>6, CommitPlaced DEF AmongInv, Setting

\* One more marker is removed.
LEMMA UnmarkAmong ==
    ASSUME AmongInv, Unmark, UNCHANGED others, IInv' PROVE AmongInv'
<1>1. /\ pc = "unmark" /\ marker' = [marker EXCEPT ![Outputs[pos]] = NoOwner]
      /\ pc' \in {"unmark", "removeJournal"}
      /\ UNCHANGED <<state, journal, stage, out, synced, holder, opt, page>>
  BY DEF Unmark, AmongInv, Located
<1>2. Committed /\ ~Publishing
  BY <1>1 DEF AmongInv, Located, Committed, Publishing
<1>3. /\ marker[Shared] \in {NoOwner, Self} /\ marker'[Shared] \in {NoOwner, Self}
  <2>1. marker[Shared] \in {NoOwner, Self} /\ Shared \in Paths
    BY <1>1, Values DEF AmongInv, Locked
  <2> QED BY <1>1, <2>1, Values
<1>4. /\ Continues' /\ OwnRecords' /\ Accounted' /\ Recorded' /\ Placed'
      /\ (Committed' <=> Committed) /\ (Publishing' <=> Publishing)
  <2>1. \A i \in 1..Len(stage') : stage'[i].owner = Self
    BY <1>1 DEF AmongInv, OwnRecords
  <2> QED BY <1>1, <1>2, <1>3, <2>1, DiskStands
<1>5. Located' /\ Locked' /\ Copied'
  BY <1>1, <1>2, <1>3, <1>4 DEF AmongInv, Located, Locked, Copied, Writing, Full
<1> QED BY <1>1, <1>4, <1>5 DEF AmongInv, Setting

\* The journal is removed.
LEMMA RemoveJournalAmong ==
    ASSUME AmongInv, RemoveJournal, UNCHANGED others, IInv' PROVE AmongInv'
<1>1. /\ pc = "removeJournal" /\ pc' = "removeStage" /\ journal' = NoJournal
      /\ UNCHANGED <<state, stage, out, synced, marker, holder, opt, page, pos>>
  BY DEF RemoveJournal, memory
<1>2. journal'.phase = "absent" /\ ~Publishing /\ ~Publishing' /\ ~Committed'
  BY <1>1 DEF NoJournal, AmongInv, Located, Committed, Publishing
<1>3. Accounted' /\ Recorded' /\ Placed'
  BY <1>1, <1>2, NothingPublished
<1>4. Continues' /\ OwnRecords'
  BY <1>1, <1>2 DEF AmongInv, Continues, OwnRecords
<1>5. Located' /\ Locked' /\ Copied'
  BY <1>1, <1>2 DEF AmongInv, Located, Locked, Copied, Writing, Full
<1> QED BY <1>3, <1>4, <1>5 DEF AmongInv, Setting

(***************************************************************************)
(* The invariant of this chat, and its promise                             *)
(***************************************************************************)

\* Before the first run nothing is accounted for.
LEMMA InitAmong == ASSUME Init, Setting, others = 0 PROVE AmongInv
<1>1. /\ state = ZeroState /\ journal = NoJournal /\ stage = <<>>
      /\ out = [p \in Paths |-> <<>>] /\ synced = [p \in Paths |-> 0]
      /\ marker = [p \in Paths |-> NoOwner] /\ pc = "idle" /\ opt = NoOpt
  BY DEF Init
<1>2. IInv
  BY InitInv
<1>3. journal.phase = "absent" /\ ~Publishing /\ state.records = 0
  BY <1>1 DEF NoJournal, Publishing, ZeroState
<1>4. Mine \subseteq Paths /\ Shared \in Mine /\ Stream \in Mine
  BY TwoOutputs
<1>5. \A p \in Mine : Before(p) = 0 /\ out[p] = <<>> /\ synced[p] = 0
  BY <1>1, <1>3, <1>4 DEF Before
<1>6. Continues /\ Recorded
  BY <1>3 DEF Continues, Recorded
<1>7. Located /\ Locked /\ Copied
  BY <1>1 DEF Located, Locked, Copied, Writing, Full, NoOpt
<1>8. OwnRecords
  BY <1>1, <1>3 DEF OwnRecords
<1>9. Accounted
  BY <1>5 DEF Accounted
<1>10. Placed
  <2> DEFINE none == [i \in 1..0 |-> 0]
  <2>1. PlacedAt(none, 0, 0)
    <3>1. 1..0 = {}
      OBVIOUS
    <3> QED BY <3>1 DEF PlacedAt
  <2> QED BY <1>3, <1>4, <1>5, <2>1 DEF Placed
<1> QED BY <1>2, <1>6, <1>7, <1>8, <1>9, <1>10 DEF AmongInv

\* Every step of this chat keeps its invariant.
LEMMA OwnStep ==
    ASSUME AmongInv, [Next]_vars, UNCHANGED others PROVE AmongInv'
<1>1. IInv'
  BY KeepsTypes DEF AmongInv
<1>2. CASE UNCHANGED vars
  BY <1>1, <1>2, QuietAmong DEF vars
<1>3. CASE Environment
  <2>1. UNCHANGED <<disk, holder, pc, memory>>
    BY <1>3 DEF Environment, Post, Edit, Delete
  <2> QED BY <1>1, <2>1, QuietAmong
<1>4. ASSUME NEW o \in Options, Start(o) PROVE AmongInv'
  <2>1. StartIncremental(o)
    BY <1>4 DEF AmongInv, Setting, Start, StartFull
  <2> QED BY <1>1, <2>1, StartAmong
<1>5. CASE Step
  <2>1. ~(OpenOutput \/ ReadHistoryPage \/ CheckpointHistory \/ Finish)
    BY DEF OpenOutput, ReadHistoryPage, CheckpointHistory, Finish, AmongInv, Located
  <2>2. \/ OpenStage \/ SaveJournal \/ ReadPage \/ CheckpointPage \/ MarkReady
        \/ Plan \/ Verify \/ Mark \/ Compare \/ Copy \/ Flush \/ Commit \/ Unmark
        \/ RemoveJournal \/ RemoveStage \/ Refuse
    BY <1>5, <2>1 DEF Step
  <2> QED
    BY <1>1, <2>2, OpenStageAmong, SaveJournalAmong, ReadPageAmong, CheckpointAmong,
       MarkReadyAmong, PlanAmong, VerifyAmong, MarkAmong, CompareAmong, CopyAmong,
       FlushAmong, CommitAmong, UnmarkAmong, RemoveJournalAmong, RemoveStageAmong,
       RefuseAmong
<1>6. CASE Crash
  BY <1>1, <1>6, CrashAmong
<1> QED BY <1>2, <1>3, <1>4, <1>5, <1>6 DEF Next

\* A step that leaves the outputs, their markers and the state alone, and at
\* most takes or gives back the locks, keeps the promise.
LEMMA QuietGuarantee ==
    ASSUME AmongInv, UNCHANGED <<state, out, synced, others>>,
           \A p \in Paths \ Mine : marker'[p] = marker[p] /\ holder'[p] = holder[p],
           marker'[Shared] \in {marker[Shared], NoOwner, Self},
           Barred => UNCHANGED <<marker, holder>>
    PROVE  Guarantee
<1>1. state.records \in Nat /\ Before(Shared) \in Nat /\ Shared \in Mine
  BY Values, Numbers
<1>2. Before(Shared)' = Before(Shared)
  BY DEF Before
<1>3. \A i \in Before(Shared) + 1..Before(Shared)' : FALSE
  BY <1>1, <1>2
<1>4. state.records <= state'.records
  BY <1>1
<1> QED BY <1>3, <1>4 DEF Guarantee

\* A run under way is not barred: it holds the lock, under its own marker.
LEMMA NotBarred == ASSUME AmongInv, pc # "idle" PROVE ~Barred
BY TwoOutputs DEF AmongInv, Locked, Barred

\* Every step of this chat keeps its promise to the others.
LEMMA GuaranteeStep ==
    ASSUME AmongInv, [Next]_vars, UNCHANGED others PROVE Guarantee
<1>0. Mine \subseteq Paths /\ Shared \in Mine /\ Shared \in Paths /\ Stream \in Mine
      /\ \A i \in 1..2 : Outputs[i] \in Mine
  BY TwoOutputs DEF AmongInv
<1>1. CASE UNCHANGED vars
  BY <1>1, QuietGuarantee DEF vars, disk
<1>2. CASE Environment
  <2>1. UNCHANGED <<disk, holder>>
    BY <1>2 DEF Environment, Post, Edit, Delete
  <2> QED BY <2>1, QuietGuarantee DEF disk
<1>3. ASSUME NEW o \in Options, Start(o) PROVE Guarantee
  <2>1. Acquire /\ UNCHANGED disk
    BY <1>3 DEF Start, StartIncremental, StartFull
  <2>2. ~Barred
    BY <1>0, <2>1 DEF Acquire, Barred
  <2>3. \A p \in Paths \ Mine : holder'[p] = holder[p]
    BY <2>1 DEF Acquire
  <2> QED BY <2>1, <2>2, <2>3, QuietGuarantee DEF disk
<1>4. CASE OpenStage \/ SaveJournal \/ ReadPage \/ CheckpointPage \/ MarkReady \/ Plan
           \/ Verify \/ Compare \/ RemoveJournal
  <2>1. UNCHANGED <<state, out, synced, marker, holder>>
    BY <1>4 DEF OpenStage, SaveJournal, ReadPage, CheckpointPage, MarkReady, Plan,
       Verify, Compare, RemoveJournal, disk
  <2> QED BY <2>1, QuietGuarantee
<1>5. CASE Mark \/ Unmark
  <2>1. /\ UNCHANGED <<state, out, synced>> /\ pc # "idle"
        /\ \/ marker' = [marker EXCEPT ![Outputs[pos]] = Self]
           \/ marker' = [marker EXCEPT ![Outputs[pos]] = NoOwner]
        /\ \/ UNCHANGED holder
           \/ holder' = [p \in Paths |-> IF p \in Mine THEN NoOwner ELSE holder[p]]
    BY <1>5 DEF Mark, Unmark, Leave
  <2>2. Outputs[pos] \in Mine /\ marker \in [Paths -> Owners \cup {NoOwner}]
    BY <1>0, Values
  <2>3. /\ \A p \in Paths \ Mine : marker'[p] = marker[p] /\ holder'[p] = holder[p]
        /\ marker'[Shared] \in {marker[Shared], NoOwner, Self}
    BY <1>0, <2>1, <2>2
  <2> QED BY <2>1, <2>3, NotBarred, QuietGuarantee
<1>6. CASE RemoveStage \/ Refuse
  <2>1. UNCHANGED <<state, out, synced, marker>> /\ Leave /\ pc # "idle"
    BY <1>6 DEF RemoveStage, Refuse, CheckFails, disk
  <2>2. \A p \in Paths \ Mine : holder'[p] = holder[p]
    BY <2>1 DEF Leave
  <2> QED BY <2>1, <2>2, NotBarred, QuietGuarantee
<1>7. ASSUME UNCHANGED <<state, marker>>, pc # "idle",
             \A p \in Paths \ Mine : /\ out'[p] = out[p] /\ synced'[p] = synced[p]
                                     /\ holder'[p] = holder[p],
             \A i \in 1..Before(Shared) : out'[Shared][i] = out[Shared][i]
      PROVE  Guarantee
  <2>1. state.records \in Nat /\ Before(Shared) \in Nat
    BY <1>0, Numbers
  <2>2. Before(Shared)' = Before(Shared)
    BY <1>7 DEF Before
  <2>3. \A i \in Before(Shared) + 1..Before(Shared)' : FALSE
    BY <2>1, <2>2
  <2>4. state.records <= state'.records
    BY <1>7, <2>1
  <2> QED BY <1>7, <2>3, <2>4, NotBarred DEF Guarantee
<1>8. CASE Copy
  <2>1. UNCHANGED <<state, marker, synced, holder>> /\ pc # "idle"
    BY <1>8 DEF Copy
  <2>2. \A q \in Paths \ {Outputs[pos]} : out'[q] = out[q]
    BY <1>8, CopyFacts
  <2>3. \A p \in Paths \ Mine : out'[p] = out[p]
    BY <1>0, <2>2, Values
  <2> QED BY <1>0, <1>7, <1>8, <2>1, <2>3, CopyKeeps
<1>9. CASE Flush
  <2>1. /\ UNCHANGED <<state, marker, out, holder>> /\ pc # "idle"
        /\ synced' = [synced EXCEPT ![Outputs[pos]] = Len(out[Outputs[pos]])]
    BY <1>9 DEF Flush
  <2>2. \A p \in Paths \ Mine : synced'[p] = synced[p]
    BY <1>0, <2>1, Values
  <2> QED BY <1>7, <2>1, <2>2
<1>10. CASE Crash
  <2>1. UNCHANGED <<state, marker>> /\ pc # "idle" /\ Leave
        /\ (Lose \/ UNCHANGED <<stage, staged, out, synced>>)
    BY <1>10 DEF Crash
  <2>2. \A p \in Paths \ Mine : holder'[p] = holder[p]
    BY <2>1 DEF Leave
  <2>3. /\ \A p \in Paths \ Mine : out'[p] = out[p] /\ synced'[p] = synced[p]
        /\ \A i \in 1..Before(Shared) : out'[Shared][i] = out[Shared][i]
    BY <1>0, <2>1, LoseFacts, LoseKeeps
  <2> QED BY <1>7, <2>1, <2>2, <2>3
<1>11. CASE Commit
  <2>1. /\ pc = "commit" /\ UNCHANGED <<out, synced, marker, holder>>
        /\ state'.records = state.records + journal.bytes
        /\ Before(Shared)' = Before(Shared) + journal.bytes
        /\ \A i \in 1..journal.bytes : /\ out[Shared][Before(Shared) + i] = stage[i]
                                       /\ stage[i].owner = Self
    BY <1>0, <1>11, CommitFacts
  <2>2. state.records \in Nat /\ Before(Shared) \in Nat /\ journal.bytes \in Nat
    BY <1>0, Numbers
  <2>3. ASSUME NEW i \in Before(Shared) + 1..Before(Shared)' PROVE out'[Shared][i].owner = Self
    <3>1. i - Before(Shared) \in 1..journal.bytes /\ Before(Shared) + (i - Before(Shared)) = i
      BY <2>1, <2>2, <2>3
    <3> QED BY <2>1, <3>1
  <2>4. state.records <= state'.records
    BY <2>1, <2>2
  <2> QED BY <2>1, <2>3, <2>4, NotBarred DEF Guarantee
<1>12. ~(OpenOutput \/ ReadHistoryPage \/ CheckpointHistory \/ Finish)
  BY DEF OpenOutput, ReadHistoryPage, CheckpointHistory, Finish, AmongInv, Located
<1> QED
  BY <1>1, <1>2, <1>3, <1>4, <1>5, <1>6, <1>8, <1>9, <1>10, <1>11, <1>12 DEF Next, Step

(***************************************************************************)
(* What the invariant says to a reader                                     *)
(***************************************************************************)

\* Where the shared output holds this chat's records.
Places == {k \in DOMAIN out[Shared] : out[Shared][k].owner = Self}

\* The shared output begins this chat's records with those of its stream that
\* the state accounts for, in order; any others come after them.
LEMMA CommittedShared ==
    ASSUME AmongInv
    PROVE  \E place \in [1..state.records -> Places] :
              /\ \A i, k \in 1..state.records : i < k => place[i] < place[k]
              /\ \A i \in 1..state.records :
                     i <= Len(out[Stream]) /\ out[Shared][place[i]] = out[Stream][i]
              /\ \A k \in Places : \/ \E i \in 1..state.records : place[i] = k
                                 \/ \A i \in 1..state.records : place[i] < k
<1>1. PICK place : PlacedAt(place, state.records, Before(Shared))
  BY DEF AmongInv, Placed
<1>2. /\ place \in [1..state.records -> 1..Before(Shared)]
      /\ \A i, k \in 1..state.records : i < k => place[i] < place[k]
      /\ \A i \in 1..state.records : out[Shared][place[i]] = out[Stream][i]
      /\ \A k \in 1..Before(Shared) : out[Shared][k].owner = Self =>
                                      \E i \in 1..state.records : place[i] = k
  BY <1>1 DEF PlacedAt
<1>3. /\ state.records \in Nat /\ Before(Shared) \in Nat
      /\ state.records <= Len(out[Stream]) /\ Before(Shared) <= Len(out[Shared])
      /\ Len(out[Stream]) \in Nat /\ Len(out[Shared]) \in Nat
      /\ DOMAIN out[Shared] = 1..Len(out[Shared])
  <2>1. Stream \in Mine /\ Shared \in Mine
    BY Values
  <2>2. /\ Before(Stream) <= synced[Stream] /\ synced[Stream] <= Len(out[Stream])
        /\ Before(Shared) <= synced[Shared] /\ synced[Shared] <= Len(out[Shared])
    BY <2>1 DEF AmongInv, Accounted
  <2>3. /\ synced[Stream] \in Nat /\ synced[Shared] \in Nat
        /\ Len(out[Stream]) \in Nat /\ Len(out[Shared]) \in Nat
        /\ out[Shared] \in Seq(Records)
    BY <2>1, Values
  <2>4. DOMAIN out[Shared] = 1..Len(out[Shared])
    BY <2>3, LenProperties
  <2>5. Before(Stream) = state.records /\ state.records \in Nat /\ Before(Shared) \in Nat
    BY <2>1, Numbers
  <2>6. state.records <= Len(out[Stream]) /\ Before(Shared) <= Len(out[Shared])
    BY <2>2, <2>3, <2>5
  <2> QED BY <2>3, <2>4, <2>5, <2>6
<1>4. ASSUME NEW i \in 1..state.records
      PROVE  i <= Len(out[Stream]) /\ place[i] \in Places
  <2>1. place[i] \in 1..Before(Shared) /\ out[Shared][place[i]] = out[Stream][i]
    BY <1>2
  <2>2. place[i] \in DOMAIN out[Shared]
    BY <1>3, <2>1
  <2>3. out[Stream][i].owner = Self
    BY DEF AmongInv, OwnRecords
  <2> QED BY <1>3, <2>1, <2>2, <2>3 DEF Places
<1>5. place \in [1..state.records -> Places]
  BY <1>2, <1>4
<1>6. ASSUME NEW k \in Places
      PROVE  \/ \E i \in 1..state.records : place[i] = k
             \/ \A i \in 1..state.records : place[i] < k
  <2>1. k \in 1..Len(out[Shared]) /\ out[Shared][k].owner = Self
    BY <1>3 DEF Places
  <2>2. CASE k <= Before(Shared)
    BY <1>2, <1>3, <2>1, <2>2
  <2>3. CASE ~(k <= Before(Shared))
    <3>1. ASSUME NEW i \in 1..state.records PROVE place[i] < k
      <4>1. place[i] \in 1..Before(Shared)
        BY <1>2
      <4> QED BY <1>3, <2>1, <2>3, <4>1
    <3> QED BY <3>1
  <2> QED BY <2>2, <2>3
<1>7. \A i \in 1..state.records :
         i <= Len(out[Stream]) /\ out[Shared][place[i]] = out[Stream][i]
  BY <1>2, <1>4
<1>8. \A k \in Places : \/ \E i \in 1..state.records : place[i] = k
                        \/ \A i \in 1..state.records : place[i] < k
  BY <1>6
<1>9. \A i, k \in 1..state.records : i < k => place[i] < place[k]
  BY <1>2
<1> QED BY <1>5, <1>7, <1>8, <1>9

\* A shared output without a marker ends with what is accounted for.
LEMMA UnmarkedShared ==
    ASSUME AmongInv, marker[Shared] = NoOwner PROVE Len(out[Shared]) = Before(Shared)
<1>1. Shared \in Mine /\ NoOwner # Self
  BY Values, OwnersAssumption
<1> QED BY <1>1 DEF AmongInv, Accounted, Ours
=============================================================================
