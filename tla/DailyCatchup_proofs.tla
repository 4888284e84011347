------------------------ MODULE DailyCatchup_proofs ------------------------
(***************************************************************************)
(* Proofs about DailyCatchup for every number of dialogs, days, messages   *)
(* and troubles: reports appear in the order of their days, the checkpoint *)
(* verifies nothing it has not seen, and, where the two documented         *)
(* exceptions do not occur, the report of a day that is over is whole.     *)
(***************************************************************************)
EXTENDS DailyCatchup, WellFoundedInduction, TLAPS

(***************************************************************************)
(* The inductive invariant                                                 *)
(***************************************************************************)

\* Telegram dates messages in the order in which it receives them.
LogInOrder ==
    /\ \A m, n \in DOMAIN log : m <= n => log[m].day <= log[n].day
    /\ \A m \in DOMAIN log : log[m].day <= today

\* A head that verifies nothing past the day t.
HeadSound(l, h, t) ==
    /\ h \in Heads
    /\ h.top <= Len(l) /\ h.verified <= h.top
    /\ h.verified # 0 => l[h.verified].day <= t
    /\ h.full = TRUE => h.verified = h.top

\* The checkpoint on disk.
CheckpointInv ==
    /\ checkpoint.through < today
    /\ \A d \in DOMAIN checkpoint.heads : HeadSound(log, checkpoint.heads[d], checkpoint.through)
    /\ checkpoint # NoCheckpoint => /\ checkpoint.through \in DOMAIN report
                                    /\ \E D \in latest : D >= checkpoint.through

\* The plan of a run, and what is left of it.
PlanInv ==
    pc # "idle" =>
        /\ jobs # {}
        /\ opt.cmd = "catchup" => /\ jobs \subseteq dates
                                  /\ \A D \in jobs : D < today
                                  /\ \E D \in dates : D >= checkpoint.through
        /\ trusted = TRUE => checkpoint.through + 1 = RangeStart
        /\ jobs \ pending \subseteq DOMAIN report
        /\ pc \in {"listing", "dialogs", "history", "records", "report"} => pending # {}
        /\ pc \in {"latest", "checkpoint"} => opt.cmd = "catchup" /\ pending = {}
        /\ pc = "report" => Day \in DOMAIN raw
        /\ pc = "checkpoint" => latest = dates

\* What the scan has seen.
ScanInv ==
    /\ \A d \in Dialogs : seen[d] <= Len(log)
    /\ todo \subseteq Listed
    /\ pc = "idle" => heads = <<>> /\ seen = NoneSeen /\ listing = NoListing
    /\ pc # "idle" => \A d \in DOMAIN heads : HeadSound(log, heads[d], Through)
    /\ pc = "history" =>
        /\ todo # {}
        /\ walk.observed <= Len(log) /\ walk.scanned <= Len(log)
        /\ walk.scanned # 0 => log[walk.scanned].day <= Through

DailyInv == TypeOK /\ LogInOrder /\ CheckpointInv /\ PlanInv /\ ScanInv

(***************************************************************************)
(* What a whole report rests on                                            *)
(***************************************************************************)

\* No day is published before it is over.
WholeDaysOnly == \A o \in Options : o.cmd = "daily" => o.back # 0

Wanted(d) == {m \in Live(d) : log[m].day \in jobs}

\* Days planned and published are over.
DaysOver ==
    /\ \A D \in DOMAIN report : D < today
    /\ pc # "idle" => \A D \in jobs : D < today

\* Every dialog before the reading position of the list was seen.
ListingInv ==
    pc = "listing" => \A d \in Dialogs :
        /\ seen[d] \in {0, Top(d)}
        /\ /\ Top(d) # 0
           /\ \/ folder[d] < listing.folder
              \/ folder[d] = listing.folder /\ listing.offset # 0 /\ listing.offset <= Top(d)
           => seen[d] = Top(d)

\* What the scan was to find it has found, in the dialogs it is through with and
\* in the pages it has read.
FoundInv ==
    /\ pc \in {"dialogs", "history"} =>
        /\ \A d \in Dialogs : \A m \in Wanted(d) : m <= seen[d]
        /\ failed = FALSE => \A d \in Dialogs \ todo : Wanted(d) \subseteq found
    /\ pc = "history" /\ walk.offset # 0 =>
        \A m \in Wanted(Dialog) : walk.offset <= m => m \in found
    /\ pc \in {"records", "report"} => \A d \in Dialogs : Wanted(d) \subseteq found

WholeInv == DaysOver /\ ListingInv /\ FoundInv /\ ReportsComplete

(***************************************************************************)
(* Sets of numbers, messages and days                                      *)
(***************************************************************************)

\* The constants are numbers.
LEMMA Constants ==
    /\ NumDialogs \in Nat /\ MaxDay \in Nat /\ MaxMessages \in Nat /\ MaxTroubles \in Nat
    /\ PageSize \in Nat /\ Days \subseteq Nat /\ Dialogs \subseteq Nat /\ 1 \in Days
    /\ Messages \subseteq Nat
BY DailyBounds DEF Days, Dialogs, Messages

\* A set of numbers that is not empty has an oldest one.
LEMMA OldestIs ==
    ASSUME NEW S, S \subseteq Nat, S # {}
    PROVE  Oldest(S) \in S /\ \A e \in S : Oldest(S) <= e
<1>1. PICK d \in S : \A e \in S : ~(<<e, d>> \in OpToRel(<, Nat))
  BY NatLessThanWellFounded, WFMin
<1>2. \A e \in S : d <= e
  <2> SUFFICES ASSUME NEW e \in S PROVE d <= e
    OBVIOUS
  <2>1. e \in Nat /\ d \in Nat /\ <<e, d>> \notin OpToRel(<, Nat)
    BY <1>1
  <2>2. ~(e < d)
    BY <2>1 DEF OpToRel
  <2>3. e \in Nat /\ d \in Nat
    BY <2>1
  <2> QED BY <2>2, <2>3
<1> QED BY <1>2 DEF Oldest

\* A bounded one has a newest.
LEMMA NewestIs ==
    ASSUME NEW n \in Nat, NEW S, S \subseteq 0..n, S # {}
    PROVE  Newest(S) \in S /\ \A e \in S : e <= Newest(S)
<1> DEFINE Bounds == {k \in 0..n : \A e \in S : e <= k}
<1>1. Bounds \subseteq Nat /\ n \in Bounds
  OBVIOUS
<1>2. PICK k \in Bounds : \A b \in Bounds : k <= b
  BY <1>1, OldestIs
<1>3. k \in S
  <2> SUFFICES ASSUME k \notin S PROVE FALSE
    OBVIOUS
  <2>1. \A e \in S : e \in Nat /\ e <= k /\ e # k
    OBVIOUS
  <2>2. k \in Nat /\ k <= n
    OBVIOUS
  <2>3. \A e \in S : e <= k - 1
    BY <2>1, <2>2
  <2>4. k - 1 \in 0..n
    <3>1. PICK e \in S : TRUE
      OBVIOUS
    <3> QED BY <2>1, <2>2, <3>1
  <2>5. k - 1 \in Bounds
    BY <2>3, <2>4
  <2>6. k <= k - 1
    BY <1>2, <2>5
  <2> QED BY <2>2, <2>6
<1>4. \A e \in S : e <= k
  OBVIOUS
<1> HIDE DEF Bounds
<1> QED BY <1>3, <1>4 DEF Newest

\* The newest of no messages is 0.
LEMMA NewestOfMessages ==
    ASSUME NEW n \in Nat, NEW S, S \subseteq 1..n
    PROVE  /\ Newest(S) \in 0..n
           /\ S # {} => Newest(S) \in S
           /\ S = {} <=> Newest(S) = 0
           /\ \A e \in S : e <= Newest(S)
<1>1. CASE S = {}
  BY <1>1 DEF Newest
<1>2. CASE S # {}
  <2>1. S \subseteq 0..n
    OBVIOUS
  <2>2. Newest(S) \in S /\ \A e \in S : e <= Newest(S)
    BY <1>2, <2>1, NewestIs
  <2>3. \A e \in S : e \in 0..n /\ e # 0
    OBVIOUS
  <2>4. Newest(S) \in 0..n /\ Newest(S) # 0
    BY <2>2, <2>3
  <2> QED BY <1>2, <2>2, <2>4
<1> QED BY <1>1, <1>2

\* The larger of two numbers is one of them.
LEMMA LargerIs ==
    ASSUME NEW a \in Nat, NEW b \in Nat
    PROVE  /\ Larger(a, b) \in Nat /\ Larger(a, b) \in {a, b}
           /\ a <= Larger(a, b) /\ b <= Larger(a, b)
BY DEF Larger

\* Putting a value keeps the others.
LEMMA PutIs ==
    ASSUME NEW f, NEW x, NEW y
    PROVE  /\ DOMAIN Put(f, x, y) = DOMAIN f \cup {x}
           /\ Put(f, x, y)[x] = y
           /\ \A z \in DOMAIN f \ {x} : Put(f, x, y)[z] = f[z]
BY DEF Put

Entries == [dialog : Dialogs, day : Days, live : BOOLEAN]

\* The log is a sequence of messages with dialog and day.
LEMMA LogType ==
    ASSUME TypeOK
    PROVE  /\ Len(log) \in Nat /\ DOMAIN log = 1..Len(log)
           /\ \A m \in 1..Len(log) :
                  /\ m \in Messages /\ m \in Nat
                  /\ log[m].dialog \in Dialogs /\ log[m].live \in BOOLEAN
                  /\ log[m].day \in Days /\ log[m].day \in Nat
<1>1. log \in Seq(Entries) /\ Len(log) <= MaxMessages
  BY DEF TypeOK, Entries
<1>2. Len(log) \in Nat /\ DOMAIN log = 1..Len(log)
  BY <1>1
<1>3. \A m \in 1..Len(log) : log[m] \in Entries
  BY <1>1, <1>2
<1>4. \A m \in 1..Len(log) : m \in Messages
  BY <1>1, <1>2, Constants DEF Messages
<1>5. \A m \in 1..Len(log) : /\ log[m].dialog \in Dialogs /\ log[m].live \in BOOLEAN
                             /\ log[m].day \in Days
  BY <1>3 DEF Entries
<1> QED BY <1>2, <1>4, <1>5, Constants

\* What lives in a dialog lies at or below its top message.
LEMMA TopIs ==
    ASSUME TypeOK, NEW d \in Dialogs
    PROVE  /\ Live(d) \subseteq 1..Len(log)
           /\ Top(d) \in 0..Len(log) /\ Top(d) \in Nat
           /\ Top(d) # 0 => Top(d) \in Live(d)
           /\ \A m \in Live(d) : m <= Top(d)
<1>1. Live(d) \subseteq 1..Len(log) /\ Len(log) \in Nat
  BY LogType DEF Live
<1> QED BY <1>1, NewestOfMessages DEF Top

\* The range of a plan lies around its days.
LEMMA RangeIs ==
    ASSUME TypeOK, jobs # {}
    PROVE  /\ RangeStart \in jobs /\ Through \in jobs /\ RangeEnd = Through + 1
           /\ RangeStart \in Nat /\ Through \in Nat /\ RangeStart <= Through
           /\ \A D \in jobs : D \in Nat /\ RangeStart <= D /\ D <= Through
<1>1. jobs \subseteq Nat /\ jobs \subseteq 0..MaxDay
  BY Constants DEF TypeOK, Days
<1>2. RangeStart \in jobs /\ \A D \in jobs : RangeStart <= D
  BY <1>1, OldestIs DEF RangeStart
<1>3. Through \in jobs /\ \A D \in jobs : D <= Through
  BY <1>1, NewestIs, Constants DEF Through
<1> QED BY <1>1, <1>2, <1>3 DEF RangeEnd, Through

\* The day that is published next is the first of those pending.
LEMMA DayIs ==
    ASSUME TypeOK, pending # {}
    PROVE  Day \in pending /\ Day \in Days /\ \A D \in pending : Day <= D
<1>1. pending \subseteq Nat /\ pending \subseteq Days
  BY Constants DEF TypeOK
<1> QED BY <1>1, OldestIs DEF Day

\* The dialog that is scanned is the first of those to do.
LEMMA DialogIs ==
    ASSUME TypeOK, todo # {}
    PROVE  Dialog \in todo /\ Dialog \in Dialogs
<1>1. todo \subseteq Nat /\ todo \subseteq Dialogs
  BY Constants DEF TypeOK
<1> QED BY <1>1, OldestIs DEF Dialog

(***************************************************************************)
(* Steps of Telegram                                                       *)
(***************************************************************************)

\* Telegram adds messages of today, and otherwise only deletes.
LogGrows ==
    /\ log' \in Seq(Entries) /\ Len(log) <= Len(log') /\ Len(log') <= MaxMessages
    /\ \A m \in 1..Len(log) :
           /\ log'[m].dialog = log[m].dialog /\ log'[m].day = log[m].day
           /\ log'[m].live = TRUE => log[m].live = TRUE
    /\ \A m \in 1..Len(log') : m > Len(log) => log'[m].day = today
    /\ today' \in Days /\ today <= today'

\* Each step of Telegram does.
LEMMA TelegramGrows ==
    ASSUME TypeOK, Telegram
    PROVE  /\ LogGrows /\ folder' \in [Dialogs -> {0, 1}] /\ spent' \in 0..MaxTroubles
           /\ UNCHANGED <<files, memory>>
           /\ Watched
<1> USE DEF TypeOK
<1>0. /\ log \in Seq(Entries) /\ Len(log) \in Nat /\ Len(log) <= MaxMessages
      /\ today \in Days /\ today \in Nat /\ spent \in 0..MaxTroubles
  BY Constants DEF Entries
<1>1. CASE \E d \in Dialogs : Post(d)
  <2>1. PICK d \in Dialogs : Post(d)
    BY <1>1
  <2> DEFINE e == [dialog |-> d, day |-> today, live |-> TRUE]
  <2>2. e \in Entries /\ e.day = today
    BY <1>0 DEF Entries
  <2>3. log' = Append(log, e) /\ Len(log) < MaxMessages
    BY <2>1 DEF Post
  <2> HIDE DEF e
  <2>4. /\ log' \in Seq(Entries) /\ Len(log') = Len(log) + 1
        /\ \A m \in 1..Len(log) : log'[m] = log[m]
        /\ log'[Len(log) + 1] = e
    BY <1>0, <2>2, <2>3
  <2>5. Len(log') <= MaxMessages /\ Len(log) <= Len(log')
    BY <1>0, <2>3, <2>4, Constants
  <2>6. \A m \in 1..Len(log') : m > Len(log) => log'[m].day = today
    BY <1>0, <2>2, <2>4
  <2>7. today' = today /\ folder' = [folder EXCEPT ![d] = 0] /\ UNCHANGED <<files, memory, spent>>
    BY <2>1 DEF Post
  <2>8. Watched
    BY <2>1 DEF Post
  <2>9. LogGrows
    BY <1>0, <2>4, <2>5, <2>6, <2>7 DEF LogGrows
  <2> QED BY <1>0, <2>7, <2>8, <2>9
<1>2. CASE \E m \in DOMAIN log : Delete(m)
  <2>1. PICK m \in DOMAIN log : Delete(m)
    BY <1>2
  <2>2. m \in 1..Len(log) /\ log[m].live = TRUE
    BY <2>1, <1>0 DEF Delete
  <2> DEFINE e == [log[m] EXCEPT !.live = FALSE]
  <2>3. log[m] \in Entries
    BY <1>0, <2>2
  <2>4. e \in Entries /\ e.dialog = log[m].dialog /\ e.day = log[m].day /\ e.live = FALSE
    BY <2>3 DEF Entries
  <2>5. log' = [log EXCEPT ![m] = e]
    BY <2>1 DEF Delete
  <2> HIDE DEF e
  <2>6. /\ log' \in Seq(Entries) /\ Len(log') = Len(log)
        /\ \A n \in 1..Len(log) : n # m => log'[n] = log[n]
        /\ log'[m] = e
    BY <1>0, <2>2, <2>4, <2>5
  <2>7. \A n \in 1..Len(log) :
           /\ log'[n].dialog = log[n].dialog /\ log'[n].day = log[n].day
           /\ log'[n].live = TRUE => log[n].live = TRUE
    BY <2>2, <2>4, <2>6
  <2>8. \A n \in 1..Len(log') : ~(n > Len(log))
    BY <1>0, <2>6
  <2>9. today' = today /\ UNCHANGED <<folder, files, memory>> /\ Watched
    BY <2>1 DEF Delete
  <2>10. spent' \in 0..MaxTroubles
    <3>1. spent' = spent + 1 /\ spent < MaxTroubles
      BY <2>1 DEF Delete
    <3> HIDE DEF TypeOK
    <3> QED BY <1>0, <3>1, Constants
  <2>11. LogGrows
    BY <1>0, <2>6, <2>7, <2>8, <2>9 DEF LogGrows
  <2> QED BY <2>9, <2>10, <2>11
<1>3. CASE \E d \in Dialogs : Archive(d)
  <2>1. PICK d \in Dialogs : Archive(d)
    BY <1>3
  <2>2. folder' = [folder EXCEPT ![d] = 1] /\ UNCHANGED <<log, today, files, memory, spent>> /\ Watched
    BY <2>1 DEF Archive
  <2>3. LogGrows
    BY <1>0, <2>2 DEF LogGrows
  <2> QED BY <1>0, <2>2, <2>3
<1>4. CASE Midnight
  <2>1. today' = today + 1 /\ today' \in Days /\ UNCHANGED <<log, folder, files, memory, spent>> /\ Watched
    BY <1>0, <1>4, Constants DEF Midnight, Days
  <2>2. LogGrows
    BY <1>0, <2>1 DEF LogGrows
  <2> QED BY <1>0, <2>1, <2>2
<1> QED BY <1>1, <1>2, <1>3, <1>4 DEF Telegram

\* Types survive.
LEMMA GrowthTypes ==
    ASSUME TypeOK, LogGrows, folder' \in [Dialogs -> {0, 1}], spent' \in 0..MaxTroubles,
           UNCHANGED <<files, memory>>
    PROVE  TypeOK'
<1>1. UNCHANGED <<raw, report, latest, checkpoint>>
  BY DEF files
<1>2. UNCHANGED <<pc, opt, jobs, dates, trusted, pending>>
  BY DEF memory, plan
<1>3. UNCHANGED <<listing, seen, todo, walk, heads, found, failed>>
  BY DEF memory, scan
<1>4. Len(log) \in Nat /\ DOMAIN log = 1..Len(log)
  BY LogType
<1>5. DOMAIN log \subseteq DOMAIN log'
  <2>1. DOMAIN log' = 1..Len(log') /\ Len(log') \in Nat
    BY DEF LogGrows
  <2> QED BY <1>4, <2>1 DEF LogGrows
<1>6. /\ \A D \in DOMAIN raw : raw[D] \subseteq DOMAIN log'
      /\ \A D \in DOMAIN report : report[D] \subseteq DOMAIN log'
      /\ found \subseteq DOMAIN log'
  BY <1>5 DEF TypeOK
<1>7. log' \in Seq([dialog : Dialogs, day : Days, live : BOOLEAN]) /\ Len(log') <= MaxMessages /\ today' \in Days
  BY DEF LogGrows, Entries
<1>8. UNCHANGED <<files, memory>>
  OBVIOUS
<1>9. /\ (DOMAIN raw \subseteq Days /\ DOMAIN report \subseteq DOMAIN raw /\ latest \subseteq Days)'
      /\ (checkpoint.through \in 0..MaxDay /\ checkpoint.scope \in 0..NumDialogs)'
      /\ (DOMAIN checkpoint.heads \subseteq Dialogs
            /\ \A d \in DOMAIN checkpoint.heads : checkpoint.heads[d] \in Heads)'
  BY <1>1 DEF TypeOK
<1>10. /\ (pc \in {"idle", "listing", "dialogs", "history", "records", "report",
               "latest", "checkpoint"})'
       /\ (opt \in OptionSet /\ jobs \subseteq Days /\ dates \subseteq Days /\ pending \subseteq jobs)'
       /\ (trusted \in BOOLEAN)'
  BY <1>2 DEF TypeOK
<1>11. /\ (failed \in BOOLEAN /\ listing \in Positions)'
       /\ (seen \in [Dialogs -> 0..MaxMessages] /\ todo \subseteq Dialogs /\ walk \in Walks)'
       /\ (DOMAIN heads \subseteq Dialogs /\ \A d \in DOMAIN heads : heads[d] \in Heads)'
  BY <1>3 DEF TypeOK
<1> QED BY <1>1, <1>3, <1>6, <1>7, <1>9, <1>10, <1>11 DEF TypeOK

\* A sound head has numbers.
LEMMA HeadType ==
    ASSUME NEW l, NEW h, NEW t, HeadSound(l, h, t)
    PROVE  /\ h.top \in Nat /\ h.top # 0 /\ h.verified \in Nat
           /\ h.top <= Len(l) /\ h.verified <= h.top
<1>1. h \in Heads /\ h.top <= Len(l) /\ h.verified <= h.top
  BY DEF HeadSound
<1>2. h.top \in 1..MaxMessages /\ h.verified \in 0..MaxMessages
  BY <1>1 DEF Heads, Messages
<1> QED BY <1>1, <1>2, Constants

\* So does the invariant.
LEMMA GrowthKeeps ==
    ASSUME DailyInv, LogGrows, TypeOK', UNCHANGED <<files, memory>>
    PROVE  DailyInv'
<1>1. UNCHANGED <<raw, report, latest, checkpoint>>
  BY DEF files
<1>2. UNCHANGED <<pc, opt, jobs, dates, trusted, pending>>
  BY DEF memory, plan
<1>3. UNCHANGED <<listing, seen, todo, walk, heads, found, failed>>
  BY DEF memory, scan
<1>4. /\ TypeOK /\ today \in Nat /\ today' \in Nat /\ today <= today'
  BY Constants DEF DailyInv, TypeOK, LogGrows
<1>5. /\ Len(log) \in Nat /\ Len(log') \in Nat /\ Len(log) <= Len(log')
      /\ DOMAIN log = 1..Len(log) /\ DOMAIN log' = 1..Len(log')
      /\ \A m \in 1..Len(log) : log[m].day \in Nat /\ log'[m].day = log[m].day
      /\ \A m \in 1..Len(log') : m > Len(log) => log'[m].day = today
  BY <1>4, LogType DEF LogGrows
<1>6. LogInOrder'
  <2>1. \A m \in 1..Len(log') : m > Len(log) \/ m \in 1..Len(log)
    BY <1>5
  <2>2. \A m \in 1..Len(log) : log[m].day <= today
    BY <1>5 DEF DailyInv, LogInOrder
  <2>3. \A m \in 1..Len(log') : log'[m].day <= today'
    BY <1>4, <1>5, <2>1, <2>2
  <2>4. ASSUME NEW m \in 1..Len(log'), NEW n \in 1..Len(log'), m <= n
        PROVE  log'[m].day <= log'[n].day
    <3>1. CASE n \in 1..Len(log)
      <4>1. m \in 1..Len(log)
        BY <3>1, <2>4, <1>5
      <4>2. log[m].day <= log[n].day
        BY <4>1, <3>1, <2>4, <1>5 DEF DailyInv, LogInOrder
      <4> QED BY <1>5, <3>1, <4>1, <4>2
    <3>2. CASE n > Len(log)
      <4>1. log'[n].day = today
        BY <3>2, <1>5
      <4>2. log'[m].day <= today
        BY <1>4, <1>5, <2>1, <2>2
      <4> QED BY <4>1, <4>2
    <3> QED BY <2>1, <3>1, <3>2
  <2> QED BY <1>5, <2>3, <2>4 DEF LogInOrder
<1>7. ASSUME NEW h, NEW t, HeadSound(log, h, t) PROVE HeadSound(log', h, t)
  <2>1. /\ h.top \in Nat /\ h.verified \in Nat /\ h.top <= Len(log) /\ h.verified <= h.top
    BY <1>7, HeadType
  <2>2. h.top <= Len(log') /\ (h.verified # 0 => h.verified \in 1..Len(log))
    BY <2>1, <1>5
  <2> QED BY <1>7, <2>1, <2>2, <1>5 DEF HeadSound
<1>8. CheckpointInv'
  <2>1. checkpoint.through < today'
    <3>1. checkpoint.through \in Nat /\ checkpoint.through < today
      BY <1>4, Constants DEF DailyInv, CheckpointInv, TypeOK
    <3> QED BY <1>4, <3>1
  <2> QED BY <1>1, <1>7, <2>1 DEF DailyInv, CheckpointInv
<1>9. PlanInv'
  <2>1. RangeStart' = RangeStart /\ Day' = Day
    BY <1>2 DEF RangeStart, Day
  <2>2. pc # "idle" /\ opt.cmd = "catchup" => \A D \in jobs : D < today'
    <3>1. pc # "idle" /\ opt.cmd = "catchup" => \A D \in jobs : D \in Nat /\ D < today
      BY <1>4, Constants DEF DailyInv, PlanInv, TypeOK
    <3> QED BY <1>4, <3>1
  <2> QED BY <1>1, <1>2, <2>1, <2>2 DEF DailyInv, PlanInv
<1>10. ScanInv'
  <2>1. Through' = Through
    BY <1>2 DEF Through
  <2>2. Listed' = Listed
    BY <1>3 DEF Listed
  <2>3. \A d \in Dialogs : seen[d] \in Nat /\ seen[d] <= Len(log)
    BY <1>4, Constants DEF DailyInv, ScanInv, TypeOK
  <2>4. \A d \in Dialogs : seen[d] <= Len(log')
    BY <1>5, <2>3
  <2>5. pc # "idle" => \A d \in DOMAIN heads : HeadSound(log', heads[d], Through)
    BY <1>7 DEF DailyInv, ScanInv
  <2>6. ASSUME pc = "history"
        PROVE  /\ todo # {}
               /\ walk.observed <= Len(log') /\ walk.scanned <= Len(log')
               /\ walk.scanned # 0 => log'[walk.scanned].day <= Through
    <3>1. walk.observed \in Nat /\ walk.scanned \in Nat
      BY <1>4, Constants DEF TypeOK, Walks
    <3>2. /\ todo # {} /\ walk.observed <= Len(log) /\ walk.scanned <= Len(log)
          /\ walk.scanned # 0 => log[walk.scanned].day <= Through
      BY <2>6 DEF DailyInv, ScanInv
    <3>3. walk.scanned # 0 => walk.scanned \in 1..Len(log)
      BY <1>5, <3>1, <3>2
    <3>4. walk.observed <= Len(log') /\ walk.scanned <= Len(log')
      BY <1>5, <3>1, <3>2
    <3> QED BY <1>5, <3>2, <3>3, <3>4
  <2>7. todo \subseteq Listed
    BY DEF DailyInv, ScanInv
  <2>8. pc = "idle" => heads = <<>> /\ seen = NoneSeen /\ listing = NoListing
    BY DEF DailyInv, ScanInv
  <2> QED BY <1>2, <1>3, <2>1, <2>2, <2>4, <2>5, <2>6, <2>7, <2>8 DEF ScanInv
<1> QED BY <1>6, <1>8, <1>9, <1>10 DEF DailyInv

(***************************************************************************)
(* Steps of a run                                                          *)
(***************************************************************************)

\* Zero values have the types of their variables.
LEMMA ZeroTypes ==
    /\ NoOpt \in OptionSet /\ NoWalk \in Walks
    /\ NoneSeen \in [Dialogs -> 0..MaxMessages] /\ \A d \in Dialogs : NoneSeen[d] = 0
    /\ NoListing \in Positions /\ NoListing.folder = 0 /\ NoListing.offset = 0
    /\ [folder |-> 1, offset |-> 0] \in Positions /\ 0 \in 0..MaxMessages
    /\ DOMAIN <<>> = {}
<1>1. 0 \in 0..MaxMessages /\ 0 \in 0..MaxDay /\ 0 \in 0..NumDialogs
  BY Constants
<1> QED BY <1>1 DEF NoOpt, OptionSet, NoWalk, Walks, NoneSeen, NoListing, Positions

\* The invariant holds at first.
LEMMA DailyInitially == Init => DailyInv
<1> SUFFICES ASSUME Init PROVE DailyInv
  OBVIOUS
<1> USE DEF Init
<1>1. DOMAIN log = {} /\ Len(log) = 0 /\ log \in Seq(Entries)
  OBVIOUS
<1>2. NoCheckpoint.through = 0 /\ NoCheckpoint.scope = 0 /\ NoCheckpoint.heads = <<>>
  BY DEF NoCheckpoint
<1>3. today \in Days /\ 0 \in 0..MaxDay /\ 0 \in 0..NumDialogs /\ 0 \in 0..MaxTroubles /\ 0 <= MaxMessages
  BY Constants
<1>4. folder \in [Dialogs -> {0, 1}]
  OBVIOUS
<1>5. TypeOK
  BY <1>1, <1>2, <1>3, <1>4, ZeroTypes DEF TypeOK, Entries
<1>6. LogInOrder
  BY <1>1 DEF LogInOrder
<1>7. CheckpointInv
  BY <1>2, ZeroTypes DEF CheckpointInv
<1>8. PlanInv
  BY DEF PlanInv
<1>9. ScanInv
  BY <1>1, ZeroTypes DEF ScanInv
<1> QED BY <1>5, <1>6, <1>7, <1>8, <1>9 DEF DailyInv

\* What a run leaves when it ends.
LEMMA QuitKeeps ==
    ASSUME DailyInv, Quit, UNCHANGED telegram, spent' \in 0..MaxTroubles, CheckpointInv',
           DOMAIN raw' \subseteq Days, DOMAIN report' \subseteq DOMAIN raw', latest' \subseteq Days,
           \A D \in DOMAIN raw' : raw'[D] \subseteq DOMAIN log,
           \A D \in DOMAIN report' : report'[D] \subseteq DOMAIN log,
           checkpoint'.through \in 0..MaxDay, checkpoint'.scope \in 0..NumDialogs,
           DOMAIN checkpoint'.heads \subseteq Dialogs,
           \A d \in DOMAIN checkpoint'.heads : checkpoint'.heads[d] \in Heads
    PROVE  DailyInv'
<1> USE DEF Quit
<1>1. log' = log /\ folder' = folder /\ today' = today
  BY DEF telegram
<1>2. TypeOK'
  BY <1>1, ZeroTypes DEF DailyInv, TypeOK
<1>3. LogInOrder'
  BY <1>1 DEF DailyInv, LogInOrder
<1>4. PlanInv'
  BY DEF PlanInv
<1>5. Len(log') \in Nat /\ Len(log') >= 0
  BY <1>1, LogType DEF DailyInv
<1>6. ScanInv'
  BY <1>5, ZeroTypes DEF ScanInv
<1> QED BY <1>2, <1>3, <1>4, <1>6 DEF DailyInv

\* An error, a cancellation or a kill.
LEMMA EndsKeep ==
    ASSUME DailyInv, Abandon \/ Interrupt
    PROVE  DailyInv'
<1>1. Quit /\ UNCHANGED <<telegram, files>>
  BY DEF Abandon, Interrupt
<1>2. raw' = raw /\ report' = report /\ latest' = latest /\ checkpoint' = checkpoint
      /\ log' = log /\ today' = today
  BY <1>1 DEF files, telegram
<1>3. spent' \in 0..MaxTroubles
  <2>1. spent' = spent \/ (spent < MaxTroubles /\ spent' = spent + 1)
    BY DEF Abandon, Interrupt
  <2>2. spent \in 0..MaxTroubles
    BY DEF DailyInv, TypeOK
  <2> QED BY <2>1, <2>2, Constants
<1>4. CheckpointInv'
  BY <1>2 DEF DailyInv, CheckpointInv
<1> QED BY <1>1, <1>2, <1>3, <1>4, QuitKeeps DEF DailyInv, TypeOK

\* A report exists only for days, and the latest before today is one of them.
LEMMA DatesAre ==
    ASSUME TypeOK, NEW o \in OptionSet
    PROVE  /\ Dates(o) \subseteq Days /\ \A D \in Dates(o) : D < today
           /\ Missing(o) \subseteq Dates(o)
           /\ Dates(o) # {} => today - 1 \in Dates(o)
<1>1. today \in Nat /\ today \in 1..MaxDay
  BY Constants DEF TypeOK, Days
<1>2. LatestReport \in Nat
  <2>1. DOMAIN report \cap 1..(today - 1) \subseteq 1..MaxDay
    BY <1>1, Constants
  <2> QED BY <2>1, NewestOfMessages, Constants DEF LatestReport
<1>3. o.from \in 0..MaxDay /\ o.from \in Nat
  BY Constants DEF OptionSet
<1>4. FirstDay(o) \in Nat /\ FirstDay(o) >= 1
  BY <1>2, <1>3 DEF FirstDay
<1>5. \A D \in Dates(o) : D \in Nat /\ FirstDay(o) <= D /\ D <= today - 1
  BY <1>1, <1>4 DEF Dates
<1>6. \A D \in Dates(o) : D \in 1..MaxDay /\ D < today
  BY <1>1, <1>4, <1>5, Constants
<1>7. ASSUME NEW D \in Dates(o) PROVE today - 1 \in Dates(o)
  <2>1. FirstDay(o) <= today - 1
    BY <1>1, <1>4, <1>5
  <2> QED BY <1>1, <1>4, <2>1 DEF Dates
<1> QED BY <1>6, <1>7 DEF Missing, Days

\* A run begins.
LEMMA ScanKeeps ==
    ASSUME DailyInv, NEW o \in OptionSet, NEW js, NEW ds, NEW t \in BOOLEAN, Scan(o, js, ds, t),
           js \subseteq Days, ds \subseteq Days, js # {},
           o.cmd = "catchup" => /\ js \subseteq ds
                                /\ \A D \in js : D < today
                                /\ \E D \in ds : D >= checkpoint.through,
           t = TRUE => checkpoint.through + 1 = Oldest(js)
    PROVE  DailyInv'
<1> USE DEF Scan
<1>1. UNCHANGED <<log, folder, today, raw, report, latest, checkpoint, spent>>
  BY DEF telegram, files
<1>2. UNCHANGED <<listing, seen, todo, walk, heads, found, failed>>
  BY DEF scan
<1>3. TypeOK'
  BY <1>1, <1>2 DEF DailyInv, TypeOK
<1>4. LogInOrder' /\ CheckpointInv'
  BY <1>1 DEF DailyInv, LogInOrder, CheckpointInv
<1>5. PlanInv'
  BY <1>1 DEF PlanInv, RangeStart
<1>6. ScanInv'
  BY <1>1, <1>2, ZeroTypes DEF DailyInv, ScanInv, Listed
<1> QED BY <1>3, <1>4, <1>5, <1>6 DEF DailyInv

\* Each command line.
LEMMA BeginKeeps ==
    ASSUME DailyInv, NEW o \in Options, Begin(o)
    PROVE  DailyInv'
<1>1. /\ o \in OptionSet /\ TypeOK /\ today \in Nat /\ today \in 1..MaxDay
      /\ checkpoint.through \in Nat /\ checkpoint.through < today
  BY DailyOptions, Constants DEF DailyInv, TypeOK, CheckpointInv, Days
<1>2. CASE Catchup(o)
  <2>1. /\ Scan(o, Missing(o), Dates(o), Trusts(o, Oldest(Missing(o))))
        /\ Missing(o) # {}
    BY <1>2 DEF Catchup
  <2>2. /\ Dates(o) \subseteq Days /\ Missing(o) \subseteq Dates(o)
        /\ \A D \in Missing(o) : D < today
        /\ today - 1 \in Dates(o)
    BY <1>1, <2>1, DatesAre
  <2>3. today - 1 >= checkpoint.through
    BY <1>1
  <2>4. Trusts(o, Oldest(Missing(o))) \in BOOLEAN
    BY DEF Trusts
  <2>5. Trusts(o, Oldest(Missing(o))) = TRUE => checkpoint.through + 1 = Oldest(Missing(o))
    BY DEF Trusts, Contiguous
  <2> QED BY <1>1, <2>1, <2>2, <2>3, <2>4, <2>5, ScanKeeps
<1>3. CASE RebuildLatest(o)
  <2>1. /\ latest' = Dates(o) /\ Dates(o) # {} /\ pc = "idle"
        /\ UNCHANGED <<telegram, raw, report, checkpoint, memory, spent>>
    BY <1>3 DEF RebuildLatest
  <2>2. Dates(o) \subseteq Days /\ today - 1 \in Dates(o) /\ today - 1 >= checkpoint.through
    BY <1>1, <2>1, DatesAre
  <2>3. UNCHANGED <<log, folder, today>> /\ UNCHANGED <<pc, opt, jobs, dates, trusted, pending>>
        /\ UNCHANGED <<listing, seen, todo, walk, heads, found, failed>>
        /\ UNCHANGED <<raw, report, checkpoint, spent>>
    BY <2>1 DEF telegram, memory, plan, scan
  <2>4. TypeOK'
    BY <2>1, <2>2, <2>3 DEF DailyInv, TypeOK
  <2>5. LogInOrder'
    BY <2>3 DEF DailyInv, LogInOrder
  <2>6. CheckpointInv'
    BY <2>1, <2>2, <2>3 DEF DailyInv, CheckpointInv
  <2>7. PlanInv'
    BY <2>1, <2>3 DEF PlanInv
  <2>8. ScanInv'
    BY <2>1, <2>3 DEF DailyInv, ScanInv, Listed
  <2> QED BY <2>4, <2>5, <2>6, <2>7, <2>8 DEF DailyInv
<1>4. CASE Daily(o)
  <2>1. o.cmd = "daily" /\ o.back < today /\ Scan(o, {today - o.back}, {}, FALSE)
    BY <1>4 DEF Daily
  <2>2. o.back \in Nat
    BY <1>1, Constants DEF OptionSet
  <2>3. today - o.back \in Days
    BY <1>1, <2>1, <2>2, Constants DEF Days
  <2>4. {today - o.back} \subseteq Days /\ {today - o.back} # {} /\ {} \subseteq Days
    BY <2>3
  <2>5. o.cmd # "catchup" /\ FALSE \in BOOLEAN
    BY <2>1
  <2> DEFINE js == {today - o.back}
  <2>6. Scan(o, js, {}, FALSE) /\ js \subseteq Days /\ js # {}
    BY <2>1, <2>4
  <2> HIDE DEF js
  <2>7. FALSE = TRUE => checkpoint.through + 1 = Oldest(js)
    OBVIOUS
  <2>8. o.cmd = "catchup" => /\ js \subseteq {}
                             /\ \A D \in js : D < today
                             /\ \E D \in {} : D >= checkpoint.through
    BY <2>5
  <2> QED BY <1>1, <2>4, <2>5, <2>6, <2>7, <2>8, ScanKeeps
<1> QED BY <1>2, <1>3, <1>4 DEF Begin

\* The position in the list keeps its folder.
LEMMA ListingRecord ==
    ASSUME TypeOK, NEW n \in 0..MaxMessages, listing' = [listing EXCEPT !.offset = n]
    PROVE  listing' \in Positions /\ listing'.folder = listing.folder /\ listing'.offset = n
BY DEF TypeOK, Positions

\* A page of the list, the end of a folder, the end of the list.
LEMMA ListingKeeps ==
    ASSUME DailyInv, ListDialogs \/ NextFolder \/ EndListing
    PROVE  DailyInv'
<1>1. TypeOK /\ UNCHANGED <<log, folder, today, raw, report, latest, checkpoint>>
  BY DEF DailyInv, telegram, files, ListDialogs, NextFolder, EndListing
<1>2. UNCHANGED <<opt, jobs, dates, trusted, pending, walk, heads, found, spent>>
  BY DEF plan, ListDialogs, NextFolder, EndListing
<1>3. LogInOrder' /\ CheckpointInv'
  BY <1>1 DEF DailyInv, LogInOrder, CheckpointInv
<1>4. pc = "listing" /\ pc' \in {"listing", "dialogs"}
  BY DEF ListDialogs, NextFolder, EndListing
<1>5. PlanInv'
  BY <1>1, <1>2, <1>4 DEF DailyInv, PlanInv, RangeStart
<1>6. \A d \in DOMAIN heads' : HeadSound(log', heads'[d], Through')
  BY <1>1, <1>2, <1>4 DEF DailyInv, ScanInv, Through
<1>7. \A d \in Dialogs : Top(d) \in 0..MaxMessages /\ Top(d) <= Len(log)
  <2>1. Len(log) \in Nat /\ Len(log) <= MaxMessages
    BY <1>1, LogType DEF TypeOK
  <2> QED BY <1>1, <2>1, TopIs, Constants
<1>8. CASE ListDialogs
  <2>1. PICK P \in Listings :
            /\ seen' = [d \in Dialogs |-> IF d \in P THEN Top(d) ELSE seen[d]]
            /\ listing' = [listing EXCEPT !.offset = Oldest({Top(d) : d \in P})]
    BY <1>8 DEF ListDialogs
  <2>2. UNCHANGED <<pc, todo, failed>>
    BY <1>8 DEF ListDialogs
  <2>3. P # {} /\ P \subseteq Dialogs /\ \A d \in P : Top(d) # 0
    BY <2>1 DEF Listings, Unlisted
  <2>4. {Top(d) : d \in P} \subseteq 0..MaxMessages /\ {Top(d) : d \in P} # {}
        /\ {Top(d) : d \in P} \subseteq Nat
    <3>1. 0..MaxMessages \subseteq Nat
      BY Constants
    <3> QED BY <1>7, <2>3, <3>1
  <2>5. Oldest({Top(d) : d \in P}) \in 0..MaxMessages
    BY <2>4, OldestIs
  <2>6. listing' \in Positions
    BY <1>1, <2>1, <2>5, ListingRecord
  <2>7. seen' \in [Dialogs -> 0..MaxMessages] /\ \A d \in Dialogs : seen'[d] <= Len(log')
    BY <1>1, <1>7, <2>1, <2>3 DEF DailyInv, ScanInv, TypeOK
  <2>8. todo' \subseteq Listed'
    BY <2>1, <2>2, <2>3 DEF DailyInv, ScanInv, Listed
  <2>9. TypeOK'
    BY <1>1, <1>2, <2>2, <2>6, <2>7 DEF TypeOK
  <2>10. ScanInv'
    BY <1>4, <1>6, <2>2, <2>7, <2>8 DEF ScanInv
  <2> QED BY <1>3, <1>5, <2>9, <2>10 DEF DailyInv
<1>9. CASE NextFolder
  <2>1. UNCHANGED <<pc, todo, failed, seen>> /\ listing' = [folder |-> 1, offset |-> 0]
    BY <1>9 DEF NextFolder
  <2>2. TypeOK'
    BY <1>1, <1>2, <2>1, ZeroTypes DEF TypeOK
  <2>3. ScanInv'
    BY <1>1, <1>4, <1>6, <2>1 DEF DailyInv, ScanInv, Listed
  <2> QED BY <1>3, <1>5, <2>2, <2>3 DEF DailyInv
<1>10. CASE EndListing
  <2>1. /\ todo' = Within(opt) /\ failed' = (Within(opt) # Listed) /\ listing' = NoListing
        /\ seen' = seen /\ pc' = "dialogs"
    BY <1>10 DEF EndListing
  <2>2. todo' \subseteq Listed /\ Listed \subseteq Dialogs /\ Listed' = Listed /\ failed' \in BOOLEAN
    BY <2>1 DEF Within, Listed
  <2>3. TypeOK'
    BY <1>1, <1>2, <2>1, <2>2, ZeroTypes DEF TypeOK
  <2>4. ScanInv'
    BY <1>1, <1>6, <2>1, <2>2 DEF DailyInv, ScanInv
  <2> QED BY <1>3, <1>5, <2>3, <2>4 DEF DailyInv
<1> QED BY <1>8, <1>9, <1>10

\* What the list says of a dialog verifies at most the last day of the range.
LEMMA ListedHeadSound ==
    ASSUME DailyInv, pc \in {"dialogs", "history"}, todo # {}
    PROVE  HeadSound(log, ListedHead, Through) /\ ListedHead.top = seen[Dialog]
<1>1. TypeOK /\ Dialog \in todo /\ Dialog \in Dialogs /\ jobs # {}
  BY DialogIs DEF DailyInv, PlanInv
<1>2. seen[Dialog] # 0 /\ seen[Dialog] \in 0..MaxMessages /\ seen[Dialog] <= Len(log)
  BY <1>1 DEF DailyInv, ScanInv, Listed, TypeOK
<1>3. seen[Dialog] \in Messages /\ seen[Dialog] \in 1..Len(log)
  BY <1>1, <1>2, LogType, Constants DEF Messages
<1>4. log[seen[Dialog]].day \in Nat /\ Through \in Nat /\ RangeEnd = Through + 1
  BY <1>1, <1>3, LogType, RangeIs
<1>5. CASE log[seen[Dialog]].day < RangeEnd
  <2>1. ListedHead = [top |-> seen[Dialog], verified |-> seen[Dialog], full |-> TRUE]
    BY <1>5 DEF ListedHead
  <2>2. log[seen[Dialog]].day <= Through
    BY <1>4, <1>5
  <2>3. seen[Dialog] <= seen[Dialog] /\ seen[Dialog] <= Len(log)
    BY <1>3, <1>2, Constants
  <2> QED BY <1>2, <1>3, <2>1, <2>2, <2>3 DEF HeadSound, Heads
<1>6. CASE ~(log[seen[Dialog]].day < RangeEnd)
  <2>1. ListedHead = [top |-> seen[Dialog], verified |-> 0, full |-> FALSE]
    <3>1. (log[seen[Dialog]].day < RangeEnd) = FALSE
      BY <1>6
    <3> QED BY <3>1 DEF ListedHead
  <2>2. 0 <= seen[Dialog] /\ seen[Dialog] <= Len(log) /\ 0 \in 0..MaxMessages
    BY <1>2, <1>3, Constants
  <2> QED BY <1>2, <1>3, <2>1, <2>2 DEF HeadSound, Heads
<1> QED BY <1>5, <1>6

\* A dialog is done, with a sound head.
LEMMA HeadKept ==
    ASSUME DailyInv, pc \in {"dialogs", "history"}, todo # {},
           NEW head, HeadSound(log, head, Through), NextDialog(head),
           UNCHANGED <<telegram, files, plan, listing, seen, pending>>,
           found' \subseteq DOMAIN log, failed' \in BOOLEAN, spent' \in 0..MaxTroubles
    PROVE  DailyInv'
<1>1. TypeOK /\ UNCHANGED <<log, folder, today, raw, report, latest, checkpoint>>
  BY DEF DailyInv, telegram, files
<1>2. UNCHANGED <<opt, jobs, dates, trusted, pending, listing, seen>>
  BY DEF plan
<1>3. pc' = "dialogs" /\ walk' = NoWalk /\ todo' = todo \ {Dialog} /\ heads' = Put(heads, Dialog, head)
  BY DEF NextDialog
<1>4. Dialog \in Dialogs /\ head \in Heads
  BY <1>1, DialogIs DEF HeadSound
<1>5. /\ DOMAIN heads' = DOMAIN heads \cup {Dialog} /\ heads'[Dialog] = head
      /\ \A d \in DOMAIN heads \ {Dialog} : heads'[d] = heads[d]
  <2>1. /\ DOMAIN Put(heads, Dialog, head) = DOMAIN heads \cup {Dialog}
        /\ Put(heads, Dialog, head)[Dialog] = head
        /\ \A d \in DOMAIN heads \ {Dialog} : Put(heads, Dialog, head)[d] = heads[d]
    BY DEF Put
  <2> QED BY <1>3, <2>1
<1>6. \A d \in DOMAIN heads : HeadSound(log, heads[d], Through)
  BY DEF DailyInv, ScanInv
<1>7. \A d \in DOMAIN heads' : HeadSound(log, heads'[d], Through)
  BY <1>5, <1>6
<1>8. DOMAIN heads' \subseteq Dialogs /\ \A d \in DOMAIN heads' : heads'[d] \in Heads
  BY <1>1, <1>4, <1>5, <1>7 DEF TypeOK, HeadSound
<1>9. TypeOK'
  BY <1>1, <1>2, <1>3, <1>8, ZeroTypes DEF TypeOK
<1>10. LogInOrder' /\ CheckpointInv'
  BY <1>1 DEF DailyInv, LogInOrder, CheckpointInv
<1>11. PlanInv'
  BY <1>1, <1>2, <1>3 DEF DailyInv, PlanInv, RangeStart
<1>12. Through' = Through
  BY <1>2 DEF Through
<1>13. ScanInv'
  BY <1>1, <1>2, <1>3, <1>7, <1>12 DEF DailyInv, ScanInv, Listed
<1> QED BY <1>9, <1>10, <1>11, <1>13 DEF DailyInv

\* A dialog that is skipped, or fails.
LEMMA SkipKeeps ==
    ASSUME DailyInv, SkipDialog \/ FailDialog
    PROVE  DailyInv'
<1>1. pc \in {"dialogs", "history"} /\ todo # {} /\ NextDialog(ListedHead)
      /\ UNCHANGED <<telegram, files, plan, listing, seen, pending>>
  BY DEF SkipDialog, FailDialog
<1>2. found' \subseteq DOMAIN log /\ failed' \in BOOLEAN
  BY DEF SkipDialog, FailDialog, DailyInv, TypeOK
<1>3. spent' \in 0..MaxTroubles
  <2>1. spent' = spent \/ (spent < MaxTroubles /\ spent' = spent + 1)
    BY DEF SkipDialog, FailDialog
  <2>2. spent \in 0..MaxTroubles
    BY DEF DailyInv, TypeOK
  <2> QED BY <2>1, <2>2, Constants
<1> QED BY <1>1, <1>2, <1>3, ListedHeadSound, HeadKept

\* A trusted head bounds the history by what was sent before the range.
LEMMA MinIDIs ==
    ASSUME DailyInv, pc \in {"dialogs", "history"}, todo # {}
    PROVE  /\ MinID \in Nat /\ MinID <= Len(log)
           /\ MinID # 0 => /\ MinID \in 1..Len(log)
                           /\ log[MinID].day < RangeStart
                           /\ log[MinID].day <= Through
<1>1. TypeOK /\ Dialog \in todo /\ Dialog \in Dialogs /\ jobs # {} /\ Len(log) \in Nat
  BY DialogIs, LogType DEF DailyInv, PlanInv
<1>2. CASE /\ trusted = TRUE /\ Dialog \in DOMAIN checkpoint.heads
           /\ Known.verified > 0 /\ seen[Dialog] > Known.verified
  <2>1. HeadSound(log, Known, checkpoint.through)
    BY <1>2 DEF DailyInv, CheckpointInv, Known
  <2>2. Known.verified \in Nat /\ Known.top \in Nat /\ Known.verified <= Known.top /\ Known.top <= Len(log)
    BY <2>1, HeadType
  <2>3. Known.verified \in 1..Len(log)
    BY <1>1, <1>2, <2>2
  <2>4. log[Known.verified].day <= checkpoint.through
    BY <1>2, <2>1, <2>2 DEF HeadSound
  <2>5. checkpoint.through + 1 = RangeStart /\ checkpoint.through \in Nat
    BY <1>1, <1>2, Constants DEF DailyInv, PlanInv, TypeOK
  <2>6. RangeStart <= Through /\ RangeStart \in Nat /\ Through \in Nat
    BY <1>1, RangeIs
  <2>7. log[Known.verified].day \in Nat
    BY <1>1, <2>3, LogType
  <2>8. log[Known.verified].day < RangeStart /\ log[Known.verified].day <= Through
    BY <2>4, <2>5, <2>6, <2>7
  <2>9. MinID = Known.verified
    BY <1>2 DEF MinID
  <2> QED BY <2>2, <2>3, <2>8, <2>9, <1>1
<1>3. CASE ~(/\ trusted = TRUE /\ Dialog \in DOMAIN checkpoint.heads
             /\ Known.verified > 0 /\ seen[Dialog] > Known.verified)
  <2>1. MinID = 0
    BY <1>1, <1>3 DEF MinID, TypeOK
  <2> QED BY <1>1, <2>1
<1> QED BY <1>2, <1>3

\* The history of a dialog is opened.
LEMMA OpenKeeps ==
    ASSUME DailyInv, OpenDialog
    PROVE  DailyInv'
<1>1. TypeOK /\ UNCHANGED <<log, folder, today, raw, report, latest, checkpoint>>
  BY DEF DailyInv, telegram, files, OpenDialog
<1>2. UNCHANGED <<opt, jobs, dates, trusted, pending, listing, seen, todo, heads, found, failed, spent>>
  BY DEF plan, OpenDialog
<1>3. pc = "dialogs" /\ todo # {} /\ pc' = "history" /\ walk' = [NoWalk EXCEPT !.scanned = MinID]
  BY DEF OpenDialog
<1>4. MinID \in Nat /\ MinID <= Len(log) /\ (MinID # 0 => log[MinID].day <= Through)
  BY <1>3, MinIDIs
<1>5. MinID \in 0..MaxMessages /\ 0 <= Len(log)
  <2>1. Len(log) \in Nat /\ Len(log) <= MaxMessages
    BY <1>1, LogType DEF TypeOK
  <2> QED BY <1>4, <2>1, Constants
<1>6. walk' \in Walks /\ walk'.observed = 0 /\ walk'.scanned = MinID /\ walk'.offset = 0
  BY <1>3, <1>5, ZeroTypes DEF NoWalk, Walks
<1>7. TypeOK'
  BY <1>1, <1>2, <1>3, <1>6 DEF TypeOK
<1>8. LogInOrder' /\ CheckpointInv'
  BY <1>1 DEF DailyInv, LogInOrder, CheckpointInv
<1>9. PlanInv'
  BY <1>1, <1>2, <1>3 DEF DailyInv, PlanInv, RangeStart
<1>10. Through' = Through
  BY <1>2 DEF Through
<1>11. ScanInv'
  BY <1>1, <1>2, <1>3, <1>4, <1>5, <1>6, <1>10 DEF DailyInv, ScanInv, Listed
<1> QED BY <1>7, <1>8, <1>9, <1>11 DEF DailyInv

\* What an answer holds.
LEMMA AnswerIs ==
    ASSUME TypeOK, todo # {}, NEW a \in Answers
    PROVE  /\ a.msgs \subseteq Live(Dialog) /\ a.msgs \subseteq 1..Len(log)
           /\ Newest(a.msgs) \in 0..Len(log)
           /\ \A m \in a.msgs : m <= Newest(a.msgs)
<1>1. a.msgs \subseteq Live(Dialog)
  BY DEF Answers
<1>2. Live(Dialog) \subseteq 1..Len(log) /\ Len(log) \in Nat
  BY DialogIs, TopIs, LogType
<1>3. a.msgs \subseteq 1..Len(log)
  BY <1>1, <1>2
<1> QED BY <1>1, <1>2, <1>3, NewestOfMessages

\* What a walk may have observed and scanned.
GoodWalk(w) ==
    /\ w \in Walks /\ w.observed <= Len(log) /\ w.scanned <= Len(log)
    /\ w.scanned # 0 => log[w.scanned].day <= Through

\* Observing a page keeps a walk good.
LEMMA ObserveIs ==
    ASSUME DailyInv, pc = "history", NEW a \in Answers
    PROVE  GoodWalk(Observe(a)) /\ Observe(a).offset = walk.offset
<1>1. TypeOK /\ todo # {} /\ jobs # {} /\ Len(log) \in Nat /\ Len(log) <= MaxMessages
  BY LogType DEF DailyInv, ScanInv, PlanInv, TypeOK
<1>2. walk \in Walks /\ walk.observed <= Len(log) /\ walk.scanned <= Len(log)
      /\ (walk.scanned # 0 => log[walk.scanned].day <= Through)
  BY <1>1 DEF DailyInv, ScanInv, TypeOK
<1>3. walk.observed \in Nat /\ walk.scanned \in Nat
  BY <1>2, Constants DEF Walks
<1> DEFINE past == {m \in a.msgs : log[m].day < RangeEnd}
           new  == Newest(a.msgs)
           done == Newest(past)
<1>4. new \in 0..Len(log) /\ new \in Nat /\ a.msgs \subseteq 1..Len(log)
  BY <1>1, AnswerIs
<1>5. /\ done \in 0..Len(log) /\ done \in Nat
      /\ done # 0 => done \in past
  <2>1. past \subseteq 1..Len(log)
    BY <1>4
  <2> HIDE DEF past
  <2>2. /\ Newest(past) \in 0..Len(log) /\ (past # {} => Newest(past) \in past)
        /\ past = {} <=> Newest(past) = 0
    BY <1>1, <2>1, NewestOfMessages
  <2>3. 0..Len(log) \subseteq Nat
    BY <1>1
  <2> QED BY <2>2, <2>3
<1>6. done # 0 => log[done].day <= Through
  <2>1. ASSUME done # 0 PROVE log[done].day <= Through
    <3>1. done \in a.msgs /\ log[done].day < RangeEnd
      BY <1>5, <2>1
    <3>2. log[done].day \in Nat /\ RangeEnd = Through + 1 /\ Through \in Nat
      BY <1>1, <1>4, <3>1, LogType, RangeIs
    <3> QED BY <3>1, <3>2
  <2> QED BY <2>1
<1> DEFINE o == Larger(walk.observed, new)
           s == Larger(walk.scanned, done)
<1>7. Observe(a) = [walk EXCEPT !.observed = o, !.scanned = s]
  BY DEF Observe
<1>8. o \in Nat /\ o \in {walk.observed, new} /\ s \in Nat /\ s \in {walk.scanned, done}
  BY <1>3, <1>4, <1>5, LargerIs
<1> HIDE DEF o, s, new, done
<1>9. o <= Len(log) /\ s <= Len(log)
  BY <1>1, <1>2, <1>4, <1>5, <1>8
<1>10. s # 0 => log[s].day <= Through
  BY <1>2, <1>6, <1>8
<1>11. o \in 0..MaxMessages /\ s \in 0..MaxMessages
  BY <1>1, <1>8, <1>9, Constants
<1>12. /\ Observe(a) \in Walks /\ Observe(a).observed = o /\ Observe(a).scanned = s
       /\ Observe(a).offset = walk.offset
  BY <1>2, <1>7, <1>11 DEF Walks
<1> QED BY <1>9, <1>10, <1>12 DEF GoodWalk

\* What a complete scan proves is sound.
LEMMA BoundarySound ==
    ASSUME DailyInv, pc = "history", NEW w, GoodWalk(w)
    PROVE  HeadSound(log, Boundary(w), Through)
<1>1. TypeOK /\ todo # {} /\ jobs # {} /\ Len(log) \in Nat /\ Len(log) <= MaxMessages
  BY LogType DEF DailyInv, ScanInv, PlanInv, TypeOK
<1>2. HeadSound(log, ListedHead, Through) /\ ListedHead.top = seen[Dialog]
  BY <1>1, ListedHeadSound
<1>3. /\ seen[Dialog] \in Nat /\ seen[Dialog] # 0 /\ seen[Dialog] <= Len(log)
      /\ ListedHead.verified \in Nat /\ ListedHead.verified <= seen[Dialog]
      /\ ListedHead.verified # 0 => log[ListedHead.verified].day <= Through
  BY <1>2, HeadType DEF HeadSound
<1>4. w.observed \in Nat /\ w.scanned \in Nat /\ w.observed <= Len(log) /\ w.scanned <= Len(log)
      /\ (w.scanned # 0 => log[w.scanned].day <= Through)
  BY Constants DEF GoodWalk, Walks
<1>5. MinID \in Nat /\ MinID <= Len(log) /\ (MinID # 0 => log[MinID].day <= Through)
  BY <1>1, MinIDIs
<1> DEFINE top     == Larger(seen[Dialog], w.observed)
           full    == w.observed = top /\ log[top].day < RangeEnd
           low     == Larger(MinID, w.scanned)
           reached == IF full THEN top ELSE low
<1>6. /\ top \in Nat /\ top # 0 /\ top <= Len(log) /\ seen[Dialog] <= top
      /\ top \in 1..Len(log)
  <2>1. top \in Nat /\ top \in {seen[Dialog], w.observed} /\ seen[Dialog] <= top
    BY <1>3, <1>4, LargerIs
  <2> HIDE DEF top
  <2> QED BY <1>1, <1>3, <1>4, <2>1
<1>7. /\ low \in Nat /\ low <= Len(log)
      /\ low # 0 => log[low].day <= Through
  <2>1. low \in Nat /\ low \in {MinID, w.scanned}
    BY <1>4, <1>5, LargerIs
  <2> HIDE DEF low
  <2> QED BY <2>1, <1>4, <1>5
<1>8. full => log[top].day <= Through
  <2>1. log[top].day \in Nat /\ RangeEnd = Through + 1 /\ Through \in Nat
    BY <1>1, <1>6, LogType, RangeIs
  <2> HIDE DEF top
  <2> QED BY <2>1
<1>9. CASE w.observed < seen[Dialog]
  <2>1. Boundary(w) = [top |-> top, verified |-> 0, full |-> FALSE]
    BY <1>9 DEF Boundary
  <2>2. top \in Messages /\ 0 \in 0..MaxMessages /\ 0 <= top
    BY <1>1, <1>6, Constants DEF Messages
  <2> HIDE DEF top
  <2> QED BY <1>6, <2>1, <2>2 DEF HeadSound, Heads
<1>10. CASE ~(w.observed < seen[Dialog])
  <2> DEFINE t == Larger(top, reached)
             v == Larger(ListedHead.verified, reached)
  <2>1. Boundary(w) = [top |-> t, verified |-> v, full |-> full]
    BY <1>10 DEF Boundary
  <2>2. /\ reached \in Nat /\ reached <= Len(log)
        /\ reached # 0 => log[reached].day <= Through
        /\ full => reached = top
    <3> HIDE DEF top, low, full
    <3> QED BY <1>6, <1>7, <1>8
  <2> HIDE DEF reached, top, full
  <2>3. t \in Nat /\ t \in {top, reached} /\ top <= t /\ reached <= t
    BY <1>6, <2>2, LargerIs
  <2>4. v \in Nat /\ v \in {ListedHead.verified, reached} /\ reached <= v
    BY <1>3, <2>2, LargerIs
  <2> HIDE DEF t, v
  <2>5. t <= Len(log) /\ t # 0
    BY <1>6, <2>2, <2>3
  <2>6. v <= t
    BY <1>3, <1>6, <2>2, <2>3, <2>4
  <2>7. v # 0 => log[v].day <= Through
    BY <1>3, <2>2, <2>4
  <2>8. full => v = t
    BY <1>3, <1>6, <2>2, <2>3, <2>4
  <2>9. t \in Messages /\ v \in 0..MaxMessages
    BY <1>1, <2>3, <2>4, <2>5, <2>6, Constants DEF Messages
  <2>10. full \in BOOLEAN
    BY DEF full
  <2> QED BY <2>1, <2>5, <2>6, <2>7, <2>8, <2>9, <2>10 DEF HeadSound, Heads
<1> QED BY <1>9, <1>10

\* A page of history is read.
LEMMA ReadKeeps ==
    ASSUME DailyInv, ReadHistory
    PROVE  DailyInv'
<1>1. /\ pc = "history" /\ UNCHANGED <<telegram, files, plan, listing, seen, failed, pending, spent>>
      /\ TypeOK /\ todo # {}
  BY DEF ReadHistory, DailyInv, ScanInv
<1>2. PICK a \in Answers :
          /\ found' = found \cup InRange(a)
          /\ IF Complete(a)
             THEN NextDialog(Boundary(Observe(a)))
             ELSE /\ walk' = [Observe(a) EXCEPT !.offset = Oldest(a.msgs)]
                  /\ UNCHANGED <<pc, heads, todo>>
  BY DEF ReadHistory
<1>3. a.msgs \subseteq DOMAIN log /\ a.msgs \subseteq 1..Len(log) /\ Len(log) \in Nat /\ Len(log) <= MaxMessages
  BY <1>1, AnswerIs, LogType DEF TypeOK
<1>4. found' \subseteq DOMAIN log
  BY <1>1, <1>2, <1>3 DEF InRange, TypeOK
<1>5. GoodWalk(Observe(a))
  BY <1>1, ObserveIs
<1>6. CASE Complete(a)
  <2>1. NextDialog(Boundary(Observe(a))) /\ HeadSound(log, Boundary(Observe(a)), Through)
    BY <1>1, <1>2, <1>5, <1>6, BoundarySound
  <2>2. failed' \in BOOLEAN /\ spent' \in 0..MaxTroubles
    BY <1>1 DEF TypeOK
  <2> QED BY <1>1, <1>4, <2>1, <2>2, HeadKept
<1>7. CASE ~Complete(a)
  <2>1. a.msgs # {} /\ a.msgs \subseteq Nat
    BY <1>3, <1>7 DEF Complete
  <2>2. Oldest(a.msgs) \in a.msgs
    BY <2>1, OldestIs
  <2>3. Oldest(a.msgs) \in 0..MaxMessages
    BY <1>3, <2>2, Constants
  <2>4. walk' = [Observe(a) EXCEPT !.offset = Oldest(a.msgs)] /\ UNCHANGED <<pc, heads, todo>>
    BY <1>2, <1>7
  <2>5. GoodWalk(walk')
    <3> HIDE DEF Observe
    <3>1. /\ walk' \in Walks /\ walk'.observed = Observe(a).observed
          /\ walk'.scanned = Observe(a).scanned
      BY <1>5, <2>3, <2>4 DEF GoodWalk, Walks
    <3> QED BY <1>5, <3>1 DEF GoodWalk
  <2>6. UNCHANGED <<log, folder, today, raw, report, latest, checkpoint>>
    BY <1>1 DEF telegram, files
  <2>7. UNCHANGED <<opt, jobs, dates, trusted, pending, listing, seen, failed, spent>>
    BY <1>1 DEF plan
  <2>8. TypeOK'
    BY <1>1, <1>4, <2>4, <2>5, <2>6, <2>7 DEF TypeOK, GoodWalk
  <2>9. LogInOrder' /\ CheckpointInv'
    BY <2>6 DEF DailyInv, LogInOrder, CheckpointInv
  <2>10. PlanInv'
    BY <1>1, <2>4, <2>6, <2>7 DEF DailyInv, PlanInv, RangeStart
  <2>11. Through' = Through
    BY <2>7 DEF Through
  <2>12. ScanInv'
    BY <1>1, <2>4, <2>5, <2>6, <2>7, <2>11 DEF DailyInv, ScanInv, Listed, GoodWalk
  <2> QED BY <2>8, <2>9, <2>10, <2>12 DEF DailyInv
<1> QED BY <1>6, <1>7

\* The scan of all dialogs has ended.
LEMMA EndScanKeeps ==
    ASSUME DailyInv, EndScan
    PROVE  DailyInv'
<1>1. TypeOK /\ UNCHANGED <<log, folder, today, raw, report, latest, checkpoint>>
  BY DEF DailyInv, telegram, files, EndScan
<1>2. UNCHANGED <<opt, jobs, dates, trusted, pending, spent>> /\ pc = "dialogs" /\ pc' = "records"
  BY DEF plan, EndScan
<1>3. UNCHANGED <<listing, seen, todo, walk, heads, found, failed>>
  BY DEF scan, EndScan
<1>4. TypeOK'
  BY <1>1, <1>2, <1>3 DEF TypeOK
<1>5. LogInOrder' /\ CheckpointInv'
  BY <1>1 DEF DailyInv, LogInOrder, CheckpointInv
<1>6. PlanInv'
  BY <1>1, <1>2 DEF DailyInv, PlanInv, RangeStart
<1>7. ScanInv'
  BY <1>1, <1>2, <1>3 DEF DailyInv, ScanInv, Listed, Through
<1> QED BY <1>4, <1>5, <1>6, <1>7 DEF DailyInv

\* The records of a day are published.
LEMMA RecordsKeep ==
    ASSUME DailyInv, PublishRecords
    PROVE  DailyInv'
<1>1. TypeOK /\ UNCHANGED <<log, folder, today, report, latest, checkpoint>>
  BY DEF DailyInv, telegram, PublishRecords
<1>2. UNCHANGED <<opt, jobs, dates, trusted, pending, spent>> /\ pc = "records" /\ pc' = "report"
  BY DEF plan, PublishRecords
<1>3. UNCHANGED <<listing, seen, todo, walk, heads, found, failed>>
  BY DEF scan, PublishRecords
<1>4. /\ DOMAIN raw' = DOMAIN raw \cup {Day} /\ raw'[Day] = DayRecords
      /\ \A D \in DOMAIN raw \ {Day} : raw'[D] = raw[D]
  BY DEF PublishRecords, Put
<1>5. pending # {} /\ Day \in Days /\ Day' = Day /\ DayRecords \subseteq DOMAIN log
  BY <1>1, <1>2, DayIs DEF DailyInv, PlanInv, TypeOK, DayRecords, Day
<1>6. /\ DOMAIN raw' \subseteq Days /\ DOMAIN report' \subseteq DOMAIN raw'
      /\ \A D \in DOMAIN raw' : raw'[D] \subseteq DOMAIN log'
  BY <1>1, <1>4, <1>5 DEF TypeOK
<1>7. TypeOK'
  BY <1>1, <1>2, <1>3, <1>6 DEF TypeOK
<1>8. LogInOrder' /\ CheckpointInv'
  BY <1>1 DEF DailyInv, LogInOrder, CheckpointInv
<1>9. PlanInv'
  BY <1>1, <1>2, <1>4, <1>5 DEF DailyInv, PlanInv, RangeStart
<1>10. ScanInv'
  BY <1>1, <1>2, <1>3 DEF DailyInv, ScanInv, Listed, Through
<1> QED BY <1>7, <1>8, <1>9, <1>10 DEF DailyInv

\* The report of a day is published.
LEMMA ReportKeeps ==
    ASSUME DailyInv, PublishReport
    PROVE  DailyInv'
<1>1. TypeOK /\ UNCHANGED <<log, folder, today, raw, latest, checkpoint, spent>> /\ pc = "report"
  BY DEF DailyInv, telegram, PublishReport
<1>2. /\ DOMAIN report' = DOMAIN report \cup {Day} /\ report'[Day] = DayRecords
      /\ \A D \in DOMAIN report \ {Day} : report'[D] = report[D]
  BY DEF PublishReport, Put
<1>3. Day \in DOMAIN raw /\ DayRecords \subseteq DOMAIN log /\ pending # {} /\ Day \in pending
  BY <1>1, DayIs DEF DailyInv, PlanInv, TypeOK, DayRecords
<1>4. /\ DOMAIN report' \subseteq DOMAIN raw'
      /\ \A D \in DOMAIN report' : report'[D] \subseteq DOMAIN log
  BY <1>1, <1>2, <1>3 DEF TypeOK
<1>5. LogInOrder' /\ CheckpointInv'
  BY <1>1, <1>2 DEF DailyInv, LogInOrder, CheckpointInv
<1>6. CASE Quit
  <2>1. /\ UNCHANGED telegram /\ spent' \in 0..MaxTroubles /\ latest' \subseteq Days
        /\ DOMAIN raw' \subseteq Days /\ \A D \in DOMAIN raw' : raw'[D] \subseteq DOMAIN log
    BY <1>1 DEF TypeOK, telegram
  <2>2. /\ checkpoint'.through \in 0..MaxDay /\ checkpoint'.scope \in 0..NumDialogs
        /\ DOMAIN checkpoint'.heads \subseteq Dialogs
        /\ \A d \in DOMAIN checkpoint'.heads : checkpoint'.heads[d] \in Heads
    BY <1>1 DEF TypeOK
  <2> QED BY <1>4, <1>5, <1>6, <2>1, <2>2, QuitKeeps
<1>7. ASSUME pc' \in {"records", "latest"}, pending' \subseteq pending,
             pending \ pending' \subseteq {Day},
             pc' = "records" => pending' # {},
             pc' = "latest" => opt.cmd = "catchup" /\ pending' = {},
             UNCHANGED <<plan, scan>>
      PROVE  DailyInv'
  <2>1. UNCHANGED <<opt, jobs, dates, trusted>>
    BY <1>7 DEF plan
  <2>2. UNCHANGED <<listing, seen, todo, walk, heads, found, failed>>
    BY <1>7 DEF scan
  <2>3. pending' \subseteq jobs
    BY <1>1, <1>7 DEF TypeOK
  <2>4. TypeOK'
    BY <1>1, <1>4, <1>7, <2>1, <2>2, <2>3 DEF TypeOK
  <2>5. jobs' \ pending' \subseteq DOMAIN report'
    BY <1>1, <1>2, <1>7, <2>1 DEF DailyInv, PlanInv
  <2>6. PlanInv'
    BY <1>1, <1>7, <2>1, <2>5 DEF DailyInv, PlanInv, RangeStart
  <2>7. ScanInv'
    BY <1>1, <1>7, <2>1, <2>2 DEF DailyInv, ScanInv, Listed, Through
  <2> QED BY <1>5, <2>4, <2>6, <2>7 DEF DailyInv
<1>8. \/ Quit
      \/ /\ pending # {Day} /\ pc' = "records" /\ pending' = pending \ {Day} /\ UNCHANGED <<plan, scan>>
      \/ pc' = "latest" /\ pending' = {} /\ pending = {Day} /\ opt.cmd = "catchup" /\ UNCHANGED <<plan, scan>>
  BY DEF PublishReport
<1> QED BY <1>3, <1>6, <1>7, <1>8

\* The merged report of the run is published.
LEMMA LatestKeeps ==
    ASSUME DailyInv, PublishLatest
    PROVE  DailyInv'
<1>1. TypeOK /\ UNCHANGED <<log, folder, today, raw, report, checkpoint>> /\ latest' = dates
  BY DEF DailyInv, telegram, PublishLatest
<1>2. UNCHANGED <<opt, jobs, dates, trusted, pending, spent>> /\ pc = "latest" /\ pc' = "checkpoint"
  BY DEF plan, PublishLatest
<1>3. UNCHANGED <<listing, seen, todo, walk, heads, found, failed>>
  BY DEF scan, PublishLatest
<1>4. TypeOK'
  BY <1>1, <1>2, <1>3 DEF TypeOK
<1>5. opt.cmd = "catchup" /\ \E D \in dates : D >= checkpoint.through
  BY <1>2 DEF DailyInv, PlanInv
<1>6. LogInOrder' /\ CheckpointInv'
  BY <1>1, <1>5 DEF DailyInv, LogInOrder, CheckpointInv
<1>7. PlanInv'
  BY <1>1, <1>2 DEF DailyInv, PlanInv, RangeStart
<1>8. ScanInv'
  BY <1>1, <1>2, <1>3 DEF DailyInv, ScanInv, Listed, Through
<1> QED BY <1>4, <1>6, <1>7, <1>8 DEF DailyInv

\* The checkpoint of the run is saved, and the run ends.
LEMMA SaveKeeps ==
    ASSUME DailyInv, SaveCheckpoint
    PROVE  DailyInv'
<1>1. /\ TypeOK /\ UNCHANGED <<telegram, raw, report, latest, spent>> /\ pc = "checkpoint"
      /\ checkpoint' = [through |-> Through, scope |-> opt.limit, heads |-> heads] /\ Quit
  BY DEF DailyInv, SaveCheckpoint
<1>2. /\ opt.cmd = "catchup" /\ pending = {} /\ jobs # {} /\ latest = dates /\ jobs \subseteq dates
      /\ jobs \subseteq DOMAIN report /\ \A D \in jobs : D < today
  BY <1>1 DEF DailyInv, PlanInv
<1>3. Through \in jobs /\ Through \in Nat
  BY <1>1, <1>2, RangeIs
<1>4. Through < today /\ Through \in DOMAIN report /\ Through \in latest
  BY <1>2, <1>3
<1>5. \A d \in DOMAIN heads : HeadSound(log, heads[d], Through)
  BY <1>1 DEF DailyInv, ScanInv
<1>6. /\ checkpoint'.through = Through /\ checkpoint'.heads = heads /\ checkpoint'.scope = opt.limit
      /\ log' = log /\ today' = today /\ report' = report /\ latest' = latest
  BY <1>1 DEF telegram
<1>7. \E D \in latest' : D >= checkpoint'.through
  <2>1. Through >= Through
    BY <1>3
  <2> QED BY <1>4, <1>6, <2>1
<1>8. CheckpointInv'
  BY <1>4, <1>5, <1>6, <1>7 DEF CheckpointInv
<1>9. Through \in 0..MaxDay /\ opt.limit \in 0..NumDialogs
  <2>1. Through \in Days /\ opt \in OptionSet
    BY <1>1, <1>3 DEF TypeOK
  <2> QED BY <2>1, Constants DEF Days, OptionSet
<1>10. /\ DOMAIN raw' \subseteq Days /\ DOMAIN report' \subseteq DOMAIN raw' /\ latest' \subseteq Days
       /\ \A D \in DOMAIN raw' : raw'[D] \subseteq DOMAIN log
       /\ \A D \in DOMAIN report' : report'[D] \subseteq DOMAIN log
       /\ spent' \in 0..MaxTroubles
       /\ DOMAIN checkpoint'.heads \subseteq Dialogs
       /\ \A d \in DOMAIN checkpoint'.heads : checkpoint'.heads[d] \in Heads
  BY <1>1, <1>6 DEF TypeOK
<1> QED BY <1>1, <1>6, <1>8, <1>9, <1>10, QuitKeeps

\* Every step keeps the invariant.
LEMMA DailyStep == DailyInv /\ [Next]_vars => DailyInv'
<1> SUFFICES ASSUME DailyInv, [Next]_vars PROVE DailyInv'
  OBVIOUS
<1>1. CASE Telegram
  BY <1>1, TelegramGrows, GrowthTypes, GrowthKeeps DEF DailyInv
<1>2. CASE \E o \in Options : Begin(o)
  BY <1>2, BeginKeeps
<1>3. CASE ListDialogs \/ NextFolder \/ EndListing
  BY <1>3, ListingKeeps
<1>4. CASE SkipDialog \/ FailDialog
  BY <1>4, SkipKeeps
<1>5. CASE OpenDialog
  BY <1>5, OpenKeeps
<1>6. CASE ReadHistory
  BY <1>6, ReadKeeps
<1>7. CASE Abandon \/ Interrupt
  BY <1>7, EndsKeep
<1>8. CASE EndScan
  BY <1>8, EndScanKeeps
<1>9. CASE PublishRecords
  BY <1>9, RecordsKeep
<1>10. CASE PublishReport
  BY <1>10, ReportKeeps
<1>11. CASE PublishLatest
  BY <1>11, LatestKeeps
<1>12. CASE SaveCheckpoint
  BY <1>12, SaveKeeps
<1>13. CASE UNCHANGED vars
  <2>1. UNCHANGED <<log, folder, today, raw, report, latest, checkpoint, spent>>
    BY <1>13 DEF vars, telegram, files
  <2>2. UNCHANGED <<pc, opt, jobs, dates, trusted, pending>>
    BY <1>13 DEF vars, memory, plan
  <2>3. UNCHANGED <<listing, seen, todo, walk, heads, found, failed>>
    BY <1>13 DEF vars, memory, scan
  <2>4. TypeOK'
    BY <2>1, <2>2, <2>3 DEF DailyInv, TypeOK
  <2>5. LogInOrder' /\ CheckpointInv'
    BY <2>1 DEF DailyInv, LogInOrder, CheckpointInv
  <2>6. PlanInv'
    BY <2>1, <2>2 DEF DailyInv, PlanInv, RangeStart, Day
  <2>7. ScanInv'
    BY <2>1, <2>2, <2>3 DEF DailyInv, ScanInv, Listed, Through
  <2> QED BY <2>4, <2>5, <2>6, <2>7 DEF DailyInv
<1> QED BY <1>1, <1>2, <1>3, <1>4, <1>5, <1>6, <1>7, <1>8, <1>9, <1>10, <1>11, <1>12, <1>13
        DEF Next, Step

\* Every behaviour keeps it.
LEMMA DailyInvariance == Spec => []DailyInv
BY DailyInitially, DailyStep, PTL DEF Spec

\* Days are published in the order of the plan, so that an interrupted run leaves
\* no day without a report behind one that has it (main.go:1551 and 1617).
THEOREM DaysInOrder == Spec => ReportsInOrder
<1> DEFINE Ordered ==
        \A D \in DOMAIN report' \ DOMAIN report : \A E \in jobs : E < D => E \in DOMAIN report
<1>1. DailyInv /\ [Next]_vars => [Ordered]_vars
  <2> SUFFICES ASSUME DailyInv, Next PROVE Ordered
    OBVIOUS
  <2>1. CASE PublishReport
    <3>1. DOMAIN report' \ DOMAIN report \subseteq {Day}
      BY <2>1 DEF PublishReport, Put
    <3>2. /\ TypeOK /\ pending # {} /\ jobs \ pending \subseteq DOMAIN report
      BY <2>1 DEF PublishReport, DailyInv, PlanInv
    <3>3. Day \in Nat /\ \A E \in pending : E \in Nat /\ Day <= E
      BY <3>2, DayIs, Constants DEF TypeOK
    <3>4. \A E \in jobs : E < Day => E \notin pending
      BY <3>3
    <3> QED BY <3>1, <3>2, <3>4
  <2>2. CASE UNCHANGED report
    BY <2>2
  <2>3. PublishReport \/ UNCHANGED report
    <3>1. CASE Telegram
      BY <3>1, TelegramGrows DEF DailyInv, files
    <3>2. CASE \E o \in Options : Begin(o)
      BY <3>2 DEF Begin, Catchup, RebuildLatest, Daily, Scan, files
    <3>3. CASE Step
      BY <3>3 DEF Step, ListDialogs, NextFolder, EndListing, SkipDialog, OpenDialog, ReadHistory,
                  Abandon, EndScan, PublishRecords, PublishLatest, SaveCheckpoint, files
    <3>4. CASE FailDialog \/ Interrupt
      BY <3>4 DEF FailDialog, Interrupt, files
    <3> QED BY <3>1, <3>2, <3>3, <3>4 DEF Next
  <2> QED BY <2>1, <2>2, <2>3
<1> QED BY <1>1, DailyInvariance, PTL DEF Spec, ReportsInOrder

\* What the checkpoint verifies was sent by the end of its last day, and its
\* reports are there: no message of a later day can hide behind it
\* (daily_checkpoint.go).
THEOREM CheckpointIsHonest == Spec => []CheckpointHonest
<1>1. DailyInv => CheckpointHonest
  <2> SUFFICES ASSUME DailyInv, checkpoint # NoCheckpoint PROVE CheckpointHonest
    BY DEF CheckpointHonest
  <2>1. TypeOK /\ checkpoint.through \in Nat
    BY Constants DEF DailyInv, TypeOK
  <2>2. /\ checkpoint.through \in DOMAIN report /\ \E D \in latest : D >= checkpoint.through
        /\ \A d \in DOMAIN checkpoint.heads : HeadSound(log, checkpoint.heads[d], checkpoint.through)
    BY DEF DailyInv, CheckpointInv
  <2>3. HeadsValid(checkpoint.heads)
    <3> SUFFICES ASSUME NEW d \in DOMAIN checkpoint.heads
                 PROVE  /\ checkpoint.heads[d].verified <= checkpoint.heads[d].top
                        /\ checkpoint.heads[d].full => checkpoint.heads[d].verified = checkpoint.heads[d].top
      BY DEF HeadsValid
    <3>1. HeadSound(log, checkpoint.heads[d], checkpoint.through)
      BY <2>2
    <3>2. checkpoint.heads[d].full \in BOOLEAN
      BY <3>1 DEF HeadSound, Heads
    <3> QED BY <3>1, <3>2 DEF HeadSound
  <2>4. ASSUME NEW d \in DOMAIN checkpoint.heads, NEW m \in Live(d), log[m].day > checkpoint.through
        PROVE  /\ m > checkpoint.heads[d].verified
               /\ checkpoint.heads[d].full => m > checkpoint.heads[d].top
    <3> DEFINE v == checkpoint.heads[d].verified
    <3>1. HeadSound(log, checkpoint.heads[d], checkpoint.through)
      BY <2>2
    <3>2. v \in Nat /\ checkpoint.heads[d].top <= Len(log) /\ v <= checkpoint.heads[d].top
          /\ checkpoint.heads[d].top \in Nat
      BY <3>1, HeadType
    <3>3. checkpoint.heads[d].full => v = checkpoint.heads[d].top
      BY <3>1, <2>3 DEF HeadsValid
    <3>4. d \in Dialogs /\ m \in 1..Len(log) /\ DOMAIN log = 1..Len(log) /\ Len(log) \in Nat
      BY <2>1, LogType DEF TypeOK, Live
    <3>5. m > v
      <4>1. CASE v = 0
        BY <3>4, <4>1
      <4>2. CASE v # 0
        <5>1. v \in 1..Len(log) /\ log[v].day <= checkpoint.through
          BY <3>1, <3>2, <3>4, <4>2 DEF HeadSound
        <5>2. log[v].day \in Nat /\ log[m].day \in Nat
          BY <2>1, <3>4, <5>1, LogType
        <5>3. m <= v => log[m].day <= log[v].day
          BY <3>4, <5>1 DEF DailyInv, LogInOrder
        <5>4. ~(m <= v)
          BY <2>1, <2>4, <5>1, <5>2, <5>3
        <5> QED BY <3>2, <3>4, <5>4
      <4> QED BY <4>1, <4>2
    <3> QED BY <3>3, <3>5
  <2> QED BY <2>2, <2>3, <2>4 DEF CheckpointHonest
<1> QED BY <1>1, DailyInvariance, PTL

(***************************************************************************)
(* Reports are whole                                                       *)
(***************************************************************************)

\* Messages, at first none, are in the reports, at first none.
LEMMA WholeInitially == Init => WholeInv
<1> SUFFICES ASSUME Init PROVE WholeInv
  OBVIOUS
<1>1. pc = "idle" /\ DOMAIN report = {}
  BY DEF Init
<1> QED BY <1>1 DEF WholeInv, DaysOver, ListingInv, FoundInv, ReportsComplete

\* Telegram adds only messages of a day that no plan and no report has.
LEMMA GrowthWhole ==
    ASSUME DailyInv, WholeInv, LogGrows, UNCHANGED <<files, memory>>, pc # "listing"
    PROVE  WholeInv'
<1>1. UNCHANGED <<raw, report, latest, checkpoint>>
  BY DEF files
<1>2. UNCHANGED <<pc, opt, jobs, dates, trusted, pending>>
  BY DEF memory, plan
<1>3. UNCHANGED <<listing, seen, todo, walk, heads, found, failed>>
  BY DEF memory, scan
<1>4. /\ TypeOK /\ today \in Nat /\ today' \in Nat /\ today <= today'
  BY Constants DEF DailyInv, TypeOK, LogGrows
<1>5. /\ Len(log) \in Nat /\ Len(log') \in Nat
      /\ DOMAIN log = 1..Len(log) /\ DOMAIN log' = 1..Len(log')
      /\ \A m \in 1..Len(log') : m \in 1..Len(log) \/ log'[m].day = today
      /\ \A m \in 1..Len(log') : m \in 1..Len(log) \/ m \notin DOMAIN log
  BY <1>4, LogType DEF LogGrows
<1>6. \A m \in 1..Len(log) : /\ log'[m].dialog = log[m].dialog /\ log'[m].day = log[m].day
                             /\ log'[m].live = TRUE => log[m].live = TRUE
  BY DEF LogGrows
<1>7. \A m \in 1..Len(log') : log'[m].live \in BOOLEAN
  <2>1. log' \in Seq(Entries)
    BY DEF LogGrows
  <2>2. \A m \in 1..Len(log') : log'[m] \in Entries
    BY <2>1
  <2> QED BY <2>2 DEF Entries
<1>8. \A D \in DOMAIN report : D \in Nat /\ D < today
  BY <1>4, Constants DEF WholeInv, DaysOver, TypeOK
<1>9. pc # "idle" => \A D \in jobs : D \in Nat /\ D < today
  BY <1>4, Constants DEF WholeInv, DaysOver, TypeOK
<1>10. DaysOver'
  <2>1. \A D \in DOMAIN report : D < today'
    BY <1>4, <1>8
  <2>2. pc # "idle" => \A D \in jobs : D < today'
    BY <1>4, <1>9
  <2> QED BY <1>1, <1>2, <2>1, <2>2 DEF DaysOver
<1>11. ListingInv'
  BY <1>2 DEF ListingInv
<1>12. ASSUME pc # "idle", NEW d \in Dialogs PROVE Wanted(d)' \subseteq Wanted(d)
  <2> SUFFICES ASSUME NEW m \in Wanted(d)' PROVE m \in Wanted(d)
    OBVIOUS
  <2>1. m \in 1..Len(log') /\ log'[m].dialog = d /\ log'[m].live /\ log'[m].day \in jobs
    BY <1>2, <1>5 DEF Wanted, Live
  <2>2. log'[m].day # today
    BY <1>9, <1>12, <2>1
  <2>3. m \in 1..Len(log)
    BY <1>5, <2>1, <2>2
  <2>4. log[m].live = TRUE
    BY <1>6, <1>7, <2>1, <2>3
  <2> QED BY <1>5, <1>6, <2>1, <2>3, <2>4 DEF Wanted, Live
<1>13. FoundInv'
  <2>1. Dialog' = Dialog
    BY <1>3 DEF Dialog
  <2>2. pc = "history" => Dialog \in Dialogs
    BY <1>4, DialogIs DEF DailyInv, ScanInv
  <2> QED BY <1>2, <1>3, <1>12, <2>1, <2>2 DEF WholeInv, FoundInv
<1>14. ReportsComplete'
  <2> SUFFICES ASSUME NEW D \in DOMAIN report, NEW m \in 1..Len(log'), log'[m].live
               PROVE  m \in report[D] <=> log'[m].day = D
    BY <1>1, <1>5 DEF ReportsComplete
  <2>1. CASE m \in 1..Len(log)
    <3>1. log[m].live = TRUE
      BY <1>6, <1>7, <2>1
    <3> QED BY <1>5, <1>6, <1>8, <2>1, <3>1 DEF WholeInv, ReportsComplete
  <2>2. CASE m \notin DOMAIN log
    <3>1. m \notin report[D]
      BY <1>4, <2>2 DEF TypeOK
    <3>2. log'[m].day = today /\ D < today /\ D \in Nat
      BY <1>5, <1>8, <2>2
    <3> QED BY <1>4, <3>1, <3>2
  <2> QED BY <1>5, <2>1, <2>2
<1> QED BY <1>10, <1>11, <1>13, <1>14 DEF WholeInv

\* What a step of a run leaves as it is.
LEMMA ReportsStand ==
    ASSUME WholeInv, UNCHANGED <<log, today, report>>
    PROVE  ReportsComplete' /\ \A D \in DOMAIN report' : D < today'
BY DEF WholeInv, ReportsComplete, DaysOver

\* A run begins, for days that are over.
LEMMA BeginWhole ==
    ASSUME DailyInv, WholeInv, WholeDaysOnly, NEW o \in Options, Begin(o)
    PROVE  WholeInv'
<1>1. /\ o \in OptionSet /\ TypeOK /\ today \in Nat
      /\ pc = "idle" /\ seen = NoneSeen /\ listing = NoListing
  BY DailyOptions, Constants
     DEF DailyInv, TypeOK, ScanInv, Begin, Catchup, Daily, RebuildLatest, Scan
<1>2. /\ UNCHANGED <<log, folder, today, report>>
  BY DEF Begin, Catchup, Daily, RebuildLatest, Scan, telegram, files
<1>3. ASSUME NEW js, NEW ds, NEW t, Scan(o, js, ds, t), \A D \in js : D < today
      PROVE  WholeInv'
  <2>1. pc' = "listing" /\ jobs' = js /\ UNCHANGED <<seen, listing>>
    BY <1>3 DEF Scan, scan
  <2>2. \A d \in Dialogs : seen'[d] = 0 /\ ~(folder'[d] < listing'.folder) /\ listing'.offset = 0
    <3>1. \A d \in Dialogs : folder[d] \in {0, 1}
      BY <1>1 DEF TypeOK
    <3> QED BY <1>1, <1>2, <2>1, <3>1, ZeroTypes
  <2>3. ListingInv'
    BY <2>2 DEF ListingInv
  <2>4. FoundInv'
    BY <2>1 DEF FoundInv
  <2>5. DaysOver'
    BY <1>2, <1>3, <2>1, ReportsStand DEF DaysOver
  <2> QED BY <1>2, <2>3, <2>4, <2>5, ReportsStand DEF WholeInv
<1>4. CASE Catchup(o)
  <2>1. \A D \in Missing(o) : D < today
    BY <1>1, DatesAre
  <2> QED BY <1>3, <1>4, <2>1 DEF Catchup
<1>5. CASE RebuildLatest(o)
  <2>1. pc' = "idle"
    BY <1>1, <1>5 DEF RebuildLatest, memory
  <2>2. DaysOver'
    BY <1>2, <2>1, ReportsStand DEF DaysOver
  <2> QED BY <1>2, <2>1, <2>2, ReportsStand DEF WholeInv, ListingInv, FoundInv
<1>6. CASE Daily(o)
  <2>1. o.back # 0 /\ Scan(o, {today - o.back}, {}, FALSE)
    BY <1>6 DEF WholeDaysOnly, Daily
  <2>2. o.back \in Nat
    BY <1>1, Constants DEF OptionSet
  <2>3. today - o.back < today
    BY <1>1, <2>1, <2>2
  <2> DEFINE js == {today - o.back}
  <2>4. \A D \in js : D < today
    BY <2>3
  <2>5. Scan(o, js, {}, FALSE)
    BY <2>1
  <2> HIDE DEF js
  <2> QED BY <1>3, <2>4, <2>5
<1> QED BY <1>4, <1>5, <1>6 DEF Begin

\* The list of dialogs is complete when both folders have ended.
LEMMA ListingWhole ==
    ASSUME DailyInv, WholeInv, ListDialogs \/ NextFolder \/ EndListing
    PROVE  WholeInv'
<1>1. TypeOK /\ UNCHANGED <<log, folder, today, report>> /\ UNCHANGED jobs /\ pc = "listing"
  BY DEF DailyInv, telegram, files, plan, ListDialogs, NextFolder, EndListing
<1>2. DaysOver' /\ ReportsComplete'
  BY <1>1, ReportsStand DEF WholeInv, DaysOver
<1>3. /\ \A d \in Dialogs : Top(d) \in Nat /\ folder[d] \in {0, 1} /\ Top(d)' = Top(d)
      /\ listing.folder \in {0, 1} /\ listing.offset \in Nat
  <2>1. \A d \in Dialogs : Top(d) \in Nat /\ folder[d] \in {0, 1}
    BY <1>1, TopIs DEF TypeOK
  <2>2. \A d : Top(d)' = Top(d)
    BY <1>1 DEF Top, Live
  <2>3. listing.folder \in {0, 1} /\ listing.offset \in 0..MaxMessages
    BY <1>1 DEF TypeOK, Positions
  <2> QED BY <2>1, <2>2, <2>3, Constants
<1>4. \A d \in Dialogs : seen[d] \in {0, Top(d)}
  BY <1>1 DEF WholeInv, ListingInv
<1>5. ASSUME NEW d \in Dialogs, Top(d) # 0,
             folder[d] < listing.folder \/ (folder[d] = listing.folder /\ d \notin Unlisted)
      PROVE  seen[d] = Top(d)
  <2>1. CASE folder[d] < listing.folder
    BY <1>1, <1>5, <2>1 DEF WholeInv, ListingInv
  <2>2. CASE folder[d] = listing.folder /\ d \notin Unlisted
    <3>1. listing.offset # 0 /\ ~(Top(d) < listing.offset)
      BY <1>5, <2>2 DEF Unlisted
    <3>2. listing.offset <= Top(d)
      BY <1>3, <3>1
    <3> QED BY <1>1, <1>5, <2>2, <3>1, <3>2 DEF WholeInv, ListingInv
  <2> QED BY <1>5, <2>1, <2>2
<1>6. CASE ListDialogs
  <2>1. PICK P \in Listings :
            /\ seen' = [d \in Dialogs |-> IF d \in P THEN Top(d) ELSE seen[d]]
            /\ listing' = [listing EXCEPT !.offset = Oldest({Top(d) : d \in P})]
    BY <1>6 DEF ListDialogs
  <2> DEFINE o == Oldest({Top(d) : d \in P})
  <2>2. P # {} /\ P \subseteq Dialogs /\ \A d \in P, e \in Unlisted \ P : Top(d) > Top(e)
    BY <2>1 DEF Listings, Unlisted
  <2>3. PICK p \in P : o = Top(p)
    <3>1. {Top(d) : d \in P} \subseteq Nat /\ {Top(d) : d \in P} # {}
      BY <1>3, <2>2
    <3> QED BY <3>1, OldestIs
  <2>4. o \in 0..MaxMessages
    <3>1. Top(p) \in 0..Len(log) /\ Len(log) \in Nat /\ Len(log) <= MaxMessages
      BY <1>1, <2>2, <2>3, TopIs, LogType DEF TypeOK
    <3> HIDE DEF o
    <3> QED BY <2>3, <3>1, Constants
  <2>5. listing'.folder = listing.folder /\ listing'.offset = o
    BY <1>1, <2>1, <2>4, ListingRecord
  <2> HIDE DEF o
  <2>6. \A d \in Dialogs : seen'[d] \in {0, Top(d)} /\ (seen[d] = Top(d) => seen'[d] = Top(d))
    BY <1>4, <2>1
  <2>7. ASSUME NEW d \in Dialogs, Top(d) # 0,
               \/ folder[d] < listing.folder
               \/ folder[d] = listing.folder /\ o <= Top(d)
        PROVE  seen'[d] = Top(d)
    <3>1. CASE d \in P
      BY <2>1, <3>1
    <3>2. CASE d \in Unlisted \ P
      <4>1. folder[d] = listing.folder /\ Top(p) > Top(d) /\ o <= Top(d)
        BY <1>3, <2>2, <2>3, <2>7, <3>2 DEF Unlisted
      <4> QED BY <1>3, <2>2, <2>3, <4>1
    <3>3. CASE d \notin Unlisted
      BY <1>5, <2>6, <2>7, <3>3
    <3> QED BY <3>1, <3>2, <3>3
  <2>8. ListingInv'
    BY <1>1, <1>3, <2>5, <2>6, <2>7 DEF ListingInv
  <2>9. FoundInv'
    BY <1>1, <1>6 DEF FoundInv, ListDialogs
  <2> QED BY <1>2, <2>8, <2>9 DEF WholeInv
<1>7. CASE NextFolder
  <2>1. /\ Unlisted = {} /\ listing.folder = 0 /\ listing' = [folder |-> 1, offset |-> 0]
        /\ UNCHANGED <<seen, pc>>
    BY <1>7 DEF NextFolder
  <2>2. \A d \in Dialogs : Top(d) # 0 /\ folder[d] < 1 => seen[d] = Top(d)
    BY <1>3, <1>5, <2>1
  <2>3. ListingInv'
    BY <1>1, <1>3, <1>4, <2>1, <2>2 DEF ListingInv
  <2>4. FoundInv'
    BY <1>1, <2>1 DEF FoundInv
  <2> QED BY <1>2, <2>3, <2>4 DEF WholeInv
<1>8. CASE EndListing
  <2>1. /\ Unlisted = {} /\ listing.folder = 1 /\ pc' = "dialogs" /\ todo' = Within(opt)
        /\ failed' = (Within(opt) # Listed) /\ seen' = seen
    BY <1>8 DEF EndListing
  <2>2. \A d \in Dialogs : Top(d) # 0 => seen[d] = Top(d)
    BY <1>3, <1>5, <2>1
  <2>3. \A d \in Dialogs : seen[d] = Top(d)
    BY <1>4, <2>2
  <2>4. \A d \in Dialogs : Wanted(d)' = Wanted(d) /\ Wanted(d) \subseteq Live(d)
    BY <1>1 DEF Wanted, Live
  <2>5. \A d \in Dialogs : \A m \in Wanted(d) : m <= seen[d]
    BY <1>1, <2>3, <2>4, TopIs
  <2>6. ASSUME failed' = FALSE, NEW d \in Dialogs \ todo' PROVE Wanted(d) = {}
    <3>1. d \notin Listed
      BY <2>1, <2>6
    <3>2. Top(d) = 0
      BY <2>3, <3>1 DEF Listed
    <3>3. Live(d) = {}
      <4>1. \A m \in Live(d) : m \in 1..Len(log) /\ m <= 0
        BY <1>1, <3>2, TopIs
      <4>2. Len(log) \in Nat
        BY <1>1, LogType
      <4> QED BY <4>1, <4>2
    <3> QED BY <2>4, <3>3
  <2>7. FoundInv'
    BY <2>1, <2>4, <2>5, <2>6 DEF FoundInv
  <2>8. ListingInv'
    BY <2>1 DEF ListingInv
  <2> QED BY <1>2, <2>7, <2>8 DEF WholeInv
<1> QED BY <1>6, <1>7, <1>8

\* A dialog is done: what it had for the plan is found, or the scan has failed.
LEMMA DialogWhole ==
    ASSUME DailyInv, WholeInv, pc \in {"dialogs", "history"}, todo # {},
           pc' = "dialogs", todo' = todo \ {Dialog},
           UNCHANGED <<log, today, report, jobs, seen>>,
           failed' = TRUE \/ (failed' = failed /\ found \subseteq found' /\ Wanted(Dialog) \subseteq found')
    PROVE  WholeInv'
<1>1. \A d \in Dialogs : Wanted(d)' = Wanted(d)
  BY DEF Wanted, Live
<1>2. failed' = FALSE => \A d \in Dialogs \ todo' : Wanted(d) \subseteq found'
  BY DEF WholeInv, FoundInv
<1>3. FoundInv'
  BY <1>1, <1>2 DEF WholeInv, FoundInv
<1>4. DaysOver' /\ ReportsComplete' /\ ListingInv'
  BY ReportsStand DEF WholeInv, DaysOver, ListingInv
<1> QED BY <1>3, <1>4 DEF WholeInv

\* A dialog is skipped only if it has nothing for the plan.
LEMMA SkippedIsEmpty ==
    ASSUME DailyInv, WholeInv, pc = "dialogs", todo # {}, Unchanged \/ BeforeRange
    PROVE  Wanted(Dialog) = {}
<1>1. /\ TypeOK /\ Dialog \in todo /\ Dialog \in Dialogs /\ jobs # {}
      /\ DOMAIN log = 1..Len(log) /\ Len(log) \in Nat
  BY DialogIs, LogType DEF DailyInv, PlanInv
<1>2. seen[Dialog] # 0 /\ seen[Dialog] \in Nat /\ seen[Dialog] <= Len(log)
  BY <1>1, Constants DEF DailyInv, ScanInv, Listed, TypeOK
<1>3. seen[Dialog] \in 1..Len(log) /\ log[seen[Dialog]].day \in Nat
  <2>1. seen[Dialog] \in 1..Len(log)
    BY <1>1, <1>2
  <2> QED BY <1>1, <2>1, LogType
<1>4. log[seen[Dialog]].day < RangeStart
  <2>1. CASE BeforeRange
    BY <2>1 DEF BeforeRange
  <2>2. CASE Unchanged
    <3>1. trusted = TRUE /\ Dialog \in DOMAIN checkpoint.heads /\ Known.full = TRUE /\ Known.top = seen[Dialog]
      <4>1. HeadSound(log, Known, checkpoint.through)
        BY <2>2 DEF Unchanged, Known, DailyInv, CheckpointInv
      <4> QED BY <1>1, <2>2, <4>1 DEF Unchanged, TypeOK, HeadSound, Heads
    <3>2. HeadSound(log, Known, checkpoint.through)
      BY <3>1 DEF Known, DailyInv, CheckpointInv
    <3>3. log[seen[Dialog]].day <= checkpoint.through
      BY <1>2, <3>1, <3>2 DEF HeadSound
    <3>4. checkpoint.through + 1 = RangeStart /\ checkpoint.through \in Nat
      BY <1>1, <3>1, Constants DEF DailyInv, PlanInv, TypeOK
    <3> QED BY <1>3, <3>3, <3>4
  <2> QED BY <2>1, <2>2
<1>5. SUFFICES ASSUME NEW m \in Wanted(Dialog) PROVE FALSE
  OBVIOUS
<1>6. m \in 1..Len(log) /\ m <= seen[Dialog] /\ log[m].day \in jobs
  BY <1>1 DEF Wanted, Live, WholeInv, FoundInv
<1>7. log[m].day <= log[seen[Dialog]].day
  BY <1>1, <1>3, <1>6 DEF DailyInv, LogInOrder
<1>8. RangeStart <= log[m].day /\ log[m].day \in Nat /\ RangeStart \in Nat
  BY <1>1, <1>6, RangeIs
<1> QED BY <1>3, <1>4, <1>7, <1>8

\* A page finds what lies at or above its oldest message, and a complete walk
\* all there is.
LEMMA PageFinds ==
    ASSUME DailyInv, WholeInv, pc = "history", NEW a \in Answers, NEW m \in Wanted(Dialog),
           Complete(a) \/ \E n \in a.msgs : n <= m
    PROVE  m \in found \cup InRange(a)
<1>1. /\ TypeOK /\ todo # {} /\ Dialog \in Dialogs /\ jobs # {}
      /\ DOMAIN log = 1..Len(log) /\ Len(log) \in Nat
  BY DialogIs, LogType DEF DailyInv, PlanInv, ScanInv
<1>2. m \in 1..Len(log) /\ m \in Nat /\ log[m].day \in jobs /\ m \in Live(Dialog)
  BY <1>1 DEF Wanted, Live
<1>3. RangeStart <= log[m].day /\ log[m].day \in Nat /\ RangeStart \in Nat
  BY <1>1, <1>2, RangeIs
<1>4. MinID \in Nat /\ m > MinID
  <2>1. /\ MinID \in Nat
        /\ MinID # 0 => MinID \in 1..Len(log) /\ log[MinID].day < RangeStart
    BY <1>1, MinIDIs
  <2>2. CASE MinID = 0
    BY <1>2, <2>2
  <2>3. CASE MinID # 0
    <3>1. MinID \in 1..Len(log) /\ log[MinID].day < RangeStart /\ log[MinID].day \in Nat
      BY <1>1, <2>1, <2>3, LogType
    <3>2. m <= MinID => log[m].day <= log[MinID].day
      BY <1>1, <1>2, <3>1 DEF DailyInv, LogInOrder
    <3>3. ~(m <= MinID)
      BY <1>3, <3>1, <3>2
    <3> QED BY <1>2, <2>1, <3>3
  <2> QED BY <2>1, <2>2, <2>3
<1>5. CASE m \in a.msgs
  BY <1>2, <1>4, <1>5 DEF InRange
<1>6. CASE walk.offset # 0 /\ walk.offset <= m
  BY <1>6 DEF WholeInv, FoundInv
<1>7. CASE m \notin a.msgs /\ ~(walk.offset # 0 /\ walk.offset <= m)
  <2>1. walk.offset \in Nat
    BY <1>1, Constants DEF TypeOK, Walks
  <2>2. walk.offset = 0 \/ m < walk.offset
    BY <1>2, <1>7, <2>1
  <2>3. PICK low \in {0, MinID} :
            LET left == {k \in Live(Dialog) : k > low /\ (walk.offset = 0 \/ k < walk.offset)}
            IN  /\ a.msgs \subseteq left
                /\ a.msgs = {} => left = {}
                /\ Cardinality(a.msgs) <= PageSize
                /\ \A k \in a.msgs, n \in left \ a.msgs : k > n
                /\ a.exact => a.msgs = left \/ Cardinality(a.msgs) = PageSize
    BY DEF Answers
  <2> DEFINE left == {k \in Live(Dialog) : k > low /\ (walk.offset = 0 \/ k < walk.offset)}
  <2>4. m > low
    <3>1. m > 0
      BY <1>2
    <3> QED BY <1>4, <2>3, <3>1
  <2>5. m \in left \ a.msgs
    BY <1>2, <1>7, <2>2, <2>4
  <2>6. /\ a.msgs # {}
        /\ \A k \in a.msgs : k > m
        /\ a.exact => Cardinality(a.msgs) = PageSize
    BY <2>3, <2>5
  <2> HIDE DEF left
  <2>7. \A k \in a.msgs : k \in 1..Len(log) /\ k \in Nat /\ log[k].day \in Nat
    <3>1. a.msgs \subseteq 1..Len(log)
      BY <1>1, AnswerIs
    <3> QED BY <1>1, <3>1, LogType
  <2>8. ~ \E n \in a.msgs : n <= m
    BY <1>2, <2>6, <2>7
  <2>9. ~ReachedStart(a)
    <3>1. \A k \in a.msgs : log[m].day <= log[k].day
      <4> SUFFICES ASSUME NEW k \in a.msgs PROVE log[m].day <= log[k].day
        OBVIOUS
      <4>1. m <= k
        BY <1>2, <2>6, <2>7
      <4> QED BY <1>1, <1>2, <2>7, <4>1 DEF DailyInv, LogInOrder
    <3>2. \A k \in a.msgs : ~(log[k].day < RangeStart)
      BY <1>3, <2>7, <3>1
    <3> QED BY <3>2 DEF ReachedStart
  <2>10. ~ReachedMinID(a)
    <3>1. \A k \in a.msgs : ~(k <= MinID)
      BY <1>2, <1>4, <2>6, <2>7
    <3> QED BY <3>1 DEF ReachedMinID
  <2>11. ~PageComplete(a)
    <3>1. ~(PageSize < PageSize)
      BY Constants
    <3> QED BY <2>6, <3>1 DEF PageComplete
  <2>12. ~Complete(a)
    BY <2>6, <2>9, <2>10, <2>11 DEF Complete
  <2> QED BY <2>8, <2>12
<1> QED BY <1>5, <1>6, <1>7

\* The scan of a dialog loses nothing.
LEMMA ScanWhole ==
    ASSUME DailyInv, WholeInv, SkipDialog \/ OpenDialog \/ FailDialog \/ ReadHistory
    PROVE  WholeInv'
<1>1. /\ UNCHANGED <<log, today, report, jobs, seen>> /\ todo # {} /\ TypeOK
      /\ pc \in {"dialogs", "history"}
  BY DEF SkipDialog, OpenDialog, FailDialog, ReadHistory, telegram, files, plan, DailyInv, ScanInv
<1>2. \A d \in Dialogs : Wanted(d)' = Wanted(d)
  BY <1>1 DEF Wanted, Live
<1>3. CASE SkipDialog
  <2>1. pc = "dialogs" /\ (Unchanged \/ BeforeRange) /\ NextDialog(ListedHead) /\ UNCHANGED <<found, failed>>
    BY <1>3 DEF SkipDialog
  <2>2. Wanted(Dialog) = {}
    BY <1>1, <2>1, SkippedIsEmpty
  <2>3. pc' = "dialogs" /\ todo' = todo \ {Dialog}
    BY <2>1 DEF NextDialog
  <2> QED BY <1>1, <2>1, <2>2, <2>3, DialogWhole
<1>4. CASE FailDialog
  <2>1. failed' = TRUE /\ pc' = "dialogs" /\ todo' = todo \ {Dialog}
    BY <1>4 DEF FailDialog, NextDialog
  <2> QED BY <1>1, <2>1, DialogWhole
<1>5. CASE OpenDialog
  <2>1. /\ pc = "dialogs" /\ pc' = "history" /\ walk' = [NoWalk EXCEPT !.scanned = MinID]
        /\ UNCHANGED <<todo, found, failed>>
    BY <1>5 DEF OpenDialog
  <2>2. walk'.offset = 0
    BY <2>1 DEF NoWalk
  <2>3. FoundInv'
    BY <1>1, <1>2, <2>1, <2>2 DEF WholeInv, FoundInv
  <2> QED BY <1>1, <2>1, <2>3, ReportsStand DEF WholeInv, DaysOver, ListingInv
<1>6. CASE ReadHistory
  <2>1. PICK a \in Answers :
            /\ found' = found \cup InRange(a)
            /\ IF Complete(a)
               THEN NextDialog(Boundary(Observe(a)))
               ELSE /\ walk' = [Observe(a) EXCEPT !.offset = Oldest(a.msgs)]
                    /\ UNCHANGED <<pc, heads, todo>>
    BY <1>6 DEF ReadHistory
  <2>2. pc = "history" /\ failed' = failed
    BY <1>6 DEF ReadHistory
  <2>3. CASE Complete(a)
    <3>1. Wanted(Dialog) \subseteq found'
      BY <2>1, <2>2, <2>3, PageFinds
    <3>2. pc' = "dialogs" /\ todo' = todo \ {Dialog}
      BY <2>1, <2>3 DEF NextDialog
    <3> QED BY <1>1, <2>1, <2>2, <3>1, <3>2, DialogWhole
  <2>4. CASE ~Complete(a)
    <3>1. walk' = [Observe(a) EXCEPT !.offset = Oldest(a.msgs)] /\ UNCHANGED <<pc, todo>>
      BY <2>1, <2>4
    <3>2. a.msgs # {} /\ a.msgs \subseteq 1..Len(log)
      BY <1>1, <2>4, AnswerIs DEF Complete
    <3>3. Oldest(a.msgs) \in a.msgs
      <4>1. a.msgs \subseteq Nat
        BY <1>1, <3>2, LogType
      <4> QED BY <3>2, <4>1, OldestIs
    <3>4. walk'.offset = Oldest(a.msgs)
      <4>1. GoodWalk(Observe(a))
        BY <2>2, ObserveIs
      <4> HIDE DEF Observe
      <4> QED BY <3>1, <4>1 DEF GoodWalk, Walks
    <3>5. \A m \in Wanted(Dialog) : walk'.offset <= m => m \in found'
      BY <2>1, <2>2, <3>3, <3>4, PageFinds
    <3>6. Dialog' = Dialog /\ Dialog \in Dialogs
      BY <1>1, <3>1, DialogIs DEF Dialog
    <3>7. FoundInv'
      BY <1>1, <1>2, <2>1, <2>2, <3>1, <3>5, <3>6 DEF WholeInv, FoundInv
    <3> QED BY <1>1, <2>2, <3>1, <3>7, ReportsStand DEF WholeInv, DaysOver, ListingInv
  <2> QED BY <2>3, <2>4
<1> QED BY <1>3, <1>4, <1>5, <1>6

\* A run ends.
LEMMA QuitWhole ==
    ASSUME WholeInv, UNCHANGED <<log, today, report>>, pc' = "idle"
    PROVE  WholeInv'
BY ReportsStand DEF WholeInv, DaysOver, ListingInv, FoundInv

\* A report is what was found of its day.
LEMMA ReportWhole ==
    ASSUME DailyInv, WholeInv, PublishReport
    PROVE  WholeInv'
<1>1. TypeOK /\ UNCHANGED <<log, today>> /\ pc = "report"
  BY DEF DailyInv, telegram, PublishReport
<1>2. /\ DOMAIN report' = DOMAIN report \cup {Day} /\ report'[Day] = DayRecords
      /\ \A D \in DOMAIN report \ {Day} : report'[D] = report[D]
  BY DEF PublishReport, Put
<1>3. Day \in jobs /\ Day < today
  BY <1>1, DayIs DEF DailyInv, PlanInv, TypeOK, WholeInv, DaysOver
<1>4. ASSUME NEW m \in DOMAIN log, log[m].live
      PROVE  m \in DayRecords <=> log[m].day = Day
  <2>1. log[m].day = Day => m \in Wanted(log[m].dialog) /\ log[m].dialog \in Dialogs
    BY <1>1, <1>3, <1>4, LogType DEF Wanted, Live
  <2>2. log[m].day = Day => m \in found
    BY <1>1, <2>1 DEF WholeInv, FoundInv
  <2> QED BY <2>2 DEF DayRecords
<1>5. ReportsComplete'
  BY <1>1, <1>2, <1>4 DEF WholeInv, ReportsComplete
<1>6. \A D \in DOMAIN report' : D < today'
  BY <1>1, <1>2, <1>3 DEF WholeInv, DaysOver
<1>7. CASE pc' = "idle"
  BY <1>5, <1>6, <1>7 DEF WholeInv, DaysOver, ListingInv, FoundInv
<1>8. CASE pc' \in {"records", "latest"} /\ UNCHANGED <<jobs, found>>
  <2>1. \A d \in Dialogs : Wanted(d)' = Wanted(d)
    BY <1>1, <1>8 DEF Wanted, Live
  <2>2. FoundInv'
    BY <1>1, <1>8, <2>1 DEF WholeInv, FoundInv
  <2> QED BY <1>1, <1>5, <1>6, <1>8, <2>2 DEF WholeInv, DaysOver, ListingInv
<1> QED BY <1>7, <1>8 DEF PublishReport, Quit, plan, scan

\* The other steps of a publication.
LEMMA PublicationWhole ==
    ASSUME DailyInv, WholeInv, EndScan \/ PublishRecords \/ PublishLatest
    PROVE  WholeInv'
<1>1. UNCHANGED <<log, today, report, jobs, found>> /\ pc' # "listing" /\ pc' \notin {"dialogs", "history"}
      /\ pc # "idle"
  BY DEF EndScan, PublishRecords, PublishLatest, telegram, files, plan, scan
<1>2. \A d \in Dialogs : Wanted(d)' = Wanted(d)
  BY <1>1 DEF Wanted, Live
<1>3. pc' \in {"records", "report"} => \A d \in Dialogs : Wanted(d) \subseteq found
  <2>1. CASE EndScan
    <3>1. failed = FALSE /\ todo = {} /\ pc = "dialogs"
      BY <2>1 DEF EndScan, DailyInv, TypeOK
    <3> QED BY <3>1 DEF WholeInv, FoundInv
  <2>2. CASE PublishRecords
    BY <2>2 DEF PublishRecords, WholeInv, FoundInv
  <2>3. CASE PublishLatest
    BY <2>3 DEF PublishLatest
  <2> QED BY <2>1, <2>2, <2>3
<1>4. FoundInv'
  BY <1>1, <1>2, <1>3 DEF FoundInv
<1>5. DaysOver' /\ ReportsComplete' /\ ListingInv'
  BY <1>1, ReportsStand DEF WholeInv, DaysOver, ListingInv
<1> QED BY <1>4, <1>5 DEF WholeInv

\* Every step keeps reports whole.
LEMMA WholeStep ==
    ASSUME CalmListing = TRUE, WholeDaysOnly
    PROVE  DailyInv /\ WholeInv /\ [Next]_vars => WholeInv'
<1> SUFFICES ASSUME DailyInv, WholeInv, [Next]_vars PROVE WholeInv'
  OBVIOUS
<1>1. CASE Telegram
  <2>1. LogGrows /\ UNCHANGED <<files, memory>> /\ pc # "listing"
    BY <1>1, TelegramGrows DEF Watched, DailyInv
  <2> QED BY <2>1, GrowthWhole
<1>2. CASE \E o \in Options : Begin(o)
  BY <1>2, BeginWhole
<1>3. CASE ListDialogs \/ NextFolder \/ EndListing
  BY <1>3, ListingWhole
<1>4. CASE SkipDialog \/ OpenDialog \/ FailDialog \/ ReadHistory
  BY <1>4, ScanWhole
<1>5. CASE EndScan \/ PublishRecords \/ PublishLatest
  BY <1>5, PublicationWhole
<1>6. CASE PublishReport
  BY <1>6, ReportWhole
<1>7. CASE Abandon \/ Interrupt \/ SaveCheckpoint
  <2>1. UNCHANGED <<log, today, report>> /\ pc' = "idle"
    BY <1>7 DEF Abandon, Interrupt, SaveCheckpoint, Quit, telegram, files
  <2> QED BY <2>1, QuitWhole
<1>8. CASE UNCHANGED vars
  <2>1. UNCHANGED <<log, folder, today, report>>
    BY <1>8 DEF vars, telegram, files
  <2>2. UNCHANGED <<pc, jobs>>
    BY <1>8 DEF vars, memory, plan
  <2>3. UNCHANGED <<listing, seen, todo, walk, found, failed>>
    BY <1>8 DEF vars, memory, scan
  <2>4. DaysOver' /\ ReportsComplete'
    BY <2>1, <2>2, ReportsStand DEF WholeInv, DaysOver
  <2>5. ListingInv'
    BY <2>1, <2>2, <2>3 DEF WholeInv, ListingInv, Top, Live
  <2>6. FoundInv'
    BY <2>1, <2>2, <2>3 DEF WholeInv, FoundInv, Wanted, Live, Dialog
  <2> QED BY <2>4, <2>5, <2>6 DEF WholeInv
<1> QED BY <1>1, <1>2, <1>3, <1>4, <1>5, <1>6, <1>7, <1>8 DEF Next, Step

\* With days published when they are over, and no message or archiving while
\* dialogs are listed, the report of a day lacks no message that Telegram still
\* has and holds none of another day: neither a skipped dialog nor a bounded walk
\* nor a page taken for the last one loses any (client.go planDailyDialogScan,
\* dailyCheckpointPageComplete).
THEOREM ReportsAreWhole ==
    ASSUME CalmListing = TRUE, WholeDaysOnly
    PROVE  Spec => []ReportsComplete
<1>1. Init => WholeInv
  BY WholeInitially
<1>2. DailyInv /\ WholeInv /\ [Next]_vars => WholeInv'
  BY WholeStep
<1>3. WholeInv => ReportsComplete
  BY DEF WholeInv
<1> QED BY <1>1, <1>2, <1>3, DailyInvariance, PTL DEF Spec
=============================================================================
