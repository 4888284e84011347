------------------------- MODULE MediaPipeline_proofs -------------------------
(***************************************************************************)
(* Proofs about MediaPipeline for every set of callers and tasks, every    *)
(* history and every capacity of the queue: the gate, the ends of the      *)
(* tasks, the claims of the transcripts and what the records say.          *)
(***************************************************************************)
EXTENDS MediaPipeline, FiniteSetTheorems, TLAPS

(***************************************************************************)
(* Sequences                                                               *)
(***************************************************************************)

Distinct(s) == \A i, j \in DOMAIN s : s[i] = s[j] => i = j

\* The queue without its first task.
LEMMA TailFacts ==
    ASSUME NEW S, NEW s \in Seq(S), s # <<>>
    PROVE  /\ Head(s) \in S /\ Tail(s) \in Seq(S)
           /\ Range(s) = {Head(s)} \cup Range(Tail(s))
           /\ Len(Tail(s)) = Len(s) - 1
           /\ Distinct(s) => Distinct(Tail(s)) /\ Head(s) \notin Range(Tail(s))
<1> USE DEF Range, Distinct
<1>1. Head(s) = s[1] /\ 1 \in DOMAIN s /\ Len(s) \in Nat \ {0} /\ Head(s) \in S
  OBVIOUS
<1>2. /\ Tail(s) \in Seq(S) /\ Len(Tail(s)) = Len(s) - 1 /\ DOMAIN Tail(s) = 1..Len(s) - 1
      /\ \A i \in 1..Len(s) - 1 : Tail(s)[i] = s[i + 1]
  BY <1>1
<1>3. \A i \in DOMAIN s : i = 1 \/ (i - 1 \in DOMAIN Tail(s) /\ s[i] = Tail(s)[i - 1])
  BY <1>1, <1>2
<1>4. \A i \in DOMAIN Tail(s) : i + 1 \in DOMAIN s /\ i + 1 # 1 /\ Tail(s)[i] = s[i + 1]
  BY <1>1, <1>2
<1>5. Range(s) = {Head(s)} \cup Range(Tail(s))
  <2>1. ASSUME NEW i \in DOMAIN s PROVE s[i] \in {Head(s)} \cup Range(Tail(s))
    BY <1>1, <1>3
  <2>2. ASSUME NEW i \in DOMAIN Tail(s) PROVE Tail(s)[i] \in Range(s)
    BY <1>4
  <2> QED BY <1>1, <2>1, <2>2
<1>6. ASSUME Distinct(s) PROVE Distinct(Tail(s)) /\ Head(s) \notin Range(Tail(s))
  <2>1. ASSUME NEW i \in DOMAIN Tail(s), NEW j \in DOMAIN Tail(s), Tail(s)[i] = Tail(s)[j]
        PROVE  i = j
    <3>1. i + 1 = j + 1 /\ i \in Nat /\ j \in Nat
      BY <1>2, <1>4, <1>6, <2>1
    <3> QED BY <3>1
  <2> QED BY <1>1, <1>4, <1>6, <2>1
<1> QED BY <1>1, <1>2, <1>5, <1>6

\* The queue with one more task.
LEMMA AppendFacts ==
    ASSUME NEW S, NEW s \in Seq(S), NEW e \in S
    PROVE  /\ Append(s, e) \in Seq(S) /\ Range(Append(s, e)) = Range(s) \cup {e}
           /\ Len(Append(s, e)) = Len(s) + 1
           /\ Distinct(s) /\ e \notin Range(s) => Distinct(Append(s, e))
<1> USE DEF Range, Distinct
<1>1. /\ Append(s, e) \in Seq(S) /\ Len(Append(s, e)) = Len(s) + 1 /\ Len(s) \in Nat
      /\ DOMAIN s = 1..Len(s) /\ DOMAIN Append(s, e) = 1..Len(s) + 1
      /\ \A i \in 1..Len(s) : Append(s, e)[i] = s[i]
      /\ Append(s, e)[Len(s) + 1] = e
  OBVIOUS
<1>2. \A i \in 1..Len(s) + 1 : i \in 1..Len(s) \/ i = Len(s) + 1
  BY <1>1
<1>3. Len(s) + 1 \in 1..Len(s) + 1 /\ \A i \in 1..Len(s) : i \in 1..Len(s) + 1
  BY <1>1
<1>4. Range(Append(s, e)) = Range(s) \cup {e}
  BY <1>1, <1>2, <1>3
<1>5. ASSUME Distinct(s), e \notin Range(s) PROVE Distinct(Append(s, e))
  BY <1>1, <1>2, <1>5
<1> QED BY <1>1, <1>4, <1>5

\* A sequence and its first n elements.
LEMMA SplitFacts ==
    ASSUME NEW S, NEW s \in Seq(S), NEW n \in 1..Len(s)
    PROVE  LET f == SubSeq(s, 1, n)
               r == SubSeq(s, n + 1, Len(s))
           IN  /\ f \in Seq(S) /\ r \in Seq(S) /\ Len(f) = n
               /\ \A i \in 1..n : f[i] = s[i]
               /\ Range(s) = Range(f) \cup Range(r)
               /\ Distinct(s) => Distinct(f) /\ Distinct(r) /\ Range(f) \cap Range(r) = {}
<1> DEFINE f == SubSeq(s, 1, n)
           r == SubSeq(s, n + 1, Len(s))
<1>1. /\ Len(s) \in Nat /\ DOMAIN s = 1..Len(s) /\ n \in Nat /\ n <= Len(s) /\ 1 <= n
      /\ \A i \in 1..Len(s) : s[i] \in S
  OBVIOUS
<1>2. /\ f = [i \in 1..n |-> s[i]] /\ f \in Seq(S) /\ Len(f) = n /\ DOMAIN f = 1..n
  <2>1. f = [i \in 1..(n - 1 + 1) |-> s[i + 1 - 1]]
    BY <1>1
  <2>2. n - 1 + 1 = n /\ \A i \in 1..n : i + 1 - 1 = i /\ i \in 1..Len(s)
    BY <1>1
  <2>3. f = [i \in 1..n |-> s[i]]
    BY <2>1, <2>2
  <2> QED BY <1>1, <2>2, <2>3
<1>3. /\ r \in Seq(S) /\ DOMAIN r = 1..Len(s) - n
      /\ \A i \in 1..Len(s) - n : r[i] = s[i + n]
  <2>1. r = [i \in 1..(Len(s) - (n + 1) + 1) |-> s[i + (n + 1) - 1]]
    BY <1>1
  <2>2. Len(s) - (n + 1) + 1 = Len(s) - n /\ Len(s) - n \in Nat
    BY <1>1
  <2>3. \A i \in 1..Len(s) - n : i + (n + 1) - 1 = i + n /\ i + n \in 1..Len(s)
    BY <1>1
  <2>4. r = [i \in 1..Len(s) - n |-> s[i + n]]
    BY <2>1, <2>2, <2>3
  <2> QED BY <1>1, <2>2, <2>3, <2>4
<1> HIDE DEF f, r
<1>4. \A i \in 1..Len(s) : i \in 1..n \/ (i - n \in 1..Len(s) - n /\ (i - n) + n = i)
  BY <1>1
<1>5. \A i \in 1..n : i \in 1..Len(s)
  BY <1>1
<1>6. \A i \in 1..Len(s) - n : i + n \in 1..Len(s) /\ i + n \notin 1..n /\ i \in Int
  BY <1>1
<1>7. Range(s) = Range(f) \cup Range(r)
  <2>1. Range(s) \subseteq Range(f) \cup Range(r)
    <3> SUFFICES ASSUME NEW i \in 1..Len(s) PROVE s[i] \in Range(f) \cup Range(r)
      BY <1>1 DEF Range
    <3>1. CASE i \in 1..n
      BY <1>2, <3>1 DEF Range
    <3>2. CASE i - n \in 1..Len(s) - n /\ (i - n) + n = i
      <4>1. r[i - n] = s[i] /\ i - n \in DOMAIN r
        BY <1>3, <3>2
      <4> QED BY <4>1 DEF Range
    <3> QED BY <1>4, <3>1, <3>2
  <2>2. Range(f) \subseteq Range(s) /\ Range(r) \subseteq Range(s)
    BY <1>1, <1>2, <1>3, <1>5, <1>6 DEF Range
  <2> QED BY <2>1, <2>2
<1>8. ASSUME Distinct(s) PROVE Distinct(f) /\ Distinct(r) /\ Range(f) \cap Range(r) = {}
  <2>1. Distinct(f)
    BY <1>1, <1>2, <1>5, <1>8 DEF Distinct
  <2>2. ASSUME NEW i \in 1..Len(s) - n, NEW j \in 1..Len(s) - n, s[i + n] = s[j + n]
        PROVE  i = j
    <3>1. i + n = j + n
      BY <1>1, <1>6, <1>8, <2>2 DEF Distinct
    <3> QED BY <1>1, <1>6, <3>1
  <2>3. Distinct(r)
    BY <1>3, <2>2 DEF Distinct
  <2>4. \A i \in 1..n, j \in 1..Len(s) - n : s[i] # s[j + n]
    BY <1>1, <1>5, <1>6, <1>8 DEF Distinct
  <2>5. ASSUME NEW i \in DOMAIN f, NEW j \in DOMAIN r, f[i] = r[j] PROVE FALSE
    BY <1>2, <1>3, <2>4, <2>5
  <2>6. Range(f) \cap Range(r) = {}
    BY <2>5 DEF Range
  <2> QED BY <2>1, <2>3, <2>6
<1> QED BY <1>2, <1>7, <1>8, <1>3 DEF f, r

\* The empty queue holds nothing.
LEMMA EmptyRange == Range(<<>>) = {} /\ Distinct(<<>>)
BY DEF Range, Distinct

\* A queue holds tasks only.
LEMMA RangeType == ASSUME NEW S, NEW s \in Seq(S) PROVE Range(s) \subseteq S
BY DEF Range

(***************************************************************************)
(* The coordinator                                                         *)
(***************************************************************************)

CoordinatorTypes ==
    /\ at \in [Callers -> Places] /\ state \in [Tasks -> States]
    /\ queue \in [Callers -> Seq(Tasks)] /\ wave \in [Callers -> Seq(Tasks)]
    /\ gate \in [readers : SUBSET Callers, writer : Callers \cup {None},
                 waiting : SUBSET Callers]
    /\ batch \in Callers \cup {None} /\ cancelled \subseteq Callers

Reading  == {"reserve", "transfer"}
InBatch  == {"loop", "waitGate", "reserve", "transfer", "after", "afterFailed"}
InWave   == {"waitGate", "reserve", "transfer", "after", "afterFailed"}
AtRest   == {"returned", "failed", "waitHistory", "history"}

\* The gate has one writer or some readers, and the batch one caller.
Exclusion ==
    /\ \A c \in Callers : c \in gate.readers <=> at[c] \in Reading
    /\ \A c \in Callers : gate.writer = c <=> at[c] = "history"
    /\ gate.writer # None => gate.readers = {}
    /\ \A c \in Callers : batch = c <=> at[c] \in InBatch

\* What a wave may be until its first After.
WaveFits(w) ==
    \/ \E t \in Tasks : w = <<t>>
    \/ \E t, u \in Tasks \ Large : w = <<t, u>>

Waves ==
    \A c \in Callers :
        /\ at[c] \in {"waitGate", "reserve", "transfer"} => WaveFits(wave[c])
        /\ at[c] \notin InWave => wave[c] = <<>>
        /\ at[c] \in AtRest => queue[c] = <<>>

\* A transfer under way belongs to a wave in transfer, and a task that has not
\* ended to the call it was handed to.
Owned ==
    /\ \A t \in Tasks : state[t] = "moving" =>
           \E c \in Callers : at[c] = "transfer" /\ t \in Range(wave[c])
    /\ \A t \in Tasks : Pending(t) =>
           \E c \in Callers : t \in Range(queue[c]) \cup Range(wave[c])

CoordinatorInv == CoordinatorTypes /\ Exclusion /\ Waves /\ Owned

(***************************************************************************)
(* The walk                                                                *)
(***************************************************************************)

Runs == {"read", "reading", "batch", "flush", "close", "abort", "aborting",
         "ok", "incomplete", "failed"}

PipelineTypes ==
    /\ mode \in Modes /\ run \in Runs
    /\ page \in 1..Len(Pages) + 1 /\ kept \subseteq 1..page - 1 /\ complete \in BOOLEAN
    /\ claimed \subseteq Keys /\ cache \subseteq Keys /\ temps \subseteq Attachments
    /\ jobs \in Seq(Attachments) /\ Len(jobs) <= QueueCapacity
    /\ worker \in Attachments \cup {None}
    /\ results \in [Keys -> Outcomes] /\ shown \in [Attachments -> Labels]

Queued  == Range(queue[Driver])
Waved   == Range(wave[Driver])
InJobs(t)  == t \in Range(jobs) \/ t = worker

\* How far the walk is, and what the coordinator does for it there.
Phases ==
    /\ run \in {"reading", "batch", "flush"} => page \in DOMAIN Pages
    /\ run = "reading" => at[Driver] \in AtRest
    /\ run \notin {"reading", "batch"} => Outside(Driver)
    /\ run = "batch" => at[Driver] \notin {"waitHistory", "history"}
    /\ run = "flush" => at[Driver] = "returned"
    /\ run \in {"flush", "abort", "aborting", "failed"} => mode = "stream"
    /\ Ending => Idle

\* The tasks of the walk are attachments of its page.
OfPage ==
    /\ Queued \cup Waved # {} =>
           run = "batch" /\ Queued \cup Waved \subseteq Attachment(page)
    /\ Queued \cap Waved = {}
    /\ Distinct(queue[Driver]) /\ Distinct(wave[Driver])
    /\ \A c \in Callers \ {Driver} :
           (Range(queue[c]) \cup Range(wave[c])) \cap Attachments = {}

\* The state of a task tells where it is.
Whereabouts ==
    /\ \A t \in Queued : state[t] = "queued"
    /\ \A t \in Waved : Pending(t)
    /\ \A t \in Attachments : InJobs(t) => state[t] = "settled"
    /\ Distinct(jobs) /\ worker \notin Range(jobs)

OnTheWay(t) == Pending(t) \/ InJobs(t)

\* One attachment is on the way for a key, and only while there is no result.
OneForKey ==
    \A t \in Attachments : OnTheWay(t) =>
        /\ results[Key[t]] = "none"
        /\ \A u \in Attachments : OnTheWay(u) /\ Key[u] = Key[t] => u = t

ClaimsKept == \A k \in Keys : k \in claimed <=> Held(k) \/ results[k] # "none"

TempsKept  == temps \subseteq Waved \cup Range(jobs) \cup {worker}

\* Nothing has happened to the pages not yet planned.
Planning == page + (IF run \in {"read", "reading"} THEN 0 ELSE 1)
Fresh ==
    \A i \in DOMAIN Pages : i >= Planning =>
        \A t \in Attachment(i) : state[t] = "new" /\ shown[t] = "none"

\* An interruption is the end of the walk.
InterruptionEnds ==
    (\E t \in Attachments : shown[t] = "interrupted")
    \/ (\E k \in Keys : results[k] = "interrupted") =>
        Driver \in cancelled \/ run \in {"abort", "aborting", "failed"}

Uninterrupted ==
    mode = "stream" => \A i \in kept : \A t \in Attachment(i) : shown[t] # "interrupted"

WorkInv ==
    /\ CoordinatorInv /\ PipelineTypes /\ Phases /\ OfPage /\ Whereabouts /\ OneForKey
    /\ ClaimsKept /\ TempsKept /\ Fresh /\ InterruptionEnds /\ Uninterrupted

\* An attachment of this page or an earlier one with the same media could not
\* be downloaded.
Witnessed(i, t) ==
    \E j \in 1..i : \E u \in Attachment(j) : Key[u] = Key[t] /\ shown[u] = "undownloaded"

\* A result for the key is there, or will be.
Coming(k) == results[k] # "none" \/ \E t \in Attachments : Key[t] = k /\ InJobs(t)

\* What an attachment without a transcript of a page that is kept waits for.
KeptExplained ==
    \A i \in kept : \A t \in Attachment(i) : shown[t] = "none" =>
        \/ Witnessed(i, t)
        \/ mode = "daily" /\ ~Ending /\ Coming(Key[t])

\* And of the page under way, unless the walk was interrupted in it.
PageExplained ==
    run \in {"batch", "flush"} /\ (Driver \notin cancelled \/ at[Driver] = "returned") =>
        \A t \in Attachment(page) : shown[t] = "none" =>
            Witnessed(page, t) \/ Coming(Key[t]) \/ \E u \in Attachments : Key[u] = Key[t] /\ Pending(u)



(***************************************************************************)
(* The actions of the coordinator                                          *)
(***************************************************************************)

\* The coordinator starts with an open gate.
LEMMA CoordinatorStart == CoordinatorInit => CoordinatorInv
<1> SUFFICES ASSUME CoordinatorInit PROVE CoordinatorInv
  OBVIOUS
<1>1. /\ \A c \in Callers : at[c] = "returned" /\ queue[c] = <<>> /\ wave[c] = <<>>
      /\ \A t \in Tasks : state[t] = "new"
      /\ gate = Free /\ batch = None /\ cancelled = {}
  BY DEF CoordinatorInit
<1>2. CoordinatorTypes
  <2>1. at \in [Callers -> Places] /\ state \in [Tasks -> States]
    BY DEF CoordinatorInit, Places, States
  <2>2. queue \in [Callers -> Seq(Tasks)] /\ wave \in [Callers -> Seq(Tasks)]
    BY DEF CoordinatorInit
  <2>3. gate \in [readers : SUBSET Callers, writer : Callers \cup {None},
                  waiting : SUBSET Callers]
    BY <1>1 DEF Free
  <2> QED BY <1>1, <2>1, <2>2, <2>3 DEF CoordinatorTypes
<1>3. Exclusion
  BY <1>1, CoordinatorConstants DEF Exclusion, Free, Reading, InBatch
<1>4. Waves /\ Owned
  BY <1>1 DEF Waves, InWave, Owned, Pending
<1> QED BY <1>2, <1>3, <1>4 DEF CoordinatorInv

\* A caller goes to another statement.
LEMMA Going ==
    ASSUME CoordinatorTypes, NEW c \in Callers, NEW place \in Places, Goes(c, place)
    PROVE  /\ at' \in [Callers -> Places] /\ at'[c] = place
           /\ \A d \in Callers \ {c} : at'[d] = at[d]
BY DEF CoordinatorTypes, Goes

\* Tasks change their state.
LEMMA Becoming ==
    ASSUME CoordinatorTypes, NEW ts, NEW s \in States, Become(ts, s)
    PROVE  /\ state' \in [Tasks -> States]
           /\ \A t \in Tasks : t \in ts => state'[t] = s
           /\ \A t \in Tasks \ ts : state'[t] = state[t]
BY DEF CoordinatorTypes, Become

\* The invariant is kept when the action is AskHistory.
LEMMA AskHistoryKeeps ==
    ASSUME CoordinatorInv, NEW c \in Callers, AskHistory(c) PROVE CoordinatorInv'
<1>1. /\ at[c] \in {"returned", "failed"} /\ Goes(c, "waitHistory")
      /\ UNCHANGED <<queue, wave, state, batch, cancelled>>
  BY DEF AskHistory, Outside
<1>2. /\ at' \in [Callers -> Places] /\ at'[c] = "waitHistory"
      /\ \A d \in Callers \ {c} : at'[d] = at[d]
  BY <1>1, Going DEF CoordinatorInv, Places
<1>3. /\ gate'.readers = gate.readers /\ gate'.writer = gate.writer
      /\ gate' \in [readers : SUBSET Callers, writer : Callers \cup {None},
                    waiting : SUBSET Callers]
  BY DEF AskHistory, CoordinatorInv, CoordinatorTypes
<1>4. CoordinatorTypes'
  BY <1>1, <1>2, <1>3 DEF CoordinatorInv, CoordinatorTypes
<1>5. Exclusion'
  BY <1>1, <1>2, <1>3, <1>4, CoordinatorConstants DEF CoordinatorInv, Exclusion, Reading, InBatch
<1>6. Waves'
  BY <1>1, <1>2 DEF CoordinatorInv, Waves, InWave, AtRest
<1>7. Owned'
  BY <1>1, <1>2 DEF CoordinatorInv, Owned, Pending
<1> QED BY <1>4, <1>5, <1>6, <1>7 DEF CoordinatorInv

\* The invariant is kept when the action is EnterHistory.
LEMMA EnterHistoryKeeps ==
    ASSUME CoordinatorInv, NEW c \in Callers, EnterHistory(c) PROVE CoordinatorInv'
<1>1. /\ at[c] = "waitHistory" /\ gate.readers = {} /\ gate.writer = None
      /\ Goes(c, "history") /\ UNCHANGED <<queue, wave, state, batch, cancelled>>
  BY DEF EnterHistory
<1>2. /\ at' \in [Callers -> Places] /\ at'[c] = "history"
      /\ \A d \in Callers \ {c} : at'[d] = at[d]
  BY <1>1, Going DEF CoordinatorInv, Places
<1>3. /\ gate'.readers = {} /\ gate'.writer = c
      /\ gate' \in [readers : SUBSET Callers, writer : Callers \cup {None},
                    waiting : SUBSET Callers]
  BY <1>1 DEF EnterHistory, CoordinatorInv, CoordinatorTypes
<1>4. CoordinatorTypes'
  BY <1>1, <1>2, <1>3 DEF CoordinatorInv, CoordinatorTypes
<1>5. Exclusion'
  BY <1>1, <1>2, <1>3, <1>4, CoordinatorConstants DEF CoordinatorInv, Exclusion, Reading, InBatch
<1>6. Waves'
  BY <1>1, <1>2 DEF CoordinatorInv, Waves, InWave, AtRest
<1>7. Owned'
  BY <1>1, <1>2 DEF CoordinatorInv, Owned, Pending
<1> QED BY <1>4, <1>5, <1>6, <1>7 DEF CoordinatorInv

\* The invariant is kept when the action is LeaveHistory.
LEMMA LeaveHistoryKeeps ==
    ASSUME CoordinatorInv, NEW c \in Callers, LeaveHistory(c) PROVE CoordinatorInv'
<1>1. /\ at[c] = "history" /\ Goes(c, "returned")
      /\ UNCHANGED <<queue, wave, state, batch, cancelled>>
  BY DEF LeaveHistory
<1>2. /\ at' \in [Callers -> Places] /\ at'[c] = "returned"
      /\ \A d \in Callers \ {c} : at'[d] = at[d]
  BY <1>1, Going DEF CoordinatorInv, Places
<1>3. /\ gate'.readers = gate.readers /\ gate'.writer = None /\ gate.writer = c /\ c # None
      /\ gate' \in [readers : SUBSET Callers, writer : Callers \cup {None},
                    waiting : SUBSET Callers]
  BY <1>1, CoordinatorConstants DEF LeaveHistory, CoordinatorInv, CoordinatorTypes, Exclusion
<1>4. CoordinatorTypes'
  BY <1>1, <1>2, <1>3 DEF CoordinatorInv, CoordinatorTypes
<1>5. Exclusion'
  BY <1>1, <1>2, <1>3, <1>4, CoordinatorConstants DEF CoordinatorInv, Exclusion, Reading, InBatch
<1>6. Waves'
  BY <1>1, <1>2 DEF CoordinatorInv, Waves, InWave, AtRest
<1>7. Owned'
  BY <1>1, <1>2 DEF CoordinatorInv, Owned, Pending
<1> QED BY <1>4, <1>5, <1>6, <1>7 DEF CoordinatorInv

\* The invariant is kept when the action is Submit.
LEMMA SubmitKeeps ==
    ASSUME CoordinatorInv, NEW c \in Callers, NEW tasks \in Seq(Tasks), Submit(c, tasks)
    PROVE  CoordinatorInv'
<1> DEFINE place == IF tasks = <<>> THEN "returned" ELSE "waitBatch"
<1>1. /\ at[c] \in {"returned", "failed"} /\ Goes(c, place) /\ Become(Range(tasks), "queued")
      /\ queue' = [queue EXCEPT ![c] = tasks]
      /\ UNCHANGED <<wave, gate, batch, cancelled>>
  BY DEF Submit, Outside
<1>2. place \in {"returned", "waitBatch"} /\ (place = "returned" => tasks = <<>>)
  OBVIOUS
<1> HIDE DEF place
<1>3. /\ at' \in [Callers -> Places] /\ at'[c] = place
      /\ \A d \in Callers \ {c} : at'[d] = at[d]
  BY <1>1, <1>2, Going DEF CoordinatorInv, Places
<1>4. /\ state' \in [Tasks -> States]
      /\ \A t \in Range(tasks) : state'[t] = "queued"
      /\ \A t \in Tasks \ Range(tasks) : state'[t] = state[t]
  BY <1>1, Becoming, RangeType DEF CoordinatorInv, States
<1>5. /\ queue' \in [Callers -> Seq(Tasks)] /\ queue'[c] = tasks
      /\ \A d \in Callers \ {c} : queue'[d] = queue[d]
      /\ queue[c] = <<>>
  BY <1>1 DEF CoordinatorInv, CoordinatorTypes, Waves, AtRest
<1>6. CoordinatorTypes'
  BY <1>1, <1>3, <1>4, <1>5 DEF CoordinatorInv, CoordinatorTypes
<1>7. Exclusion'
  BY <1>1, <1>2, <1>3, <1>6, CoordinatorConstants DEF CoordinatorInv, Exclusion, Reading, InBatch
<1>8. Waves'
  BY <1>1, <1>2, <1>3, <1>5 DEF CoordinatorInv, Waves, InWave, AtRest
<1>9. Owned'
  <2>1. ASSUME NEW t \in Tasks, state'[t] = "moving"
        PROVE  \E d \in Callers : at'[d] = "transfer" /\ t \in Range(wave'[d])
    <3>1. state[t] = "moving"
      BY <1>4, <2>1
    <3> QED BY <1>1, <1>3, <3>1 DEF CoordinatorInv, Owned
  <2>2. ASSUME NEW t \in Tasks, Pending(t)'
        PROVE  \E d \in Callers : t \in Range(queue'[d]) \cup Range(wave'[d])
    <3>1. CASE t \in Range(tasks)
      BY <1>5, <3>1
    <3>2. CASE Pending(t)
      <4>1. PICK d \in Callers : t \in Range(queue[d]) \cup Range(wave[d])
        BY <3>2 DEF CoordinatorInv, Owned
      <4>2. CASE d = c
        BY <1>1, <1>5, <4>1, <4>2, EmptyRange
      <4>3. CASE d # c
        BY <1>1, <1>5, <4>1, <4>3
      <4> QED BY <4>2, <4>3
    <3> QED BY <1>4, <2>2, <3>1, <3>2 DEF Pending
  <2> QED BY <2>1, <2>2 DEF Owned
<1> QED BY <1>6, <1>7, <1>8, <1>9 DEF CoordinatorInv

\* The invariant is kept when the action is EnterBatch.
LEMMA EnterBatchKeeps ==
    ASSUME CoordinatorInv, NEW c \in Callers, EnterBatch(c) PROVE CoordinatorInv'
<1>1. /\ at[c] = "waitBatch" /\ batch = None /\ batch' = c /\ Goes(c, "loop")
      /\ UNCHANGED <<queue, wave, state, gate, cancelled>>
  BY DEF EnterBatch
<1>2. /\ at' \in [Callers -> Places] /\ at'[c] = "loop"
      /\ \A d \in Callers \ {c} : at'[d] = at[d]
  BY <1>1, Going DEF CoordinatorInv, Places
<1>3. CoordinatorTypes'
  BY <1>1, <1>2 DEF CoordinatorInv, CoordinatorTypes
<1>4. Exclusion'
  BY <1>1, <1>2, <1>3, CoordinatorConstants DEF CoordinatorInv, Exclusion, Reading, InBatch
<1>5. Waves'
  BY <1>1, <1>2 DEF CoordinatorInv, Waves, InWave, AtRest
<1>6. Owned'
  BY <1>1, <1>2 DEF CoordinatorInv, Owned, Pending
<1> QED BY <1>3, <1>4, <1>5, <1>6 DEF CoordinatorInv

\* The tasks of a caller's queue are cancelled, and it leaves with an error.
LEMMA Leaving ==
    ASSUME CoordinatorInv, NEW c \in Callers, CancelQueue(c), Goes(c, "failed"),
           wave[c] = <<>>, UNCHANGED <<wave, gate, cancelled>>,
           at[c] \notin Reading \cup {"history", "transfer"},
           IF at[c] \in InBatch THEN batch' = None ELSE batch' = batch
    PROVE  CoordinatorInv'
<1>1. /\ at' \in [Callers -> Places] /\ at'[c] = "failed"
      /\ \A d \in Callers \ {c} : at'[d] = at[d]
  BY Going DEF CoordinatorInv, Places
<1>2. Become(Range(queue[c]), "cancelled") /\ queue' = [queue EXCEPT ![c] = <<>>]
  BY DEF CancelQueue
<1>3. /\ state' \in [Tasks -> States]
      /\ \A t \in Range(queue[c]) : state'[t] = "cancelled"
      /\ \A t \in Tasks \ Range(queue[c]) : state'[t] = state[t]
  BY <1>2, Becoming, RangeType DEF CoordinatorInv, CoordinatorTypes, States
<1>4. /\ queue' \in [Callers -> Seq(Tasks)] /\ queue'[c] = <<>>
      /\ \A d \in Callers \ {c} : queue'[d] = queue[d]
  BY <1>2 DEF CoordinatorInv, CoordinatorTypes
<1>5. CoordinatorTypes'
  BY <1>1, <1>3, <1>4 DEF CoordinatorInv, CoordinatorTypes
<1>6. c # None /\ (batch = c <=> at[c] \in InBatch)
  BY CoordinatorConstants DEF CoordinatorInv, Exclusion
<1>7. Exclusion'
  BY <1>1, <1>5, <1>6, CoordinatorConstants DEF CoordinatorInv, Exclusion, Reading, InBatch
<1>8. Waves'
  BY <1>1, <1>4 DEF CoordinatorInv, Waves, InWave, AtRest
<1>9. Owned'
  <2>1. ASSUME NEW t \in Tasks, state'[t] = "moving"
        PROVE  \E d \in Callers : at'[d] = "transfer" /\ t \in Range(wave'[d])
    <3>1. state[t] = "moving"
      BY <1>3, <2>1
    <3> QED BY <1>1, <3>1 DEF CoordinatorInv, Owned
  <2>2. ASSUME NEW t \in Tasks, Pending(t)'
        PROVE  \E d \in Callers : t \in Range(queue'[d]) \cup Range(wave'[d])
    <3>1. Pending(t) /\ t \notin Range(queue[c])
      BY <1>3, <2>2 DEF Pending
    <3>2. PICK d \in Callers : t \in Range(queue[d]) \cup Range(wave[d])
      BY <3>1 DEF CoordinatorInv, Owned
    <3>3. d # c
      BY <3>1, <3>2, EmptyRange
    <3> QED BY <1>4, <3>2, <3>3
  <2> QED BY <2>1, <2>2 DEF Owned
<1> QED BY <1>5, <1>7, <1>8, <1>9 DEF CoordinatorInv

\* The invariant is kept when the action is Cancelling.
LEMMA CancellingKeeps ==
    ASSUME CoordinatorInv, NEW c \in Callers, CancelWaiting(c) \/ CancelRest(c) \/ EndFailed(c)
    PROVE  CoordinatorInv'
<1>1. CASE CancelWaiting(c)
  <2>1. at[c] = "waitBatch" /\ wave[c] = <<>>
    BY <1>1 DEF CancelWaiting, CoordinatorInv, Waves, InWave
  <2> QED BY <1>1, <2>1, Leaving DEF CancelWaiting, Reading, InBatch
<1>2. CASE CancelRest(c)
  <2>1. at[c] = "loop" /\ wave[c] = <<>>
    BY <1>2 DEF CancelRest, CoordinatorInv, Waves, InWave
  <2> QED BY <1>2, <2>1, Leaving DEF CancelRest, Reading, InBatch
<1>3. CASE EndFailed(c)
  BY <1>3, Leaving DEF EndFailed, Reading, InBatch
<1> QED BY <1>1, <1>2, <1>3

\* The invariant is kept when the action is EndBatch.
LEMMA EndBatchKeeps ==
    ASSUME CoordinatorInv, NEW c \in Callers, EndBatch(c) PROVE CoordinatorInv'
<1> DEFINE place == IF c \in cancelled THEN "failed" ELSE "returned"
<1>1. /\ at[c] = "loop" /\ queue[c] = <<>> /\ batch' = None /\ Goes(c, place)
      /\ UNCHANGED <<queue, wave, state, gate, cancelled>>
  BY DEF EndBatch
<1>2. place \in {"failed", "returned"}
  OBVIOUS
<1> HIDE DEF place
<1>3. /\ at' \in [Callers -> Places] /\ at'[c] = place
      /\ \A d \in Callers \ {c} : at'[d] = at[d]
  BY <1>1, <1>2, Going DEF CoordinatorInv, Places
<1>4. CoordinatorTypes'
  BY <1>1, <1>3 DEF CoordinatorInv, CoordinatorTypes
<1>5. c # None /\ batch = c
  BY <1>1, CoordinatorConstants DEF CoordinatorInv, Exclusion, InBatch
<1>6. Exclusion'
  BY <1>1, <1>2, <1>3, <1>4, <1>5, CoordinatorConstants DEF CoordinatorInv, Exclusion, Reading, InBatch
<1>7. Waves'
  BY <1>1, <1>2, <1>3 DEF CoordinatorInv, Waves, InWave, AtRest
<1>8. Owned'
  BY <1>1, <1>3 DEF CoordinatorInv, Owned, Pending
<1> QED BY <1>4, <1>6, <1>7, <1>8 DEF CoordinatorInv

\* The first wave of a queue: its tasks leave the queue for it.
LEMMA Waving ==
    ASSUME CoordinatorInv, NEW c \in Callers, StartWave(c)
    PROVE  /\ wave' \in [Callers -> Seq(Tasks)] /\ queue' \in [Callers -> Seq(Tasks)]
           /\ \A d \in Callers \ {c} : wave'[d] = wave[d] /\ queue'[d] = queue[d]
           /\ wave[c] = <<>> /\ WaveFits(wave'[c])
           /\ Range(queue[c]) = Range(wave'[c]) \cup Range(queue'[c])
           /\ Distinct(queue[c]) =>
                  /\ Distinct(wave'[c]) /\ Distinct(queue'[c])
                  /\ Range(wave'[c]) \cap Range(queue'[c]) = {}
<1> DEFINE q == queue[c]
           n == WaveSize(q)
<1>1. q \in Seq(Tasks) /\ q # <<>> /\ wave[c] = <<>>
  BY DEF StartWave, CoordinatorInv, CoordinatorTypes, Waves, InWave
<1>2. /\ n \in 1..Len(q) /\ n \in {1, 2}
      /\ n = 2 => q[1] \in Tasks \ Large /\ q[2] \in Tasks \ Large
      /\ n = 1 => q[1] \in Tasks
  BY <1>1 DEF WaveSize
<1>3. /\ wave' = [wave EXCEPT ![c] = SubSeq(q, 1, n)]
      /\ queue' = [queue EXCEPT ![c] = SubSeq(q, n + 1, Len(q))]
  BY DEF StartWave
<1> HIDE DEF q, n
<1> DEFINE f == SubSeq(q, 1, n)
           r == SubSeq(q, n + 1, Len(q))
<1>4. /\ f \in Seq(Tasks) /\ r \in Seq(Tasks) /\ Len(f) = n
      /\ \A i \in 1..n : f[i] = q[i]
      /\ Range(q) = Range(f) \cup Range(r)
      /\ Distinct(q) => Distinct(f) /\ Distinct(r) /\ Range(f) \cap Range(r) = {}
  BY <1>1, <1>2, SplitFacts
<1>5. WaveFits(f)
  <2> HIDE DEF f, r
  <2>1. CASE n = 1
    <3>1. f[1] = q[1] /\ Len(f) = 1 /\ f[1] \in Tasks
      BY <1>2, <1>4, <2>1
    <3>2. f = <<f[1]>>
      BY <1>4, <3>1
    <3> QED BY <3>1, <3>2 DEF WaveFits
  <2>2. CASE n = 2
    <3>1. f[1] = q[1] /\ f[2] = q[2] /\ Len(f) = 2
      BY <1>4, <2>2
    <3>2. f = <<f[1], f[2]>>
      BY <1>4, <3>1
    <3> QED BY <1>2, <2>2, <3>1, <3>2 DEF WaveFits
  <2> QED BY <1>2, <2>1, <2>2
<1>6. /\ wave \in [Callers -> Seq(Tasks)] /\ queue \in [Callers -> Seq(Tasks)]
      /\ wave' = [wave EXCEPT ![c] = f] /\ queue' = [queue EXCEPT ![c] = r]
  BY <1>3 DEF CoordinatorInv, CoordinatorTypes
<1> HIDE DEF f, r
<1> QED BY <1>1, <1>4, <1>5, <1>6 DEF q

\* The invariant is kept when the action is StartWave.
LEMMA StartWaveKeeps ==
    ASSUME CoordinatorInv, NEW c \in Callers, StartWave(c) PROVE CoordinatorInv'
<1>1. /\ at[c] = "loop" /\ Goes(c, "waitGate") /\ UNCHANGED <<state, gate, batch, cancelled>>
  BY DEF StartWave
<1>2. /\ at' \in [Callers -> Places] /\ at'[c] = "waitGate"
      /\ \A d \in Callers \ {c} : at'[d] = at[d]
  BY <1>1, Going DEF CoordinatorInv, Places
<1>3. CoordinatorTypes'
  BY <1>1, <1>2, Waving DEF CoordinatorInv, CoordinatorTypes
<1>4. Exclusion'
  BY <1>1, <1>2, <1>3, CoordinatorConstants DEF CoordinatorInv, Exclusion, Reading, InBatch
<1>5. Waves'
  BY <1>1, <1>2, Waving DEF CoordinatorInv, Waves, InWave, AtRest
<1>6. Owned'
  <2>1. ASSUME NEW t \in Tasks, NEW d \in Callers, t \in Range(queue[d]) \cup Range(wave[d])
        PROVE  t \in Range(queue'[d]) \cup Range(wave'[d])
    BY <2>1, Waving, EmptyRange
  <2>2. ASSUME NEW t \in Tasks, NEW d \in Callers, at[d] = "transfer", t \in Range(wave[d])
        PROVE  at'[d] = "transfer" /\ t \in Range(wave'[d])
    BY <1>1, <1>2, <2>2, Waving
  <2> QED BY <1>1, <2>1, <2>2 DEF CoordinatorInv, Owned, Pending
<1> QED BY <1>3, <1>4, <1>5, <1>6 DEF CoordinatorInv

\* The invariant is kept when the action is EnterGate.
LEMMA EnterGateKeeps ==
    ASSUME CoordinatorInv, NEW c \in Callers, EnterGate(c) PROVE CoordinatorInv'
<1>1. /\ at[c] = "waitGate" /\ gate.writer = None /\ Goes(c, "reserve")
      /\ UNCHANGED <<queue, wave, state, batch, cancelled>>
  BY DEF EnterGate
<1>2. /\ at' \in [Callers -> Places] /\ at'[c] = "reserve"
      /\ \A d \in Callers \ {c} : at'[d] = at[d]
  BY <1>1, Going DEF CoordinatorInv, Places
<1>3. /\ gate'.readers = gate.readers \cup {c} /\ gate'.writer = None
      /\ gate' \in [readers : SUBSET Callers, writer : Callers \cup {None},
                    waiting : SUBSET Callers]
  BY <1>1 DEF EnterGate, CoordinatorInv, CoordinatorTypes
<1>4. CoordinatorTypes'
  BY <1>1, <1>2, <1>3 DEF CoordinatorInv, CoordinatorTypes
<1>5. Exclusion'
  BY <1>1, <1>2, <1>3, <1>4, CoordinatorConstants DEF CoordinatorInv, Exclusion, Reading, InBatch
<1>6. Waves'
  BY <1>1, <1>2 DEF CoordinatorInv, Waves, InWave, AtRest
<1>7. Owned'
  BY <1>1, <1>2 DEF CoordinatorInv, Owned, Pending
<1> QED BY <1>4, <1>5, <1>6, <1>7 DEF CoordinatorInv

\* The invariant is kept when the action is Reserve.
LEMMA ReserveKeeps ==
    ASSUME CoordinatorInv, NEW c \in Callers, Reserve(c) PROVE CoordinatorInv'
<1>1. /\ at[c] = "reserve" /\ Goes(c, "transfer") /\ Become(Range(wave[c]), "moving")
      /\ UNCHANGED <<queue, wave, gate, batch, cancelled>>
  BY DEF Reserve
<1>2. /\ at' \in [Callers -> Places] /\ at'[c] = "transfer"
      /\ \A d \in Callers \ {c} : at'[d] = at[d]
  BY <1>1, Going DEF CoordinatorInv, Places
<1>3. /\ state' \in [Tasks -> States]
      /\ \A t \in Range(wave[c]) : state'[t] = "moving"
      /\ \A t \in Tasks \ Range(wave[c]) : state'[t] = state[t]
  BY <1>1, Becoming, RangeType DEF CoordinatorInv, CoordinatorTypes, States
<1>4. CoordinatorTypes'
  BY <1>1, <1>2, <1>3 DEF CoordinatorInv, CoordinatorTypes
<1>5. Exclusion'
  BY <1>1, <1>2, <1>4, CoordinatorConstants DEF CoordinatorInv, Exclusion, Reading, InBatch
<1>6. Waves'
  BY <1>1, <1>2 DEF CoordinatorInv, Waves, InWave, AtRest
<1>7. Owned'
  <2>1. ASSUME NEW t \in Tasks, state'[t] = "moving"
        PROVE  \E d \in Callers : at'[d] = "transfer" /\ t \in Range(wave'[d])
    <3>1. CASE t \in Range(wave[c])
      BY <1>1, <1>2, <3>1
    <3>2. CASE t \notin Range(wave[c])
      <4>1. PICK d \in Callers : at[d] = "transfer" /\ t \in Range(wave[d])
        BY <1>3, <2>1, <3>2 DEF CoordinatorInv, Owned
      <4> QED BY <1>1, <1>2, <4>1
    <3> QED BY <3>1, <3>2
  <2>2. ASSUME NEW t \in Tasks, Pending(t)'
        PROVE  \E d \in Callers : t \in Range(queue'[d]) \cup Range(wave'[d])
    <3>1. t \in Range(wave[c]) \/ Pending(t)
      BY <1>3, <2>2 DEF Pending
    <3> QED BY <1>1, <3>1 DEF CoordinatorInv, Owned
  <2> QED BY <2>1, <2>2 DEF Owned
<1> QED BY <1>4, <1>5, <1>6, <1>7 DEF CoordinatorInv

\* The invariant is kept when the action is ReserveFails.
LEMMA ReserveFailsKeeps ==
    ASSUME CoordinatorInv, NEW c \in Callers, ReserveFails(c) PROVE CoordinatorInv'
<1>1. /\ at[c] = "reserve" /\ Goes(c, "afterFailed") /\ Become(Range(wave[c]), "failed")
      /\ UNCHANGED <<queue, wave, batch, cancelled>>
  BY DEF ReserveFails
<1>2. /\ at' \in [Callers -> Places] /\ at'[c] = "afterFailed"
      /\ \A d \in Callers \ {c} : at'[d] = at[d]
  BY <1>1, Going DEF CoordinatorInv, Places
<1>3. /\ state' \in [Tasks -> States]
      /\ \A t \in Range(wave[c]) : state'[t] = "failed"
      /\ \A t \in Tasks \ Range(wave[c]) : state'[t] = state[t]
  BY <1>1, Becoming, RangeType DEF CoordinatorInv, CoordinatorTypes, States
<1>4. /\ gate'.readers = gate.readers \ {c} /\ gate'.writer = gate.writer
      /\ gate' \in [readers : SUBSET Callers, writer : Callers \cup {None},
                    waiting : SUBSET Callers]
  BY <1>1 DEF ReserveFails, CoordinatorInv, CoordinatorTypes
<1>5. CoordinatorTypes'
  BY <1>1, <1>2, <1>3, <1>4 DEF CoordinatorInv, CoordinatorTypes
<1>6. Exclusion'
  BY <1>1, <1>2, <1>4, <1>5, CoordinatorConstants DEF CoordinatorInv, Exclusion, Reading, InBatch
<1>7. Waves'
  BY <1>1, <1>2 DEF CoordinatorInv, Waves, InWave, AtRest
<1>8. Owned'
  <2>1. ASSUME NEW t \in Tasks, state'[t] = "moving"
        PROVE  \E d \in Callers : at'[d] = "transfer" /\ t \in Range(wave'[d])
    <3>1. state[t] = "moving"
      BY <1>3, <2>1
    <3>2. PICK d \in Callers : at[d] = "transfer" /\ t \in Range(wave[d])
      BY <3>1 DEF CoordinatorInv, Owned
    <3> QED BY <1>1, <1>2, <3>2
  <2>2. ASSUME NEW t \in Tasks, Pending(t)'
        PROVE  \E d \in Callers : t \in Range(queue'[d]) \cup Range(wave'[d])
    <3>1. t \in Range(wave[c]) \/ Pending(t)
      BY <1>3, <2>2 DEF Pending
    <3> QED BY <1>1, <3>1 DEF CoordinatorInv, Owned
  <2> QED BY <2>1, <2>2 DEF Owned
<1> QED BY <1>5, <1>6, <1>7, <1>8 DEF CoordinatorInv

\* The invariant is kept when the action is Transfer.
LEMMA TransferKeeps ==
    ASSUME CoordinatorInv, NEW t \in Tasks, Transfer(t) PROVE CoordinatorInv'
<1>1. /\ UNCHANGED <<at, queue, wave, gate, batch, cancelled>>
      /\ state[t] = "moving" /\ state' \in [Tasks -> States]
      /\ state'[t] \in {"moved", "failed"}
      /\ \A u \in Tasks \ {t} : state'[u] = state[u]
  BY DEF Transfer, CoordinatorInv, CoordinatorTypes, States
<1>2. CoordinatorTypes' /\ Exclusion' /\ Waves'
  BY <1>1 DEF CoordinatorInv, CoordinatorTypes, Exclusion, Waves
<1>3. \A u \in Tasks : Pending(u)' => Pending(u)
  BY <1>1 DEF Pending
<1>4. Owned'
  BY <1>1, <1>3 DEF CoordinatorInv, Owned
<1> QED BY <1>2, <1>4 DEF CoordinatorInv

\* The invariant is kept when the action is EndTransfers.
LEMMA EndTransfersKeeps ==
    ASSUME CoordinatorInv, NEW c \in Callers, EndTransfers(c) PROVE CoordinatorInv'
<1>1. /\ at[c] = "transfer" /\ \A t \in Range(wave[c]) : state[t] # "moving"
      /\ Goes(c, "after") /\ UNCHANGED <<queue, wave, state, batch, cancelled>>
  BY DEF EndTransfers
<1>2. /\ at' \in [Callers -> Places] /\ at'[c] = "after"
      /\ \A d \in Callers \ {c} : at'[d] = at[d]
  BY <1>1, Going DEF CoordinatorInv, Places
<1>3. /\ gate'.readers = gate.readers \ {c} /\ gate'.writer = gate.writer
      /\ gate' \in [readers : SUBSET Callers, writer : Callers \cup {None},
                    waiting : SUBSET Callers]
  BY <1>1 DEF EndTransfers, CoordinatorInv, CoordinatorTypes
<1>4. CoordinatorTypes'
  BY <1>1, <1>2, <1>3 DEF CoordinatorInv, CoordinatorTypes
<1>5. Exclusion'
  BY <1>1, <1>2, <1>3, <1>4, CoordinatorConstants DEF CoordinatorInv, Exclusion, Reading, InBatch
<1>6. Waves'
  BY <1>1, <1>2 DEF CoordinatorInv, Waves, InWave, AtRest
<1>7. Owned'
  BY <1>1, <1>2 DEF CoordinatorInv, Owned, Pending
<1> QED BY <1>4, <1>5, <1>6, <1>7 DEF CoordinatorInv

\* The invariant is kept when the action is After.
LEMMA AfterKeeps ==
    ASSUME CoordinatorInv, NEW c \in Callers, After(c) PROVE CoordinatorInv'
<1> DEFINE h == Head(wave[c])
<1>1. /\ at[c] \in {"after", "afterFailed"} /\ wave[c] # <<>> /\ wave[c] \in Seq(Tasks)
      /\ Become({h}, "settled") /\ wave' = [wave EXCEPT ![c] = Tail(wave[c])]
      /\ UNCHANGED <<at, queue, gate, batch, cancelled>>
  BY DEF After, CoordinatorInv, CoordinatorTypes
<1>2. /\ h \in Tasks /\ Tail(wave[c]) \in Seq(Tasks)
      /\ Range(wave[c]) = {h} \cup Range(Tail(wave[c]))
  BY <1>1, TailFacts
<1> HIDE DEF h
<1>3. /\ state' \in [Tasks -> States] /\ state'[h] = "settled"
      /\ \A t \in Tasks \ {h} : state'[t] = state[t]
  BY <1>1, <1>2, Becoming DEF CoordinatorInv, States
<1>4. /\ wave' \in [Callers -> Seq(Tasks)] /\ wave'[c] = Tail(wave[c])
      /\ \A d \in Callers \ {c} : wave'[d] = wave[d]
  BY <1>1, <1>2 DEF CoordinatorInv, CoordinatorTypes
<1>5. CoordinatorTypes' /\ Exclusion'
  BY <1>1, <1>3, <1>4 DEF CoordinatorInv, CoordinatorTypes, Exclusion
<1>6. Waves'
  BY <1>1, <1>4 DEF CoordinatorInv, Waves, InWave, AtRest
<1>7. Owned'
  <2>1. ASSUME NEW t \in Tasks, state'[t] = "moving"
        PROVE  \E d \in Callers : at'[d] = "transfer" /\ t \in Range(wave'[d])
    <3>1. PICK d \in Callers : at[d] = "transfer" /\ t \in Range(wave[d])
      BY <1>3, <2>1 DEF CoordinatorInv, Owned
    <3> QED BY <1>1, <1>4, <3>1
  <2>2. ASSUME NEW t \in Tasks, Pending(t)'
        PROVE  \E d \in Callers : t \in Range(queue'[d]) \cup Range(wave'[d])
    <3>1. t # h /\ Pending(t)
      BY <1>3, <2>2 DEF Pending
    <3>2. PICK d \in Callers : t \in Range(queue[d]) \cup Range(wave[d])
      BY <3>1 DEF CoordinatorInv, Owned
    <3>3. CASE d = c
      BY <1>1, <1>2, <1>4, <3>1, <3>2, <3>3
    <3>4. CASE d # c
      BY <1>1, <1>4, <3>2, <3>4
    <3> QED BY <3>3, <3>4
  <2> QED BY <2>1, <2>2 DEF Owned
<1> QED BY <1>5, <1>6, <1>7 DEF CoordinatorInv

\* The invariant is kept when the action is EndWave.
LEMMA EndWaveKeeps ==
    ASSUME CoordinatorInv, NEW c \in Callers, EndWave(c) PROVE CoordinatorInv'
<1>1. /\ at[c] = "after" /\ wave[c] = <<>> /\ Goes(c, "loop")
      /\ UNCHANGED <<queue, wave, state, gate, batch, cancelled>>
  BY DEF EndWave
<1>2. /\ at' \in [Callers -> Places] /\ at'[c] = "loop"
      /\ \A d \in Callers \ {c} : at'[d] = at[d]
  BY <1>1, Going DEF CoordinatorInv, Places
<1>3. CoordinatorTypes'
  BY <1>1, <1>2 DEF CoordinatorInv, CoordinatorTypes
<1>4. Exclusion'
  BY <1>1, <1>2, <1>3, CoordinatorConstants DEF CoordinatorInv, Exclusion, Reading, InBatch
<1>5. Waves'
  BY <1>1, <1>2 DEF CoordinatorInv, Waves, InWave, AtRest
<1>6. Owned'
  BY <1>1, <1>2 DEF CoordinatorInv, Owned, Pending
<1> QED BY <1>3, <1>4, <1>5, <1>6 DEF CoordinatorInv

\* A step that leaves the coordinator alone.
LEMMA CoordinatorStays ==
    ASSUME CoordinatorInv, UNCHANGED <<at, queue, wave, state, gate, batch>>,
           cancelled' \subseteq Callers
    PROVE  CoordinatorInv'
BY DEF CoordinatorInv, CoordinatorTypes, Exclusion, Waves, Owned, Pending

\* What a caller may do between its entry and its return.
LEMMA CallKeeps ==
    ASSUME CoordinatorInv, NEW c \in Callers,
           \/ CallStep(c) \/ LeaveHistory(c) \/ After(c)
           \/ CancelWaiting(c) \/ CancelRest(c) \/ EndFailed(c)
    PROVE  CoordinatorInv'
BY EnterHistoryKeeps, EnterBatchKeeps, EndBatchKeeps, StartWaveKeeps, EnterGateKeeps,
   ReserveKeeps, ReserveFailsKeeps, EndTransfersKeeps, EndWaveKeeps, LeaveHistoryKeeps,
   AfterKeeps, CancellingKeeps
   DEF CallStep

\* Two slots at most, and none beside a request for history.
LEMMA TwoSlots == CoordinatorInv => GateKept
<1> SUFFICES ASSUME CoordinatorInv PROVE GateKept
  OBVIOUS
<1>1. CASE Moving = {}
  <2>1. Moving \cap Large = {}
    BY <1>1
  <2> QED BY <1>1, <2>1, FS_EmptySet DEF GateKept
<1>2. CASE Moving # {}
  <2>1. PICK t \in Tasks : state[t] = "moving"
    BY <1>2 DEF Moving
  <2>2. PICK c \in Callers : at[c] = "transfer" /\ t \in Range(wave[c])
    BY <2>1 DEF CoordinatorInv, Owned
  <2>3. \A d \in Callers : at[d] # "history" /\ (at[d] = "transfer" => d = c)
    BY <2>2, CoordinatorConstants DEF CoordinatorInv, Exclusion, Reading, InBatch
  <2>4. Moving \subseteq Range(wave[c])
    BY <2>3 DEF Moving, CoordinatorInv, Owned
  <2>5. WaveFits(wave[c])
    BY <2>2 DEF CoordinatorInv, Waves
  <2>6. ASSUME NEW u \in Tasks, wave[c] = <<u>>
        PROVE  Cardinality(Moving) + Cardinality(Moving \cap Large) <= 2
    <3>1. Moving \subseteq {u} /\ Moving \cap Large \subseteq {u}
      BY <2>4, <2>6 DEF Range
    <3>2. IsFiniteSet({u}) /\ Cardinality({u}) = 1
      BY FS_Singleton
    <3>3. /\ IsFiniteSet(Moving) /\ IsFiniteSet(Moving \cap Large)
          /\ Cardinality(Moving) <= 1 /\ Cardinality(Moving \cap Large) <= 1
      BY <3>1, <3>2, FS_Subset
    <3>4. Cardinality(Moving) \in Nat /\ Cardinality(Moving \cap Large) \in Nat
      BY <3>3, FS_CardinalityType
    <3> QED BY <3>3, <3>4
  <2>7. ASSUME NEW u \in Tasks \ Large, NEW v \in Tasks \ Large, wave[c] = <<u, v>>
        PROVE  Cardinality(Moving) + Cardinality(Moving \cap Large) <= 2
    <3>1. Moving \subseteq {u} \cup {v} /\ Moving \cap Large = {}
      BY <2>4, <2>7 DEF Range
    <3>2. IsFiniteSet({u} \cup {v}) /\ Cardinality({u} \cup {v}) <= 2
      <4>1. IsFiniteSet({u}) /\ Cardinality({u}) = 1
        BY FS_Singleton
      <4> QED BY <4>1, FS_AddElement
    <3>3. /\ IsFiniteSet(Moving) /\ Cardinality(Moving) <= Cardinality({u} \cup {v})
          /\ Cardinality(Moving \cap Large) = 0
      BY <3>1, <3>2, FS_Subset, FS_EmptySet
    <3>4. Cardinality(Moving) \in Nat /\ Cardinality({u} \cup {v}) \in Nat
      BY <3>2, <3>3, FS_CardinalityType
    <3> DEFINE all == Cardinality(Moving)
               large == Cardinality(Moving \cap Large)
               both == Cardinality({u} \cup {v})
    <3>5. all \in Nat /\ both \in Nat /\ both <= 2 /\ all <= both /\ large = 0
      BY <3>2, <3>3, <3>4
    <3> HIDE DEF all, large, both
    <3>6. all + large <= 2
      BY <3>5
    <3> QED BY <3>6 DEF all, large
  <2> QED BY <2>3, <2>5, <2>6, <2>7 DEF GateKept, WaveFits
<1> QED BY <1>1, <1>2

\* With every caller outside, no task is left.
LEMMA AllEnded == CoordinatorInv => EveryTaskEnds
<1> SUFFICES ASSUME CoordinatorInv, \A c \in Callers : Outside(c), NEW t \in Tasks
             PROVE  state[t] \in {"new", "settled", "cancelled"}
  BY DEF EveryTaskEnds
<1>1. \A c \in Callers : queue[c] = <<>> /\ wave[c] = <<>>
  BY DEF Outside, CoordinatorInv, Waves, AtRest, InWave
<1>2. ~Pending(t)
  BY <1>1, EmptyRange DEF CoordinatorInv, Owned
<1>3. state[t] \in States
  BY DEF CoordinatorInv, CoordinatorTypes
<1> QED BY <1>2, <1>3 DEF Pending, States

(***************************************************************************)
(* The plan of a page                                                      *)
(***************************************************************************)

\* The least of some numbers: finite sets are well founded under inclusion.
LEMMA Least == ASSUME NEW M \in SUBSET Nat, M # {} PROVE \E m \in M : \A k \in M : m <= k
<1>1. PICK n \in M : TRUE
  OBVIOUS
<1> DEFINE S == 0..n
           T == {0..m : m \in M \cap S}
<1>2. IsFiniteSet(S)
  BY <1>1, FS_Interval
<1>3. T \subseteq FiniteSubsetsOf(S) /\ T # {}
  <2>1. \A m \in M \cap S : 0..m \in SUBSET S
    BY <1>1
  <2>2. \A m \in M \cap S : IsFiniteSet(0..m)
    BY <1>1, FS_Interval
  <2>3. n \in M \cap S
    BY <1>1
  <2> QED BY <2>1, <2>2, <2>3 DEF FiniteSubsetsOf
<1>4. IsWellFoundedOn(StrictSubsetOrdering(S), FiniteSubsetsOf(S))
  BY FS_StrictSubsetOrderingWellFounded
<1>5. PICK x \in T : \A y \in T : ~ (<<y, x>> \in StrictSubsetOrdering(S))
  BY <1>3, <1>4, WFMin
<1>6. PICK m \in M \cap S : x = 0..m
  BY <1>5
<1>7. ASSUME NEW k \in M, k < m PROVE FALSE
  <2>1. k \in M \cap S /\ k \in Nat /\ m \in Nat
    BY <1>1, <1>6, <1>7
  <2>2. 0..k \in T /\ 0..k \in SUBSET S /\ 0..m \in SUBSET S
    BY <1>1, <1>6, <2>1
  <2>3. 0..k \subseteq 0..m /\ 0..k # 0..m
    <3>1. m \in 0..m /\ m \notin 0..k
      BY <1>7, <2>1
    <3>2. 0..k \subseteq 0..m
      BY <1>7, <2>1
    <3> QED BY <3>1, <3>2
  <2>4. <<0..k, 0..m>> \in StrictSubsetOrdering(S)
    BY <2>2, <2>3 DEF StrictSubsetOrdering
  <2> QED BY <1>5, <1>6, <2>2, <2>4
<1>8. \A k \in M : m <= k
  BY <1>6, <1>7
<1> QED BY <1>6, <1>8

\* An ascending sequence of places has each of them, once.
LEMMA AscendingFacts ==
    ASSUME NEW n \in Nat, NEW ps \in SUBSET (1..n), NEW f \in Ascending(ps)
    PROVE  f \in Seq(ps) /\ Range(f) = ps /\ Distinct(f)
<1>1. IsFiniteSet(ps) /\ Cardinality(ps) \in Nat
  <2>1. IsFiniteSet(1..n)
    BY FS_Interval
  <2>2. IsFiniteSet(ps)
    BY <2>1, FS_Subset
  <2> QED BY <2>2, FS_CardinalityType
<1> DEFINE C == Cardinality(ps)
<1>2. f \in [1..C -> ps] /\ \A a, b \in 1..C : a < b => f[a] < f[b]
  BY DEF Ascending
<1>3. \A a, b \in 1..C : f[a] = f[b] => a = b
  <2> SUFFICES ASSUME NEW a \in 1..C, NEW b \in 1..C, f[a] = f[b], a # b PROVE FALSE
    OBVIOUS
  <2>1. f[a] \in 1..n /\ f[b] \in 1..n
    BY <1>2
  <2>2. a < b \/ b < a
    BY <1>1
  <2> QED BY <1>2, <2>1, <2>2
<1>4. f \in Injection(1..C, ps)
  BY <1>2, <1>3 DEF Injection, IsInjective
<1>5. Cardinality(1..C) = C /\ IsFiniteSet(1..C)
  BY <1>1, FS_Interval
<1>6. f \in Surjection(1..C, ps)
  BY <1>1, <1>4, <1>5, FS_Injection
<1>7. \A p \in ps : \E a \in 1..C : f[a] = p
  BY <1>6 DEF Surjection
<1>8. DOMAIN f = 1..C
  BY <1>2
<1>9. Range(f) = ps
  BY <1>2, <1>7, <1>8 DEF Range
<1>10. f \in Seq(ps)
  BY <1>1, <1>2
<1> QED BY <1>3, <1>8, <1>9, <1>10 DEF Distinct

\* The tasks planned for a page: one for each key that nobody has claimed.
LEMMA PlanFacts ==
    ASSUME NEW i \in DOMAIN Pages, NEW places \in Ascending(Planned(i))
    PROVE  LET q == TasksAt(i, places)
           IN  /\ q \in Seq(Attachments) /\ Distinct(q) /\ Range(q) \subseteq Attachment(i)
               /\ Range(q) = {Pages[i][n] : n \in Planned(i)}
               /\ \A t \in Range(q) : Key[t] \notin cache \cup claimed
               /\ \A t, u \in Range(q) : Key[t] = Key[u] => t = u
               /\ \A t \in Attachment(i) : Key[t] \notin cache \cup claimed =>
                      \E u \in Range(q) : Key[u] = Key[t]
<1> DEFINE s == Pages[i]
           q == TasksAt(i, places)
           P == Planned(i)
<1>1. s \in Seq(Attachments)
  BY PipelineConstants
<1> DEFINE L == Len(s)
<1>2. L \in Nat /\ DOMAIN s = 1..L /\ \A n \in 1..L : s[n] \in Attachments
  BY <1>1
<1>3. P \in SUBSET (1..L) /\ \A n \in P : Claims(i, n)
  BY <1>2 DEF Planned
<1>4. places \in Seq(P) /\ Range(places) = P /\ Distinct(places)
  BY <1>2, <1>3, AscendingFacts
<1>5. /\ DOMAIN q = DOMAIN places /\ DOMAIN places = 1..Len(places) /\ Len(places) \in Nat
      /\ \A m \in DOMAIN places : q[m] = s[places[m]] /\ places[m] \in P
  BY <1>4 DEF TasksAt
<1>6. q \in Seq(Attachments)
  <2>1. \A m \in 1..Len(places) : q[m] \in Attachments
    BY <1>2, <1>3, <1>5
  <2>2. q = [m \in 1..Len(places) |-> s[places[m]]]
    BY <1>5 DEF TasksAt
  <2>3. q \in [1..Len(places) -> Attachments]
    BY <1>5, <2>1, <2>2
  <2> QED BY <1>5, <2>3
<1>7. \A m, n \in 1..L : s[m] = s[n] => m = n
  BY <1>2, UniqueAttachments
<1>8. Distinct(q)
  <2> SUFFICES ASSUME NEW a \in DOMAIN places, NEW b \in DOMAIN places, q[a] = q[b] PROVE a = b
    BY <1>5 DEF Distinct
  <2>1. places[a] = places[b]
    BY <1>3, <1>5, <1>7
  <2> QED BY <1>4, <2>1 DEF Distinct
<1>9. Range(q) = {s[n] : n \in P}
  <2>1. ASSUME NEW n \in P PROVE s[n] \in Range(q)
    <3>1. PICK m \in DOMAIN places : places[m] = n
      BY <1>4 DEF Range
    <3> QED BY <1>5, <3>1 DEF Range
  <2>2. ASSUME NEW m \in DOMAIN q PROVE q[m] \in {s[n] : n \in P}
    BY <1>5
  <2> QED BY <2>1, <2>2 DEF Range
<1> HIDE DEF q
<1>10. Range(q) \subseteq Attachment(i)
  BY <1>2, <1>3, <1>9 DEF Attachment, Range
<1>11. \A n \in P : Key[s[n]] \notin cache \cup claimed
  BY <1>3 DEF Claims
<1>12. ASSUME NEW m \in P, NEW n \in P, Key[s[m]] = Key[s[n]], m < n PROVE FALSE
  <2>1. m \in 1..n - 1
    BY <1>2, <1>3, <1>12
  <2>2. Key[s[m]] \in KeysOf(Before(i, n))
    BY <2>1 DEF KeysOf, Before
  <2> QED BY <1>3, <1>12, <2>2 DEF Claims
<1>13. \A t, u \in Range(q) : Key[t] = Key[u] => t = u
  <2> SUFFICES ASSUME NEW m \in P, NEW n \in P, Key[s[m]] = Key[s[n]] PROVE m = n
    BY <1>9
  <2>1. m < n \/ n < m \/ m = n
    BY <1>2, <1>3
  <2> QED BY <1>12, <2>1
<1>14. ASSUME NEW t \in Attachment(i), Key[t] \notin cache \cup claimed
       PROVE  \E u \in Range(q) : Key[u] = Key[t]
  <2> DEFINE M == {n \in 1..L : Key[s[n]] = Key[t]}
  <2>1. M \in SUBSET Nat /\ M # {}
    BY <1>2 DEF Attachment, Range
  <2>2. PICK m \in M : \A k \in M : m <= k
    BY <2>1, Least
  <2>3. Key[s[m]] \notin KeysOf(Before(i, m))
    <3> SUFFICES ASSUME NEW k \in 1..m - 1, Key[s[k]] = Key[s[m]] PROVE FALSE
      BY DEF KeysOf, Before
    <3>1. k \in 1..L /\ k < m
      BY <1>2, <2>2
    <3>2. m <= k
      BY <2>2, <3>1
    <3> QED BY <1>2, <3>1, <3>2
  <2>4. m \in P
    BY <1>2, <1>14, <2>3 DEF Planned, Claims
  <2> QED BY <1>9, <2>4
<1> QED BY <1>6, <1>8, <1>9, <1>10, <1>11, <1>13, <1>14 DEF q

(***************************************************************************)
(* What the steps of the walk have in common                               *)
(***************************************************************************)

ShownInv == WorkInv /\ KeptExplained /\ PageExplained

\* The attachments and their keys.
LEMMA KeyType == \A t \in Attachments : Key[t] \in Keys /\ t \in Tasks /\ t # None
BY PipelineConstants DEF Keys

\* The pages of the stream.
LEMMA PageType ==
    \A i \in DOMAIN Pages : Pages[i] \in Seq(Attachments) /\ Attachment(i) \subseteq Attachments
BY PipelineConstants DEF Attachment, Range

\* Two pages share no attachment.
LEMMA PagesApart ==
    ASSUME NEW i \in DOMAIN Pages, NEW j \in DOMAIN Pages, NEW t \in Attachment(i),
           t \in Attachment(j)
    PROVE  i = j
BY UniqueAttachments DEF Attachment, Range

\* A job is answered: the attachment leaves, the result of its key is there.
LEMMA Answered ==
    ASSUME WorkInv, NEW h \in Attachments, OnTheWay(h), NEW o \in Outcomes \ {"none"},
           \A t \in Attachments : OnTheWay(t)' <=> OnTheWay(t) /\ t # h,
           \A t \in Attachments : InJobs(t)' <=> InJobs(t) /\ t # h,
           results' = [results EXCEPT ![Key[h]] = o], claimed' = claimed
    PROVE  /\ results' \in [Keys -> Outcomes] /\ OneForKey' /\ ClaimsKept'
           /\ \A k \in Keys : Coming(k) => Coming(k)'
<1>1. /\ Key[h] \in Keys /\ results \in [Keys -> Outcomes]
  BY KeyType DEF WorkInv, PipelineTypes
<1>2. /\ results' \in [Keys -> Outcomes] /\ results'[Key[h]] = o
      /\ \A k \in Keys \ {Key[h]} : results'[k] = results[k]
  BY <1>1
<1>3. \A t \in Attachments : OnTheWay(t)' => Key[t] # Key[h]
  BY DEF WorkInv, OneForKey
<1>4. OneForKey'
  BY <1>2, <1>3, KeyType DEF WorkInv, OneForKey
<1>5. \A k \in Keys : Held(k) <=> \E t \in Attachments : Key[t] = k /\ OnTheWay(t)
  BY DEF Held, OnTheWay, InJobs
<1>6. \A k \in Keys : Held(k)' <=> \E t \in Attachments : Key[t] = k /\ OnTheWay(t)'
  BY DEF Held, OnTheWay, InJobs
<1>7. ClaimsKept'
  <2> SUFFICES ASSUME NEW k \in Keys PROVE k \in claimed <=> Held(k)' \/ results'[k] # "none"
    BY DEF ClaimsKept
  <2>1. CASE k = Key[h]
    BY <1>2, <1>5, <2>1 DEF WorkInv, ClaimsKept
  <2>2. CASE k # Key[h]
    BY <1>2, <1>5, <1>6, <2>2 DEF WorkInv, ClaimsKept
  <2> QED BY <2>1, <2>2
<1>8. \A k \in Keys : Coming(k) => Coming(k)'
  BY <1>2 DEF Coming
<1> QED BY <1>2, <1>4, <1>7, <1>8

\* Attachments that were not downloaded give their claims back.
LEMMA GivenBack ==
    ASSUME WorkInv, NEW ts \in SUBSET Attachments, \A t \in ts : OnTheWay(t),
           \A t \in Attachments : OnTheWay(t)' <=> OnTheWay(t) /\ t \notin ts,
           results' = results, claimed' = claimed \ KeysOf(ts)
    PROVE  OneForKey' /\ ClaimsKept'
<1>1. OneForKey'
  BY DEF WorkInv, OneForKey
<1>2. \A k \in Keys : Held(k) <=> \E t \in Attachments : Key[t] = k /\ OnTheWay(t)
  BY DEF Held, OnTheWay, InJobs
<1>3. \A k \in Keys : Held(k)' <=> \E t \in Attachments : Key[t] = k /\ OnTheWay(t)'
  BY DEF Held, OnTheWay, InJobs
<1>4. ClaimsKept'
  <2> SUFFICES ASSUME NEW k \in Keys PROVE k \in claimed' <=> Held(k)' \/ results[k] # "none"
    BY DEF ClaimsKept
  <2>1. CASE k \in KeysOf(ts)
    <3>1. PICK t \in ts : Key[t] = k
      BY <2>1 DEF KeysOf
    <3>2. results[k] = "none" /\ \A u \in Attachments : Key[u] = k /\ OnTheWay(u) => u = t
      BY <3>1 DEF WorkInv, OneForKey
    <3> QED BY <1>3, <2>1, <3>1, <3>2
  <2>2. CASE k \notin KeysOf(ts)
    <3>1. \A t \in Attachments : Key[t] = k => t \notin ts
      BY <2>2 DEF KeysOf
    <3> QED BY <1>2, <1>3, <2>2, <3>1 DEF WorkInv, ClaimsKept
  <2> QED BY <2>1, <2>2
<1> QED BY <1>1, <1>4

\* An attachment goes on, or nothing does.
LEMMA GoesOn ==
    ASSUME WorkInv, \A t \in Attachments : OnTheWay(t)' <=> OnTheWay(t),
           results' = results, claimed' = claimed
    PROVE  OneForKey' /\ ClaimsKept'
<1>1. OneForKey'
  BY DEF WorkInv, OneForKey
<1>2. \A k \in Keys : Held(k) <=> \E t \in Attachments : Key[t] = k /\ OnTheWay(t)
  BY DEF Held, OnTheWay, InJobs
<1>3. \A k \in Keys : Held(k)' <=> \E t \in Attachments : Key[t] = k /\ OnTheWay(t)'
  BY DEF Held, OnTheWay, InJobs
<1> QED BY <1>1, <1>2, <1>3 DEF WorkInv, ClaimsKept

\* The pages that are kept stay explained.
LEMMA KeptStays ==
    ASSUME WorkInv, KeptExplained, kept' = kept, mode' = mode,
           Ending' => Ending \/ mode = "stream",
           \A i \in kept : \A t \in Attachment(i) : shown'[t] = "none" => shown[t] = "none",
           \A j \in DOMAIN Pages : j < page => \A u \in Attachment(j) :
               shown[u] = "undownloaded" => shown'[u] = "undownloaded",
           \A k \in Keys : Coming(k) => Coming(k)'
    PROVE  KeptExplained'
<1>1. \A i \in kept : i \in DOMAIN Pages /\ i < page /\ i \in Nat
  BY PipelineConstants DEF WorkInv, PipelineTypes
<1> SUFFICES ASSUME NEW i \in kept, NEW t \in Attachment(i), shown'[t] = "none"
             PROVE  Witnessed(i, t)' \/ (mode = "daily" /\ ~Ending' /\ Coming(Key[t])')
  BY DEF KeptExplained
<1>2. t \in Attachments /\ Key[t] \in Keys
  BY <1>1, PageType, KeyType
<1>3. Witnessed(i, t) => Witnessed(i, t)'
  <2>1. \A j \in 1..i : j \in DOMAIN Pages /\ j < page
    BY <1>1, PipelineConstants DEF WorkInv, PipelineTypes
  <2> QED BY <2>1 DEF Witnessed
<1>4. CASE Witnessed(i, t)
  BY <1>3, <1>4
<1>5. CASE mode = "daily" /\ ~Ending /\ Coming(Key[t])
  BY <1>2, <1>5
<1> QED BY <1>4, <1>5 DEF KeptExplained

\* And so does the page under way.
LEMMA PageStays ==
    ASSUME WorkInv, PageExplained,
           run' = run, page' = page,
           run \in {"batch", "flush"} /\ (Driver \notin cancelled' \/ at'[Driver] = "returned") =>
               Driver \notin cancelled \/ at[Driver] = "returned",
           run \in {"batch", "flush"} => \A t \in Attachment(page) :
               shown'[t] = "none" => shown[t] = "none",
           run \in {"batch", "flush"} => \A u \in Attachments :
               shown[u] = "undownloaded" => shown'[u] = "undownloaded",
           \A k \in Keys : Coming(k) => Coming(k)',
           run \in {"batch", "flush"} /\ (Driver \notin cancelled' \/ at'[Driver] = "returned") =>
               \A u \in Attachments : Pending(u) =>
                   Pending(u)' \/ Coming(Key[u])'
                   \/ (u \in Attachment(page) /\ shown'[u] = "undownloaded")
    PROVE  PageExplained'
<1> SUFFICES ASSUME run \in {"batch", "flush"},
                    Driver \notin cancelled' \/ at'[Driver] = "returned",
                    NEW t \in Attachment(page), shown'[t] = "none"
             PROVE  Witnessed(page, t)' \/ Coming(Key[t])'
                    \/ \E u \in Attachments : Key[u] = Key[t] /\ Pending(u)'
  BY DEF PageExplained
<1>1. page \in DOMAIN Pages /\ page \in Nat /\ 1 <= page
  BY PipelineConstants DEF WorkInv, Phases, PipelineTypes
<1>2. t \in Attachments /\ Key[t] \in Keys /\ shown[t] = "none"
  BY <1>1, PageType, KeyType
<1>3. \/ Witnessed(page, t) \/ Coming(Key[t])
      \/ \E u \in Attachments : Key[u] = Key[t] /\ Pending(u)
  BY <1>2 DEF PageExplained
<1>4. CASE Witnessed(page, t)
  <2>1. \A j \in 1..page : Attachment(j) \subseteq Attachments
    BY <1>1, PageType, PipelineConstants
  <2> QED BY <1>4, <2>1 DEF Witnessed
<1>5. CASE Coming(Key[t])
  BY <1>2, <1>5
<1>6. ASSUME NEW u \in Attachments, Key[u] = Key[t], Pending(u)
      PROVE  Witnessed(page, t)' \/ Coming(Key[t])'
             \/ \E v \in Attachments : Key[v] = Key[t] /\ Pending(v)'
  <2>1. CASE u \in Attachment(page) /\ shown'[u] = "undownloaded"
    <3>1. page \in 1..page
      BY <1>1
    <3> QED BY <1>6, <2>1, <3>1 DEF Witnessed
  <2> QED BY <1>6, <2>1
<1> QED BY <1>3, <1>4, <1>5, <1>6

\* What is not pending and not on the way.
LEMMA Elsewhere ==
    ASSUME WorkInv, NEW t \in Attachments
    PROVE  /\ Pending(t) <=> t \in Queued \cup Waved
           /\ InJobs(t) => ~Pending(t)
<1>1. InJobs(t) => ~Pending(t)
  BY DEF WorkInv, Whereabouts, Pending
<1>2. t \in Queued \cup Waved => Pending(t)
  BY DEF WorkInv, Whereabouts, Pending
<1>3. ASSUME Pending(t) PROVE t \in Queued \cup Waved
  <2>1. PICK c \in Callers : t \in Range(queue[c]) \cup Range(wave[c])
    BY <1>3, KeyType DEF WorkInv, CoordinatorInv, Owned
  <2>2. c = Driver
    BY <2>1 DEF WorkInv, OfPage
  <2> QED BY <2>1, <2>2 DEF Queued, Waved
<1> QED BY <1>1, <1>2, <1>3

(***************************************************************************)
(* The worker                                                              *)
(***************************************************************************)

\* The invariant is kept when the action is DropJob.
LEMMA DropJobKeeps == ASSUME ShownInv, DropJob PROVE ShownInv'
<1> DEFINE h == Head(jobs)
<1>1. /\ jobs \in Seq(Attachments) /\ jobs # <<>> /\ worker = None /\ Ended
      /\ jobs' = Tail(jobs) /\ results' = [results EXCEPT ![Key[h]] = "interrupted"]
      /\ temps' = temps \ {h}
      /\ UNCHANGED <<coordinator, mode, run, page, kept, complete, claimed, worker, shown, cache>>
  BY DEF DropJob, ShownInv, WorkInv, PipelineTypes
<1>2. /\ h \in Attachments /\ Tail(jobs) \in Seq(Attachments)
      /\ Range(jobs) = {h} \cup Range(Tail(jobs)) /\ Len(Tail(jobs)) = Len(jobs) - 1
      /\ Distinct(Tail(jobs)) /\ h \notin Range(Tail(jobs))
  BY <1>1, TailFacts DEF ShownInv, WorkInv, Whereabouts
<1> HIDE DEF h
<1>3. UNCHANGED <<at, queue, wave, state, gate, batch, cancelled>>
  BY <1>1 DEF coordinator
<1>4. \A t \in Attachments : InJobs(t)' <=> InJobs(t) /\ t # h
  BY <1>1, <1>2, KeyType DEF InJobs
<1>5. \A t \in Attachments : OnTheWay(t)' <=> OnTheWay(t) /\ t # h
  BY <1>2, <1>3, <1>4, Elsewhere DEF ShownInv, OnTheWay, Pending, InJobs
<1>6. /\ results' \in [Keys -> Outcomes] /\ OneForKey' /\ ClaimsKept'
      /\ \A k \in Keys : Coming(k) => Coming(k)'
  BY <1>1, <1>2, <1>4, <1>5, Answered DEF ShownInv, OnTheWay, InJobs, Outcomes
<1>7. CoordinatorInv'
  BY <1>3, CoordinatorStays DEF ShownInv, WorkInv, CoordinatorInv, CoordinatorTypes
<1>8. PipelineTypes'
  <2>1. Len(jobs') <= QueueCapacity
    BY <1>1, <1>2, PipelineConstants DEF ShownInv, WorkInv, PipelineTypes
  <2> QED BY <1>1, <1>2, <1>6, <2>1 DEF ShownInv, WorkInv, PipelineTypes
<1>9. ~Ending
  BY <1>1 DEF ShownInv, WorkInv, Phases, Idle
<1>10. Phases' /\ OfPage' /\ TempsKept'
  BY <1>1, <1>2, <1>3, <1>9
     DEF ShownInv, WorkInv, Phases, OfPage, TempsKept, Ending, Outside, Queued, Waved, Attachment
<1>11. Whereabouts'
  BY <1>1, <1>2, <1>3, <1>4 DEF ShownInv, WorkInv, Whereabouts, Queued, Waved, Pending
<1>12. Fresh' /\ Uninterrupted' /\ InterruptionEnds'
  BY <1>1, <1>3
     DEF ShownInv, WorkInv, Fresh, Planning, Uninterrupted, InterruptionEnds, Ended
<1>13. WorkInv'
  BY <1>6, <1>7, <1>8, <1>10, <1>11, <1>12 DEF WorkInv
<1>14. KeptExplained'
  BY <1>1, <1>6, <1>9, KeptStays DEF ShownInv, Ending
<1>15. PageExplained'
  BY <1>1, <1>3, <1>6, PageStays DEF ShownInv, Pending
<1> QED BY <1>13, <1>14, <1>15 DEF ShownInv

\* The invariant is kept when the action is TakeJob.
LEMMA TakeJobKeeps == ASSUME ShownInv, TakeJob PROVE ShownInv'
<1> DEFINE h == Head(jobs)
<1>1. /\ jobs \in Seq(Attachments) /\ jobs # <<>> /\ worker = None
      /\ jobs' = Tail(jobs) /\ worker' = h
      /\ UNCHANGED <<coordinator, mode, run, page, kept, complete, claimed, results, shown,
                     cache, temps>>
  BY DEF TakeJob, ShownInv, WorkInv, PipelineTypes
<1>2. /\ h \in Attachments /\ Tail(jobs) \in Seq(Attachments)
      /\ Range(jobs) = {h} \cup Range(Tail(jobs)) /\ Len(Tail(jobs)) = Len(jobs) - 1
      /\ Distinct(Tail(jobs)) /\ h \notin Range(Tail(jobs))
  BY <1>1, TailFacts DEF ShownInv, WorkInv, Whereabouts
<1> HIDE DEF h
<1>3. UNCHANGED <<at, queue, wave, state, gate, batch, cancelled>>
  BY <1>1 DEF coordinator
<1>4. \A t \in Attachments : InJobs(t)' <=> InJobs(t)
  BY <1>1, <1>2, KeyType DEF InJobs
<1>5. \A t \in Attachments : OnTheWay(t)' <=> OnTheWay(t)
  BY <1>3, <1>4 DEF OnTheWay, Pending
<1>6. OneForKey' /\ ClaimsKept' /\ \A k \in Keys : Coming(k) => Coming(k)'
  BY <1>1, <1>4, <1>5, GoesOn DEF ShownInv, Coming
<1>7. CoordinatorInv'
  BY <1>3, CoordinatorStays DEF ShownInv, WorkInv, CoordinatorInv, CoordinatorTypes
<1>8. PipelineTypes'
  <2>1. Len(jobs') <= QueueCapacity
    BY <1>1, <1>2, PipelineConstants DEF ShownInv, WorkInv, PipelineTypes
  <2> QED BY <1>1, <1>2, <2>1 DEF ShownInv, WorkInv, PipelineTypes
<1>9. ~Ending
  BY <1>1 DEF ShownInv, WorkInv, Phases, Idle
<1>10. Phases' /\ OfPage' /\ TempsKept'
  BY <1>1, <1>2, <1>3, <1>9, KeyType
     DEF ShownInv, WorkInv, Phases, OfPage, TempsKept, Ending, Outside, Queued, Waved, Attachment,
         PipelineTypes
<1>11. Whereabouts'
  BY <1>1, <1>2, <1>3, <1>4 DEF ShownInv, WorkInv, Whereabouts, Queued, Waved, Pending
<1>12. Fresh' /\ Uninterrupted' /\ InterruptionEnds'
  BY <1>1, <1>3 DEF ShownInv, WorkInv, Fresh, Planning, Uninterrupted, InterruptionEnds
<1>13. WorkInv'
  BY <1>6, <1>7, <1>8, <1>10, <1>11, <1>12 DEF WorkInv
<1>14. KeptExplained'
  BY <1>1, <1>6, <1>9, KeptStays DEF ShownInv, Ending
<1>15. PageExplained'
  BY <1>1, <1>3, <1>6, PageStays DEF ShownInv, Pending
<1> QED BY <1>13, <1>14, <1>15 DEF ShownInv

\* The invariant is kept when the action is FinishJob.
LEMMA FinishJobKeeps == ASSUME ShownInv, FinishJob PROVE ShownInv'
<1>1. /\ worker \in Attachments /\ worker' = None /\ temps' = temps \ {worker}
      /\ UNCHANGED <<coordinator, mode, run, page, kept, complete, claimed, jobs, shown>>
  BY DEF FinishJob, ShownInv, WorkInv, PipelineTypes
<1>2. PICK outcome \in {"text", "error", "interrupted"} :
         /\ results' = [results EXCEPT ![Key[worker]] = outcome]
         /\ cache' = IF outcome = "text" THEN cache \cup {Key[worker]} ELSE cache
         /\ outcome = "interrupted" => Ended
  BY DEF FinishJob
<1>3. UNCHANGED <<at, queue, wave, state, gate, batch, cancelled>>
  BY <1>1 DEF coordinator
<1>4. \A t \in Attachments : InJobs(t)' <=> InJobs(t) /\ t # worker
  BY <1>1, KeyType DEF InJobs, ShownInv, WorkInv, Whereabouts
<1>5. \A t \in Attachments : OnTheWay(t)' <=> OnTheWay(t) /\ t # worker
  BY <1>1, <1>3, <1>4, Elsewhere DEF ShownInv, OnTheWay, Pending, InJobs
<1>6. /\ results' \in [Keys -> Outcomes] /\ OneForKey' /\ ClaimsKept'
      /\ \A k \in Keys : Coming(k) => Coming(k)'
  BY <1>1, <1>2, <1>4, <1>5, Answered DEF ShownInv, OnTheWay, InJobs, Outcomes
<1>7. CoordinatorInv'
  BY <1>3, CoordinatorStays DEF ShownInv, WorkInv, CoordinatorInv, CoordinatorTypes
<1>8. PipelineTypes'
  <2>1. cache' \subseteq Keys
    BY <1>1, <1>2, KeyType DEF ShownInv, WorkInv, PipelineTypes
  <2> QED BY <1>1, <1>6, <2>1 DEF ShownInv, WorkInv, PipelineTypes
<1>9. ~Ending
  BY <1>1, KeyType DEF ShownInv, WorkInv, Phases, Idle
<1>10. Phases' /\ OfPage' /\ TempsKept'
  BY <1>1, <1>3, <1>9
     DEF ShownInv, WorkInv, Phases, OfPage, TempsKept, Ending, Outside, Queued, Waved, Attachment
<1>11. Whereabouts'
  <2>1. None \notin Range(jobs)
    BY RangeType, KeyType DEF ShownInv, WorkInv, PipelineTypes
  <2> QED BY <1>1, <1>3, <1>4, <2>1 DEF ShownInv, WorkInv, Whereabouts, Queued, Waved, Pending
<1>12. Fresh' /\ Uninterrupted'
  BY <1>1, <1>3 DEF ShownInv, WorkInv, Fresh, Planning, Uninterrupted
<1>13. InterruptionEnds'
  <2>1. CASE Ended
    BY <1>1, <1>3, <2>1 DEF InterruptionEnds, Ended
  <2>2. CASE outcome # "interrupted"
    <3>1. \A k \in Keys : results'[k] = "interrupted" => results[k] = "interrupted"
      BY <1>2, <2>2 DEF ShownInv, WorkInv, PipelineTypes
    <3> QED BY <1>1, <1>3, <3>1 DEF InterruptionEnds, ShownInv, WorkInv
  <2> QED BY <1>2, <2>1, <2>2
<1>14. WorkInv'
  BY <1>6, <1>7, <1>8, <1>10, <1>11, <1>12, <1>13 DEF WorkInv
<1>15. KeptExplained'
  BY <1>1, <1>6, <1>9, KeptStays DEF ShownInv, Ending
<1>16. PageExplained'
  BY <1>1, <1>3, <1>6, PageStays DEF ShownInv, Pending
<1> QED BY <1>14, <1>15, <1>16 DEF ShownInv

(***************************************************************************)
(* The steps of the coordinator beside the walk                            *)
(***************************************************************************)

\* What a call leaves alone.
LEMMA CallLocal ==
    ASSUME CoordinatorInv, NEW c \in Callers,
           \/ CallStep(c) \/ LeaveHistory(c) \/ After(c)
           \/ CancelWaiting(c) \/ CancelRest(c) \/ EndFailed(c)
    PROVE  LET mine == Range(queue[c]) \cup Range(wave[c])
           IN  /\ \A d \in Callers \ {c} : /\ at'[d] = at[d] /\ queue'[d] = queue[d]
                                           /\ wave'[d] = wave[d]
               /\ Range(queue'[c]) \cup Range(wave'[c]) \subseteq mine
               /\ \A t \in Tasks \ mine : state'[t] = state[t]
               /\ cancelled' = cancelled
<1> DEFINE mine == Range(queue[c]) \cup Range(wave[c])
           Local == /\ \A d \in Callers \ {c} : /\ at'[d] = at[d] /\ queue'[d] = queue[d]
                                                /\ wave'[d] = wave[d]
                    /\ Range(queue'[c]) \cup Range(wave'[c]) \subseteq mine
                    /\ \A t \in Tasks \ mine : state'[t] = state[t]
                    /\ cancelled' = cancelled
<1>1. CoordinatorTypes
  BY DEF CoordinatorInv
<1>2. CASE EnterHistory(c) \/ EnterBatch(c) \/ EndBatch(c) \/ EnterGate(c)
           \/ EndTransfers(c) \/ EndWave(c) \/ LeaveHistory(c)
  BY <1>1, <1>2 DEF EnterHistory, EnterBatch, EndBatch, EnterGate, EndTransfers, EndWave,
                    LeaveHistory, Goes, CoordinatorTypes
<1>3. CASE StartWave(c)
  <2>1. UNCHANGED <<state, cancelled>> /\ Goes(c, "waitGate")
    BY <1>3 DEF StartWave
  <2>2. Range(queue[c]) = Range(wave'[c]) \cup Range(queue'[c])
    BY <1>3, Waving
  <2>3. \A d \in Callers \ {c} : queue'[d] = queue[d] /\ wave'[d] = wave[d]
    BY <1>3, Waving
  <2> QED BY <1>1, <2>1, <2>2, <2>3, Going DEF Places
<1>4. CASE Reserve(c) \/ ReserveFails(c)
  BY <1>1, <1>4 DEF Reserve, ReserveFails, Goes, Become, CoordinatorTypes
<1>5. CASE CancelWaiting(c) \/ CancelRest(c) \/ EndFailed(c)
  <2>1. /\ CancelQueue(c) /\ Goes(c, "failed") /\ UNCHANGED <<wave, cancelled>>
    BY <1>5 DEF CancelWaiting, CancelRest, EndFailed
  <2>2. queue'[c] = <<>> /\ \A d \in Callers \ {c} : queue'[d] = queue[d]
    BY <1>1, <2>1 DEF CancelQueue, CoordinatorTypes
  <2>3. \A t \in Tasks \ mine : state'[t] = state[t]
    BY <1>1, <2>1 DEF CancelQueue, Become
  <2> QED BY <1>1, <2>1, <2>2, <2>3, Going, EmptyRange DEF Places
<1>6. CASE After(c)
  <2>1. /\ wave[c] \in Seq(Tasks) /\ wave[c] # <<>> /\ UNCHANGED <<at, queue, cancelled>>
        /\ Become({Head(wave[c])}, "settled") /\ wave' = [wave EXCEPT ![c] = Tail(@)]
    BY <1>1, <1>6 DEF After, CoordinatorTypes
  <2>2. Head(wave[c]) \in Range(wave[c]) /\ Range(Tail(wave[c])) \subseteq Range(wave[c])
    BY <2>1, TailFacts
  <2>3. \A t \in Tasks \ mine : state'[t] = state[t]
    BY <1>1, <2>1, <2>2 DEF Become
  <2>4. wave'[c] = Tail(wave[c]) /\ \A d \in Callers \ {c} : wave'[d] = wave[d]
    BY <1>1, <2>1 DEF CoordinatorTypes
  <2> QED BY <2>1, <2>2, <2>3, <2>4
<1> QED BY <1>2, <1>3, <1>4, <1>5, <1>6 DEF CallStep

\* A step of the coordinator that ends no task of the walk.
LEMMA Beside ==
    ASSUME ShownInv, CoordinatorInv',
           UNCHANGED <<mode, run, page, kept, complete, claimed, jobs, worker, results, shown,
                       cache>>,
           temps' \subseteq temps \cup Waved', temps' \subseteq Attachments,
           \/ at'[Driver] = at[Driver]
           \/ run = "reading" /\ at'[Driver] \in AtRest
           \/ run = "batch" /\ at'[Driver] \notin {"waitHistory", "history"},
           run # "reading" /\ (Driver \notin cancelled' \/ at'[Driver] = "returned") =>
               Driver \notin cancelled \/ at[Driver] = "returned",
           cancelled \subseteq cancelled',
           Queued' \cup Waved' \subseteq Queued \cup Waved, Queued' \cap Waved' = {},
           Waved \subseteq Waved', Distinct(queue'[Driver]), Distinct(wave'[Driver]),
           \A c \in Callers \ {Driver} :
               (Range(queue'[c]) \cup Range(wave'[c])) \cap Attachments = {},
           \A t \in Attachments :
               /\ Pending(t)' <=> Pending(t)
               /\ ~Pending(t) => state'[t] = state[t]
               /\ t \in Queued' => state'[t] = "queued"
    PROVE  ShownInv'
<1>1. \A t \in Attachments : InJobs(t)' <=> InJobs(t)
  BY DEF InJobs
<1>2. \A t \in Attachments : OnTheWay(t)' <=> OnTheWay(t)
  BY <1>1 DEF OnTheWay
<1>3. OneForKey' /\ ClaimsKept' /\ \A k \in Keys : Coming(k) => Coming(k)'
  BY <1>1, <1>2, GoesOn DEF ShownInv, Coming
<1>4. PipelineTypes'
  BY DEF ShownInv, WorkInv, PipelineTypes
<1>5. Phases'
  BY DEF ShownInv, WorkInv, Phases, Ending, Outside, Idle, AtRest
<1>6. OfPage'
  BY DEF ShownInv, WorkInv, OfPage, Queued, Waved, Attachment
<1>7. Queued \cup Waved \subseteq Attachments
  BY PageType DEF ShownInv, WorkInv, OfPage, Phases
<1>8. Whereabouts'
  <2>1. \A t \in Queued' \cup Waved' : t \in Attachments /\ Pending(t)
    BY <1>7 DEF ShownInv, WorkInv, Whereabouts, Pending
  <2>2. \A t \in Attachments : InJobs(t)' => state'[t] = "settled"
    BY <1>1 DEF ShownInv, WorkInv, Whereabouts, Pending
  <2> QED BY <2>1, <2>2 DEF ShownInv, WorkInv, Whereabouts
<1>9. TempsKept'
  BY DEF ShownInv, WorkInv, TempsKept
<1>10. Fresh'
  <2>1. \A i \in DOMAIN Pages : \A t \in Attachment(i) : state[t] = "new" => state'[t] = "new"
    BY PageType DEF Pending
  <2> QED BY <2>1 DEF ShownInv, WorkInv, Fresh, Planning, Attachment
<1>11. InterruptionEnds' /\ Uninterrupted'
  BY DEF ShownInv, WorkInv, InterruptionEnds, Uninterrupted
<1>12. WorkInv'
  BY <1>3, <1>4, <1>5, <1>6, <1>8, <1>9, <1>10, <1>11 DEF WorkInv
<1>13. KeptExplained'
  BY <1>3, KeptStays DEF ShownInv, Ending
<1>14. PageExplained'
  BY <1>3, PageStays DEF ShownInv
<1> QED BY <1>12, <1>13, <1>14 DEF ShownInv

\* A task is transferred while the driver's place stays.
LEMMA TransferBeside ==
    ASSUME ShownInv, NEW t \in Tasks, Transfer(t), UNCHANGED pipeline PROVE ShownInv'
<1>1. CoordinatorInv'
  BY TransferKeeps DEF ShownInv, WorkInv
<1>2. /\ UNCHANGED <<at, queue, wave, gate, batch, cancelled>>
      /\ state[t] = "moving" /\ state'[t] \in {"moved", "failed"}
      /\ \A u \in Tasks \ {t} : state'[u] = state[u]
  BY DEF Transfer, ShownInv, WorkInv, CoordinatorInv, CoordinatorTypes
<1>3. \A u \in Attachments :
          /\ Pending(u)' <=> Pending(u)
          /\ ~Pending(u) => state'[u] = state[u]
          /\ u \in Queued' => state'[u] = "queued"
  BY <1>2, KeyType DEF Pending, ShownInv, WorkInv, Whereabouts, Queued
<1> QED BY <1>1, <1>2, <1>3, Beside
      DEF pipeline, ShownInv, WorkInv, OfPage, Queued, Waved, PipelineTypes

\* A caller is cancelled while the driver's place stays.
LEMMA CancelBeside ==
    ASSUME ShownInv, NEW c \in Callers, Cancel(c), UNCHANGED pipeline PROVE ShownInv'
<1>1. UNCHANGED <<at, queue, wave, state, gate, batch>> /\ cancelled' = cancelled \cup {c}
  BY DEF Cancel
<1>2. CoordinatorInv'
  BY <1>1, CoordinatorStays DEF ShownInv, WorkInv, CoordinatorInv, CoordinatorTypes
<1>3. \A u \in Attachments :
          /\ Pending(u)' <=> Pending(u)
          /\ ~Pending(u) => state'[u] = state[u]
          /\ u \in Queued' => state'[u] = "queued"
  BY <1>1 DEF Pending, ShownInv, WorkInv, Whereabouts, Queued
<1> QED BY <1>1, <1>2, <1>3, Beside
      DEF pipeline, ShownInv, WorkInv, OfPage, Queued, Waved, PipelineTypes

\* What other users of the coordinator do is beside the walk.
LEMMA OtherBeside ==
    ASSUME ShownInv, NEW c \in Callers \ {Driver}, OtherStep(c) \/ OtherHistory(c)
    PROVE  ShownInv'
<1> DEFINE mine == Range(queue[c]) \cup Range(wave[c])
           Aside == /\ at'[Driver] = at[Driver] /\ queue'[Driver] = queue[Driver]
                    /\ wave'[Driver] = wave[Driver] /\ cancelled' = cancelled
                    /\ \A d \in Callers \ {Driver} :
                           (Range(queue'[d]) \cup Range(wave'[d])) \cap Attachments = {}
                    /\ \A t \in Attachments : state'[t] = state[t]
                    /\ CoordinatorInv'
<1>1. /\ CoordinatorInv /\ Driver \in Callers \ {c} /\ UNCHANGED pipeline
      /\ \A d \in Callers \ {Driver} :
             (Range(queue[d]) \cup Range(wave[d])) \cap Attachments = {}
      /\ Range(Extra[c]) \cap Attachments = {} /\ Extra[c] \in Seq(Tasks)
  <2>1. Extra[c] \in Seq(Tasks \ Attachments)
    BY PipelineConstants
  <2>2. Range(Extra[c]) \cap Attachments = {} /\ Extra[c] \in Seq(Tasks)
    BY <2>1, RangeType
  <2> QED BY <2>2, PipelineConstants DEF ShownInv, WorkInv, OfPage, OtherStep, OtherHistory
<1>2. ASSUME OtherHistory(c) PROVE Aside
  <2>1. AskHistory(c)
    BY <1>2 DEF OtherHistory
  <2>2. CoordinatorInv'
    BY <1>1, <2>1, AskHistoryKeeps
  <2>3. Aside
    BY <1>1, <2>1, <2>2 DEF AskHistory, Goes, CoordinatorInv, CoordinatorTypes
  <2> QED BY <2>3
<1>3. ASSUME Submit(c, Extra[c]) PROVE Aside
  <2>1. CoordinatorInv'
    BY <1>1, <1>3, SubmitKeeps
  <2>2. /\ UNCHANGED <<wave, cancelled>> /\ queue' = [queue EXCEPT ![c] = Extra[c]]
        /\ Become(Range(Extra[c]), "queued")
        /\ at' = [at EXCEPT ![c] = IF Extra[c] = <<>> THEN "returned" ELSE "waitBatch"]
    BY <1>3 DEF Submit, Goes
  <2>3. at'[Driver] = at[Driver]
    BY <1>1, <2>2 DEF CoordinatorInv, CoordinatorTypes
  <2>4. queue'[c] = Extra[c] /\ \A d \in Callers \ {c} : queue'[d] = queue[d]
    BY <2>2 DEF ShownInv, WorkInv, CoordinatorInv, CoordinatorTypes
  <2>5. \A t \in Attachments : state'[t] = state[t]
    BY <1>1, <2>2, KeyType DEF Become
  <2>6. Aside
    BY <1>1, <2>1, <2>2, <2>3, <2>4, <2>5
  <2> QED BY <2>6
<1>4. ASSUME \/ CallStep(c) \/ LeaveHistory(c) \/ After(c)
             \/ CancelWaiting(c) \/ CancelRest(c) \/ EndFailed(c)
      PROVE  Aside
  <2>1. CoordinatorInv'
    BY <1>1, <1>4, CallKeeps
  <2>2. /\ \A d \in Callers \ {c} : /\ at'[d] = at[d] /\ queue'[d] = queue[d]
                                    /\ wave'[d] = wave[d]
        /\ Range(queue'[c]) \cup Range(wave'[c]) \subseteq mine
        /\ \A t \in Tasks \ mine : state'[t] = state[t]
        /\ cancelled' = cancelled
    BY <1>1, <1>4, CallLocal
  <2>3. \A t \in Attachments : t \in Tasks \ mine
    BY <1>1, KeyType
  <2>4. Aside
    BY <1>1, <2>1, <2>2, <2>3
  <2> QED BY <2>4
<1>5. Aside
  BY <1>2, <1>3, <1>4 DEF OtherStep, OtherHistory
<1>6. \A u \in Attachments :
          /\ Pending(u)' <=> Pending(u)
          /\ ~Pending(u) => state'[u] = state[u]
          /\ u \in Queued' => state'[u] = "queued"
  BY <1>5 DEF Pending, ShownInv, WorkInv, Whereabouts, Queued
<1> HIDE DEF mine
<1> QED BY <1>1, <1>5, <1>6, Beside
      DEF pipeline, ShownInv, WorkInv, OfPage, Queued, Waved, PipelineTypes

(***************************************************************************)
(* The driver: its calls and the hooks of its tasks                        *)
(***************************************************************************)

\* Where the driver is decides what its own queue and wave may hold.
LEMMA InTheCall ==
    ASSUME ShownInv
    PROVE  /\ Driver \in Callers
           /\ Queued \cup Waved \subseteq Attachments
           /\ at[Driver] \in {"waitHistory", "history"} => run = "reading"
           /\ at[Driver] \in {"waitBatch"} \cup InBatch => run = "batch"
           /\ \A c \in Callers \ {Driver} :
                  (Range(queue[c]) \cup Range(wave[c])) \cap Attachments = {}
<1>1. Driver \in Callers
  BY PipelineConstants
<1>2. Queued \cup Waved \subseteq Attachments
  BY PageType DEF ShownInv, WorkInv, OfPage, Phases
<1> QED BY <1>1, <1>2 DEF ShownInv, WorkInv, OfPage, Phases, Outside, AtRest, InBatch

\* The driver's own steps.
LEMMA DriverBeside == ASSUME ShownInv, DriverStep PROVE ShownInv'
<1>1. /\ CoordinatorInv /\ Driver \in Callers /\ UNCHANGED pipeline
      /\ at \in [Callers -> Places] /\ wave \in [Callers -> Seq(Tasks)]
  BY InTheCall DEF ShownInv, WorkInv, CoordinatorInv, CoordinatorTypes, DriverStep
<1>2. \/ CallStep(Driver) \/ LeaveHistory(Driver)
  BY DEF DriverStep, CallStep
<1>3. CoordinatorInv'
  BY <1>1, <1>2, CallKeeps
<1>4. /\ \A d \in Callers \ {Driver} : queue'[d] = queue[d] /\ wave'[d] = wave[d]
      /\ Queued' \cup Waved' \subseteq Queued \cup Waved /\ cancelled' = cancelled
  BY <1>1, <1>2, CallLocal DEF Queued, Waved
<1> DEFINE Allowed ==
             \/ at'[Driver] = at[Driver]
             \/ run = "reading" /\ at'[Driver] \in AtRest
             \/ run = "batch" /\ at'[Driver] \notin {"waitHistory", "history"}
           Call == /\ Allowed
                   /\ at'[Driver] = "returned" =>
                          Driver \notin cancelled \/ at[Driver] = "returned" \/ run = "reading"
                   /\ Queued' \cap Waved' = {} /\ Waved \subseteq Waved'
                   /\ Distinct(queue'[Driver]) /\ Distinct(wave'[Driver])
                   /\ \A t \in Attachments :
                         /\ Pending(t)' <=> Pending(t)
                         /\ ~Pending(t) => state'[t] = state[t]
                         /\ t \in Queued' => state'[t] = "queued"
<1>5. ASSUME EnterHistory(Driver) \/ LeaveHistory(Driver) PROVE Call
  <2>1. UNCHANGED <<queue, wave, state>> /\ run = "reading" /\ at'[Driver] \in AtRest
    BY <1>1, <1>5, InTheCall DEF EnterHistory, LeaveHistory, Goes, AtRest
  <2> QED BY <2>1 DEF AtRest, ShownInv, WorkInv, OfPage, Whereabouts, Queued, Waved, Pending
<1>6. ASSUME EnterBatch(Driver) \/ EnterGate(Driver) \/ EndTransfers(Driver) \/ EndWave(Driver)
      PROVE  Call
  <2>1. /\ UNCHANGED <<queue, wave, state>> /\ run = "batch"
        /\ at'[Driver] \in {"loop", "reserve", "after"}
    BY <1>1, <1>6, InTheCall
       DEF EnterBatch, EnterGate, EndTransfers, EndWave, Goes, InBatch
  <2> QED BY <2>1 DEF ShownInv, WorkInv, OfPage, Whereabouts, Queued, Waved, Pending
<1>7. ASSUME EndBatch(Driver) PROVE Call
  <2>1. /\ UNCHANGED <<queue, wave, state>> /\ run = "batch"
        /\ at'[Driver] = IF Driver \in cancelled THEN "failed" ELSE "returned"
    BY <1>1, <1>7, InTheCall DEF EndBatch, Goes, InBatch
  <2> QED BY <2>1 DEF ShownInv, WorkInv, OfPage, Whereabouts, Queued, Waved, Pending
<1>8. ASSUME StartWave(Driver) PROVE Call
  <2>1. state' = state /\ run = "batch" /\ at'[Driver] = "waitGate"
    BY <1>1, <1>8, InTheCall DEF StartWave, Goes, InBatch
  <2>2. /\ Distinct(wave'[Driver]) /\ Distinct(queue'[Driver])
        /\ Queued' \cap Waved' = {} /\ Waved = {} /\ Queued' \subseteq Queued
    BY <1>1, <1>8, Waving, EmptyRange DEF Queued, Waved, ShownInv, WorkInv, OfPage
  <2> QED BY <2>1, <2>2 DEF ShownInv, WorkInv, Whereabouts, Pending
<1>9. ASSUME ReserveFails(Driver) PROVE Call
  <2>1. /\ UNCHANGED <<queue, wave>> /\ run = "batch" /\ at'[Driver] = "afterFailed"
        /\ Become(Waved, "failed")
    BY <1>1, <1>9, InTheCall DEF ReserveFails, Goes, InBatch, Waved
  <2>2. \A t \in Attachments : state'[t] = IF t \in Waved THEN "failed" ELSE state[t]
    BY <2>1, KeyType DEF Become
  <2>3. Queued \cap Waved = {} /\ Distinct(queue[Driver]) /\ Distinct(wave[Driver])
        /\ Queued' = Queued /\ Waved' = Waved
    BY <2>1 DEF ShownInv, WorkInv, OfPage, Queued, Waved
  <2>4. \A t \in Attachments :
            /\ Pending(t)' <=> Pending(t)
            /\ ~Pending(t) => state'[t] = state[t]
            /\ t \in Queued' => state'[t] = "queued"
    BY <2>2, <2>3, Elsewhere DEF ShownInv, WorkInv, Whereabouts, Pending
  <2> QED BY <2>1, <2>3, <2>4
<1>10. Call
  BY <1>5, <1>6, <1>7, <1>8, <1>9 DEF DriverStep
<1> QED BY <1>1, <1>3, <1>4, <1>10, InTheCall, Beside
      DEF pipeline, ShownInv, WorkInv, PipelineTypes

\* The temporary files are created when the transfers begin.
LEMMA ReserveInputsBeside == ASSUME ShownInv, ReserveInputs PROVE ShownInv'
<1>1. /\ CoordinatorInv /\ Driver \in Callers /\ Reserve(Driver)
      /\ temps' = temps \cup Waved
      /\ UNCHANGED <<mode, run, page, kept, complete, claimed, jobs, worker, results, shown, cache>>
  BY InTheCall DEF ShownInv, WorkInv, ReserveInputs, Waved
<1>2. /\ UNCHANGED <<queue, wave, cancelled>> /\ run = "batch" /\ at'[Driver] = "transfer"
      /\ Become(Waved, "moving")
  BY <1>1, InTheCall DEF Reserve, Goes, InBatch, Waved, CoordinatorInv, CoordinatorTypes
<1>3. CoordinatorInv'
  BY <1>1, ReserveKeeps
<1>4. \A t \in Attachments : state'[t] = IF t \in Waved THEN "moving" ELSE state[t]
  BY <1>2, KeyType DEF Become
<1>5. /\ Queued \cap Waved = {} /\ Distinct(queue[Driver]) /\ Distinct(wave[Driver])
      /\ Queued' = Queued /\ Waved' = Waved
  BY <1>2 DEF ShownInv, WorkInv, OfPage, Queued, Waved
<1>6. \A t \in Attachments :
          /\ Pending(t)' <=> Pending(t)
          /\ ~Pending(t) => state'[t] = state[t]
          /\ t \in Queued' => state'[t] = "queued"
  BY <1>4, <1>5, Elsewhere DEF ShownInv, WorkInv, Whereabouts, Pending
<1>7. temps' \subseteq temps \cup Waved' /\ temps' \subseteq Attachments
  BY <1>1, <1>5, InTheCall DEF ShownInv, WorkInv, PipelineTypes
<1> QED BY <1>1, <1>2, <1>3, <1>5, <1>6, <1>7, InTheCall, Beside

\* The tasks that were not started give their claims back.
LEMMA CancelTasksKeep == ASSUME ShownInv, CancelTasks PROVE ShownInv'
<1>1. /\ CoordinatorInv /\ Driver \in Callers
      /\ CancelWaiting(Driver) \/ CancelRest(Driver) \/ EndFailed(Driver)
      /\ claimed' = claimed \ KeysOf(Queued) /\ Label(Queued, "undownloaded")
      /\ UNCHANGED <<mode, run, page, kept, complete, jobs, worker, results, cache, temps>>
  BY InTheCall DEF ShownInv, WorkInv, CancelTasks, Queued
<1>2. CoordinatorInv'
  BY <1>1, CancellingKeeps
<1>3. /\ UNCHANGED <<wave, cancelled>> /\ at'[Driver] = "failed" /\ wave[Driver] = <<>>
      /\ run = "batch" /\ CancelQueue(Driver)
  BY <1>1, InTheCall
     DEF CancelWaiting, CancelRest, EndFailed, Goes, InBatch, ShownInv, WorkInv, CoordinatorInv,
         CoordinatorTypes, Waves, InWave
<1>4. /\ queue'[Driver] = <<>> /\ \A d \in Callers \ {Driver} : queue'[d] = queue[d]
      /\ Become(Queued, "cancelled")
  BY <1>1, <1>3 DEF CancelQueue, CoordinatorInv, CoordinatorTypes, Queued
<1>5. Queued' = {} /\ Waved' = {} /\ Waved = {} /\ Distinct(queue'[Driver]) /\ Distinct(wave'[Driver])
  BY <1>3, <1>4, EmptyRange DEF Queued, Waved
<1>6. \A t \in Attachments : state'[t] = IF t \in Queued THEN "cancelled" ELSE state[t]
  BY <1>4, KeyType DEF Become
<1>7. Queued \subseteq Attachments /\ Queued \subseteq Attachment(page) /\ page \in DOMAIN Pages
  BY <1>3, InTheCall DEF ShownInv, WorkInv, OfPage, Phases
<1>8. \A t \in Attachments : shown'[t] = IF t \in Queued THEN "undownloaded" ELSE shown[t]
  BY <1>1 DEF Label
<1>9. \A t \in Attachments : InJobs(t)' <=> InJobs(t)
  BY <1>1 DEF InJobs
<1>10. \A t \in Attachments : ~Pending(t)' /\ (Pending(t) <=> t \in Queued)
  BY <1>5, <1>6, Elsewhere DEF ShownInv, Pending
<1>11. \A t \in Attachments : OnTheWay(t)' <=> OnTheWay(t) /\ t \notin Queued
  BY <1>7, <1>9, <1>10, Elsewhere DEF ShownInv, OnTheWay
<1>12. OneForKey' /\ ClaimsKept'
  BY <1>1, <1>7, <1>10, <1>11, GivenBack DEF ShownInv, OnTheWay
<1>13. \A k \in Keys : Coming(k) => Coming(k)'
  BY <1>1, <1>9 DEF Coming
<1>14. PipelineTypes'
  <2>1. shown' \in [Attachments -> Labels]
    BY <1>1 DEF Label, Labels, ShownInv, WorkInv, PipelineTypes
  <2>2. claimed' \subseteq Keys
    BY <1>1 DEF ShownInv, WorkInv, PipelineTypes
  <2> QED BY <1>1, <2>1, <2>2 DEF ShownInv, WorkInv, PipelineTypes
<1>15. Phases' /\ OfPage' /\ TempsKept'
  BY <1>1, <1>3, <1>4, <1>5
     DEF ShownInv, WorkInv, Phases, OfPage, TempsKept, Ending, Outside
<1>16. Whereabouts'
  BY <1>1, <1>5, <1>6, <1>9, <1>10, Elsewhere DEF ShownInv, WorkInv, Whereabouts, Pending
<1>17. Fresh'
  <2> SUFFICES ASSUME NEW i \in DOMAIN Pages, i >= page + 1, NEW t \in Attachment(i)
               PROVE  state'[t] = "new" /\ shown'[t] = "none"
    BY <1>1, <1>3 DEF Fresh, Planning
  <2>1. state[t] = "new" /\ shown[t] = "none" /\ t \in Attachments
    BY <1>3, PageType DEF ShownInv, WorkInv, Fresh, Planning
  <2>2. t \notin Queued
    BY <1>10, <2>1 DEF Pending
  <2> QED BY <1>6, <1>8, <2>1, <2>2
<1>18. InterruptionEnds'
  BY <1>1, <1>3, <1>8 DEF ShownInv, WorkInv, InterruptionEnds
<1>19. \A i \in kept : i \in DOMAIN Pages /\ i # page /\ Attachment(i) \subseteq Attachments
  BY <1>7, PageType, PipelineConstants DEF ShownInv, WorkInv, PipelineTypes
<1>20. \A i \in kept : \A t \in Attachment(i) : shown'[t] = shown[t]
  BY <1>7, <1>8, <1>19, PagesApart
<1>21. Uninterrupted'
  BY <1>1, <1>20 DEF ShownInv, WorkInv, Uninterrupted
<1>22. WorkInv'
  BY <1>2, <1>12, <1>14, <1>15, <1>16, <1>17, <1>18, <1>21 DEF WorkInv
<1>23. \A t \in Attachments : shown[t] = "undownloaded" => shown'[t] = "undownloaded"
  BY <1>8
<1>24. KeptExplained'
  BY <1>1, <1>13, <1>20, <1>23, PageType, KeptStays DEF ShownInv, Ending
<1>25. PageExplained'
  <2>1. \A t \in Attachment(page) : shown'[t] = "none" => shown[t] = "none"
    BY <1>7, <1>8, PageType
  <2>2. \A u \in Attachments : Pending(u) => u \in Attachment(page) /\ shown'[u] = "undownloaded"
    BY <1>7, <1>8, <1>10
  <2>3. Driver \notin cancelled' \/ at'[Driver] = "returned" => Driver \notin cancelled
    BY <1>3
  <2> QED BY <1>1, <1>13, <1>23, <2>1, <2>2, <2>3, PageStays DEF ShownInv
<1> QED BY <1>22, <1>24, <1>25 DEF ShownInv

\* finishTranscriptionDownload, for each of its ends.
LEMMA AfterDownloadKeeps == ASSUME ShownInv, AfterDownload PROVE ShownInv'
<1>0. PICK h \in Tasks : h = Head(wave[Driver])
  BY InTheCall, TailFacts
     DEF ShownInv, WorkInv, CoordinatorInv, CoordinatorTypes, AfterDownload, After
<1>1. /\ CoordinatorInv /\ Driver \in Callers /\ After(Driver)
      /\ wave[Driver] \in Seq(Tasks) /\ wave[Driver] # <<>>
      /\ UNCHANGED <<at, queue, cancelled>> /\ UNCHANGED <<mode, run, page, kept, complete, worker, results, cache>>
      /\ Become({h}, "settled") /\ wave' = [wave EXCEPT ![Driver] = Tail(@)]
      /\ AfterFailure(h) \/ Enqueue(h) \/ EnqueueEnded(h)
  BY <1>0, InTheCall
     DEF ShownInv, WorkInv, CoordinatorInv, CoordinatorTypes, AfterDownload, After
<1>2. CoordinatorInv'
  BY <1>1, AfterKeeps
<1>3. /\ run = "batch" /\ page \in DOMAIN Pages /\ at[Driver] # "returned"
      /\ Queued \cup Waved \subseteq Attachment(page) /\ Queued \cap Waved = {}
      /\ Distinct(wave[Driver]) /\ Distinct(queue[Driver])
  <2>1. at[Driver] \in InBatch /\ at[Driver] # "returned"
    BY <1>1 DEF After, InBatch
  <2>2. Head(wave[Driver]) \in Waved
    BY <1>1, TailFacts DEF Waved
  <2> QED BY <2>1, <2>2, InTheCall DEF ShownInv, WorkInv, OfPage, Phases
<1>4. /\ h \in Attachments /\ h \in Attachment(page) /\ Waved = {h} \cup Range(Tail(wave[Driver]))
      /\ Distinct(Tail(wave[Driver])) /\ h \notin Range(Tail(wave[Driver]))
  <2>1. /\ Range(wave[Driver]) = {h} \cup Range(Tail(wave[Driver]))
        /\ Distinct(Tail(wave[Driver])) /\ h \notin Range(Tail(wave[Driver]))
    BY <1>0, <1>1, <1>3, TailFacts
  <2> QED BY <1>3, <2>1, InTheCall DEF Waved
<1>5. /\ wave'[Driver] = Tail(wave[Driver]) /\ \A d \in Callers \ {Driver} : wave'[d] = wave[d]
      /\ Waved' = Waved \ {h} /\ Queued' = Queued /\ h \notin Queued
  BY <1>1, <1>3, <1>4 DEF CoordinatorInv, CoordinatorTypes, Queued, Waved
<1>6. \A t \in Attachments : state'[t] = IF t = h THEN "settled" ELSE state[t]
  BY <1>1, KeyType DEF Become
<1>7. /\ Pending(h) /\ ~InJobs(h) /\ ~Pending(h)'
      /\ \A t \in Attachments : t # h => (Pending(t)' <=> Pending(t))
  <2>1. Pending(h) /\ ~InJobs(h)
    BY <1>4, Elsewhere DEF ShownInv
  <2>2. ~Pending(h)'
    BY <1>4, <1>6 DEF Pending
  <2>3. \A t \in Attachments : t # h => (Pending(t)' <=> Pending(t))
    BY <1>6 DEF Pending
  <2> QED BY <2>1, <2>2, <2>3
<1>8. /\ jobs \in Seq(Attachments) /\ shown \in [Attachments -> Labels]
      /\ Distinct(jobs) /\ worker \notin Range(jobs) /\ h \notin Range(jobs) /\ h # worker
      /\ Key[h] \in Keys
  BY <1>4, <1>7, KeyType DEF ShownInv, WorkInv, PipelineTypes, Whereabouts, InJobs
<1>9. \A i \in kept : i \in DOMAIN Pages /\ i # page /\ Attachment(i) \subseteq Attachments
  BY <1>3, PageType, PipelineConstants DEF ShownInv, WorkInv, PipelineTypes
<1>10. \A i \in kept : h \notin Attachment(i)
  BY <1>3, <1>4, <1>9, PagesApart
\* What each end does to the queue, the claims, the files and the record.
<1> DEFINE Ends == /\ PipelineTypes' /\ TempsKept' /\ OneForKey' /\ ClaimsKept'
                   /\ Distinct(jobs') /\ worker \notin Range(jobs')
                   /\ \A t \in Attachments : InJobs(t)' => InJobs(t) \/ t = h
                   /\ \A k \in Keys : Coming(k) => Coming(k)'
                   /\ \A t \in Attachments : t # h => shown'[t] = shown[t]
                   /\ shown[h] = "undownloaded" => shown'[h] = "undownloaded" \/ Driver \in cancelled
                   /\ shown'[h] = "interrupted" => shown[h] = "interrupted" \/ Driver \in cancelled
                   /\ shown'[h] = "none" => shown[h] = "none"
                   /\ Coming(Key[h])' \/ shown'[h] = "undownloaded" \/ Driver \in cancelled
<1>11. ASSUME AfterFailure(h) \/ EnqueueEnded(h) PROVE Ends
  <2>1. /\ claimed' = claimed \ {Key[h]} /\ temps' = temps \ {h} /\ jobs' = jobs
        /\ \/ Label({h}, "undownloaded")
           \/ Label({h}, "interrupted") /\ Driver \in cancelled
    BY <1>3, <1>11 DEF AfterFailure, EnqueueEnded, Ended
  <2>2. /\ shown' \in [Attachments -> Labels]
        /\ \A t \in Attachments : t # h => shown'[t] = shown[t]
        /\ \/ shown'[h] = "undownloaded"
           \/ shown'[h] = "interrupted" /\ Driver \in cancelled
    BY <1>4, <1>8, <2>1 DEF Label, Labels, Outcomes
  <2>3. \A t \in Attachments : InJobs(t)' <=> InJobs(t)
    BY <1>1, <2>1 DEF InJobs
  <2>4. \A t \in Attachments : OnTheWay(t)' <=> OnTheWay(t) /\ t \notin {h}
    BY <1>7, <2>3 DEF OnTheWay, InJobs
  <2>5. KeysOf({h}) = {Key[h]}
    BY DEF KeysOf
  <2>6. OneForKey' /\ ClaimsKept'
    BY <1>1, <1>4, <1>7, <2>1, <2>4, <2>5, GivenBack DEF ShownInv, OnTheWay
  <2>7. \A k \in Keys : Coming(k) => Coming(k)'
    BY <1>1, <2>3 DEF Coming
  <2>8. PipelineTypes'
    BY <1>1, <2>1, <2>2 DEF ShownInv, WorkInv, PipelineTypes
  <2>9. TempsKept'
    BY <1>1, <1>5, <2>1 DEF ShownInv, WorkInv, TempsKept
  <2> QED BY <1>8, <2>1, <2>2, <2>3, <2>6, <2>7, <2>8, <2>9
<1>12. ASSUME Enqueue(h) PROVE Ends
  <2>1. /\ jobs' = Append(jobs, h) /\ Len(jobs) < QueueCapacity
        /\ UNCHANGED <<claimed, temps, shown>>
    BY <1>12 DEF Enqueue
  <2>2. /\ jobs' \in Seq(Attachments) /\ Range(jobs') = Range(jobs) \cup {h}
        /\ Len(jobs') = Len(jobs) + 1 /\ Distinct(jobs')
    BY <1>4, <1>8, <2>1, AppendFacts
  <2>3. \A t \in Attachments : InJobs(t)' <=> InJobs(t) \/ t = h
    BY <1>1, <2>2 DEF InJobs
  <2>4. \A t \in Attachments : OnTheWay(t)' <=> OnTheWay(t)
    BY <1>7, <2>3 DEF OnTheWay, InJobs
  <2>5. OneForKey' /\ ClaimsKept'
    BY <1>1, <2>1, <2>4, GoesOn DEF ShownInv
  <2>6. (\A k \in Keys : Coming(k) => Coming(k)') /\ Coming(Key[h])'
    BY <1>1, <1>4, <2>3 DEF Coming, InJobs
  <2>7. Len(jobs') <= QueueCapacity
    BY <1>8, <2>1, <2>2, PipelineConstants
  <2>8. PipelineTypes'
    BY <1>1, <2>1, <2>2, <2>7 DEF ShownInv, WorkInv, PipelineTypes
  <2>9. TempsKept'
    BY <1>1, <1>5, <2>1, <2>2 DEF ShownInv, WorkInv, TempsKept
  <2> QED BY <1>1, <1>8, <2>1, <2>2, <2>3, <2>5, <2>6, <2>8, <2>9
<1>13. Ends
  BY <1>1, <1>11, <1>12
<1> HIDE DEF Ends
<1>14. Phases' /\ OfPage'
  <2>1. Phases'
    BY <1>1, <1>3 DEF ShownInv, WorkInv, Phases, Ending, Outside
  <2>2. \A c \in Callers \ {Driver} :
            (Range(queue'[c]) \cup Range(wave'[c])) \cap Attachments = {}
    BY <1>1, <1>5, InTheCall
  <2>3. Distinct(queue'[Driver]) /\ Distinct(wave'[Driver])
    BY <1>1, <1>3, <1>4, <1>5
  <2>4. Queued' \cap Waved' = {} /\ Queued' \cup Waved' \subseteq Attachment(page)
    BY <1>3, <1>5
  <2> QED BY <1>1, <1>3, <2>1, <2>2, <2>3, <2>4 DEF OfPage, Attachment
<1>15. Whereabouts'
  <2>1. \A t \in Attachments : InJobs(t)' => state'[t] = "settled"
    BY <1>6, <1>13 DEF Ends, ShownInv, WorkInv, Whereabouts
  <2>2. \A t \in Queued' : state'[t] = "queued"
    BY <1>5, <1>6, InTheCall DEF ShownInv, WorkInv, Whereabouts
  <2>3. \A t \in Waved' : Pending(t)'
    BY <1>5, <1>7, InTheCall DEF ShownInv, WorkInv, Whereabouts
  <2> QED BY <1>1, <1>13, <2>1, <2>2, <2>3 DEF Ends, Whereabouts
<1>16. Fresh'
  <2> SUFFICES ASSUME NEW i \in DOMAIN Pages, i >= page + 1, NEW t \in Attachment(i)
               PROVE  state'[t] = "new" /\ shown'[t] = "none"
    BY <1>1, <1>3 DEF Fresh, Planning
  <2>1. state[t] = "new" /\ shown[t] = "none" /\ t \in Attachments
    BY <1>3, PageType DEF ShownInv, WorkInv, Fresh, Planning
  <2>2. t # h
    BY <1>7, <2>1 DEF Pending
  <2> QED BY <1>6, <1>13, <2>1, <2>2 DEF Ends
<1>17. InterruptionEnds'
  BY <1>1, <1>3, <1>13 DEF Ends, ShownInv, WorkInv, InterruptionEnds
<1>18. \A i \in kept : \A t \in Attachment(i) : shown'[t] = shown[t]
  BY <1>9, <1>10, <1>13 DEF Ends
<1>19. Uninterrupted'
  BY <1>1, <1>18 DEF ShownInv, WorkInv, Uninterrupted
<1>20. WorkInv'
  BY <1>2, <1>13, <1>14, <1>15, <1>16, <1>17, <1>19 DEF WorkInv, Ends
<1>21. \A j \in DOMAIN Pages : j < page => \A u \in Attachment(j) : u \in Attachments /\ u # h
  <2> SUFFICES ASSUME NEW j \in DOMAIN Pages, j < page, NEW u \in Attachment(j), u = h PROVE FALSE
    BY PageType
  <2>1. j = page
    BY <1>3, <1>4, PagesApart
  <2> QED BY <1>3, <2>1, PipelineConstants
<1>22. KeptExplained'
  BY <1>1, <1>13, <1>18, <1>21, KeptStays DEF Ends, ShownInv, Ending
<1>23. PageExplained'
  <2>1. Driver \notin cancelled' \/ at'[Driver] = "returned" => Driver \notin cancelled
    BY <1>1, <1>3
  <2>2. CASE Driver \in cancelled
    BY <1>1, <1>3, <2>2 DEF PageExplained
  <2>3. CASE Driver \notin cancelled
    <3>1. \A t \in Attachment(page) : shown'[t] = "none" => shown[t] = "none"
      BY <1>3, <1>13, PageType DEF Ends
    <3>2. \A u \in Attachments : shown[u] = "undownloaded" => shown'[u] = "undownloaded"
      BY <1>13, <2>3 DEF Ends
    <3>3. \A u \in Attachments : Pending(u) =>
              Pending(u)' \/ Coming(Key[u])' \/ (u \in Attachment(page) /\ shown'[u] = "undownloaded")
      <4> SUFFICES ASSUME NEW u \in Attachments, Pending(u)
                   PROVE  \/ Pending(u)' \/ Coming(Key[u])'
                          \/ (u \in Attachment(page) /\ shown'[u] = "undownloaded")
        OBVIOUS
      <4>1. CASE u = h
        BY <1>4, <1>13, <2>3, <4>1 DEF Ends
      <4>2. CASE u # h
        BY <1>7, <4>2
      <4> QED BY <4>1, <4>2
    <3>4. \A k \in Keys : Coming(k) => Coming(k)'
      BY <1>13 DEF Ends
    <3> QED BY <1>1, <1>3, <2>1, <2>3, <3>1, <3>2, <3>3, <3>4, PageStays DEF ShownInv
  <2> QED BY <2>2, <2>3
<1> QED BY <1>20, <1>22, <1>23 DEF ShownInv

(***************************************************************************)
(* The driver: its pages                                                   *)
(***************************************************************************)

\* Positions before one of the next page are positions of the pages so far.
LEMMA EarlierPage ==
    \A n \in Nat : \A p \in 1..n + 1 : \A i \in 1..p - 1 : i \in 1..n
OBVIOUS

\* A fact of arithmetic.
LEMMA AddZero == \A n \in Nat : n + 0 = n
OBVIOUS

\* The walk goes on or ends, with nothing of it in the coordinator.
LEMMA Turns ==
    ASSUME ShownInv, UNCHANGED coordinator,
           UNCHANGED <<mode, claimed, jobs, worker, results, shown, cache, temps>>,
           run' \in Runs, page' \in 1..Len(Pages) + 1, page' >= page,
           kept' \subseteq 1..page' - 1, complete' \in BOOLEAN, kept \subseteq kept',
           Outside(Driver), run' \notin {"reading", "batch", "flush"},
           page' = page => run' # "read" \/ run \in {"read", "reading"},
           run' \in {"abort", "aborting", "failed"} => mode = "stream",
           run \in {"abort", "aborting", "failed"} => run' \in {"abort", "aborting", "failed"},
           Ending' => Idle /\ mode = "stream",
           \A i \in kept' \ kept :
               i = page /\ run = "batch" /\ at[Driver] = "returned" /\ mode = "daily"
    PROVE  ShownInv'
<1>1. UNCHANGED <<at, queue, wave, state, gate, batch, cancelled>> /\ Driver \in Callers
  BY InTheCall DEF coordinator
<1>2. CoordinatorInv'
  BY <1>1, CoordinatorStays DEF ShownInv, WorkInv, CoordinatorInv, CoordinatorTypes
<1>3. \A t \in Attachments : InJobs(t)' <=> InJobs(t)
  BY DEF InJobs
<1>4. \A t \in Attachments : (OnTheWay(t)' <=> OnTheWay(t)) /\ (Pending(t)' <=> Pending(t))
  BY <1>1, <1>3 DEF OnTheWay, Pending
<1>5. OneForKey' /\ ClaimsKept' /\ \A k \in Keys : Coming(k) => Coming(k)'
  BY <1>3, <1>4, GoesOn DEF ShownInv, Coming
<1>6. queue[Driver] = <<>> /\ wave[Driver] = <<>>
  BY <1>1 DEF Outside, ShownInv, WorkInv, CoordinatorInv, Waves, AtRest, InWave
<1>7. Queued = {} /\ Waved = {} /\ Queued' = {} /\ Waved' = {}
  BY <1>1, <1>6, EmptyRange DEF Queued, Waved
<1>8. \A t \in Attachments : ~Pending(t)
  BY <1>7, Elsewhere DEF ShownInv
<1>9. PipelineTypes'
  BY DEF ShownInv, WorkInv, PipelineTypes
<1>10. Phases'
  <2>1. Ending' => Idle'
    BY DEF ShownInv, WorkInv, Phases, Idle
  <2> QED BY <1>1, <2>1 DEF Phases, Outside
<1>11. OfPage' /\ Whereabouts' /\ TempsKept'
  BY <1>1, <1>3, <1>6, <1>7, <1>8, EmptyRange
     DEF ShownInv, WorkInv, OfPage, Whereabouts, TempsKept, Pending
<1>12. Planning \in Nat /\ Planning' \in Nat /\ Planning' >= Planning
  <2>1. page \in Nat /\ page' \in Nat
    BY PipelineConstants DEF ShownInv, WorkInv, PipelineTypes
  <2>2. /\ Planning = page \/ Planning = page + 1
        /\ run \in {"read", "reading"} => Planning = page
    BY <2>1 DEF Planning
  <2>3. /\ Planning' = page' \/ Planning' = page' + 1
        /\ run' # "read" => Planning' = page' + 1
    <3>1. CASE run' = "read"
      <4>1. Planning' = page' + 0
        BY <3>1 DEF Planning
      <4>2. page' + 0 = page'
        BY <2>1, AddZero
      <4> QED BY <3>1, <4>1, <4>2
    <3>2. CASE run' # "read"
      <4>1. run' \notin {"read", "reading"}
        BY <3>2
      <4> QED BY <2>1, <3>2, <4>1 DEF Planning
    <3> QED BY <3>1, <3>2
  <2>4. page' = page \/ page' >= page + 1
    BY <2>1
  <2> QED BY <2>1, <2>2, <2>3, <2>4
<1>13. Fresh'
  <2> SUFFICES ASSUME NEW i \in DOMAIN Pages, i >= Planning', NEW t \in Attachment(i)
               PROVE  state[t] = "new" /\ shown[t] = "none"
    BY <1>1 DEF Fresh
  <2>1. i >= Planning
    BY <1>12, PipelineConstants
  <2> QED BY <2>1 DEF ShownInv, WorkInv, Fresh
<1>14. InterruptionEnds' /\ Uninterrupted'
  BY <1>1 DEF ShownInv, WorkInv, InterruptionEnds, Uninterrupted
<1>15. WorkInv'
  BY <1>2, <1>5, <1>9, <1>10, <1>11, <1>13, <1>14 DEF WorkInv
<1>16. KeptExplained'
  <2> SUFFICES ASSUME NEW i \in kept', NEW t \in Attachment(i), shown[t] = "none"
               PROVE  Witnessed(i, t) \/ (mode = "daily" /\ ~Ending' /\ Coming(Key[t])')
    BY DEF KeptExplained, Witnessed
  <2>1. i \in DOMAIN Pages
    <3>1. Len(Pages) \in Nat /\ DOMAIN Pages = 1..Len(Pages)
      BY PipelineConstants
    <3>2. i \in 1..page' - 1 /\ page' \in 1..Len(Pages) + 1
      OBVIOUS
    <3> QED BY <3>1, <3>2, EarlierPage
  <2>2. t \in Attachments /\ Key[t] \in Keys
    BY <2>1, PageType, KeyType
  <2>3. CASE i \in kept
    BY <1>5, <2>2, <2>3 DEF ShownInv, KeptExplained
  <2>4. CASE i \notin kept
    <3>1. i = page /\ run = "batch" /\ at[Driver] = "returned" /\ mode = "daily"
      BY <2>4
    <3>2. Witnessed(i, t) \/ Coming(Key[t])
      BY <1>8, <3>1 DEF ShownInv, PageExplained
    <3> QED BY <1>5, <2>2, <3>1, <3>2
  <2> QED BY <2>3, <2>4
<1>17. PageExplained'
  BY DEF PageExplained
<1> QED BY <1>15, <1>16, <1>17 DEF ShownInv

\* The numbers the steps calculate with.
LEMMA Bounds ==
    ASSUME ShownInv
    PROVE  /\ Len(Pages) \in Nat /\ DOMAIN Pages = 1..Len(Pages)
           /\ page \in 1..Len(Pages) + 1 /\ page \in Nat
           /\ kept \subseteq 1..page - 1 /\ kept \subseteq DOMAIN Pages /\ page \notin kept
<1>1. Len(Pages) \in Nat /\ DOMAIN Pages = 1..Len(Pages)
  BY PipelineConstants
<1>2. page \in 1..Len(Pages) + 1 /\ kept \subseteq 1..page - 1
  BY DEF ShownInv, WorkInv, PipelineTypes
<1> QED BY <1>1, <1>2

\* A page that is given up.
LEMMA GivingUp ==
    ASSUME ShownInv, GiveUpPage, run \in {"reading", "batch"}, Outside(Driver),
           UNCHANGED <<coordinator, mode, kept, claimed, jobs, worker, results, shown, cache,
                       temps>>
    PROVE  ShownInv'
<1>1. page \in DOMAIN Pages /\ complete \in BOOLEAN /\ mode \in {"stream", "daily"}
  BY PipelineConstants DEF ShownInv, WorkInv, Phases, PipelineTypes
<1>2. CASE mode = "daily"
  <2>1. run' = "read" /\ page' = page + 1 /\ complete' = FALSE
    BY <1>2 DEF GiveUpPage
  <2>2. /\ page' \in 1..Len(Pages) + 1 /\ page' >= page /\ page' # page
        /\ kept \subseteq 1..page' - 1
    BY <1>1, <2>1, Bounds
  <2> QED BY <1>1, <2>1, <2>2, Turns DEF Runs, Ending
<1>3. CASE mode = "stream"
  <2>1. run' = "abort" /\ page' = page /\ complete' = complete
    BY <1>3 DEF GiveUpPage
  <2> QED BY <1>1, <1>3, <2>1, Bounds, Turns DEF Runs, Ending
<1> QED BY <1>1, <1>2, <1>3

\* The invariant is kept when the action is HistoryFails.
LEMMA HistoryFailsKeeps == ASSUME ShownInv, HistoryFails PROVE ShownInv'
BY GivingUp DEF HistoryFails

\* Between two pages, and at the end of a walk that is given up.
LEMMA CloseKeeps == ASSUME ShownInv, Close \/ Abort \/ Aborted PROVE ShownInv'
<1>1. complete \in BOOLEAN /\ UNCHANGED <<coordinator, mode, page, kept, complete, claimed, jobs,
                                          worker, results, shown, cache, temps>>
  BY DEF ShownInv, WorkInv, PipelineTypes, Close, Abort, Aborted
<1>2. Outside(Driver)
  BY DEF ShownInv, WorkInv, Phases, Close, Abort, Aborted
<1>3. CASE Close
  BY <1>1, <1>2, <1>3, Bounds, Turns DEF Close, Runs, Ending
<1>4. CASE Abort
  BY <1>1, <1>2, <1>4, Bounds, Turns DEF Abort, Runs, Ending, ShownInv, WorkInv, Phases
<1>5. CASE Aborted
  BY <1>1, <1>2, <1>5, Bounds, Turns DEF Aborted, Runs, Ending, ShownInv, WorkInv, Phases
<1> QED BY <1>3, <1>4, <1>5

\* The invariant is kept when the action is ReadPage.
LEMMA ReadPageKeeps == ASSUME ShownInv, ReadPage PROVE ShownInv'
<1>1. /\ run = "read" /\ page <= Len(Pages) /\ AskHistory(Driver) /\ run' = "reading"
      /\ UNCHANGED <<mode, page, kept, complete, claimed, jobs, worker, results, shown, cache,
                     temps>>
      /\ UNCHANGED <<queue, wave, state, batch, cancelled>>
  BY DEF ReadPage, AskHistory
<1>2. CoordinatorInv' /\ at'[Driver] = "waitHistory" /\ Outside(Driver)
  BY <1>1, InTheCall, AskHistoryKeeps
     DEF AskHistory, Goes, ShownInv, WorkInv, CoordinatorInv, CoordinatorTypes
<1>3. \A t \in Attachments : InJobs(t)' <=> InJobs(t)
  BY <1>1 DEF InJobs
<1>4. \A t \in Attachments : (OnTheWay(t)' <=> OnTheWay(t)) /\ (Pending(t)' <=> Pending(t))
  BY <1>1, <1>3 DEF OnTheWay, Pending
<1>5. OneForKey' /\ ClaimsKept' /\ \A k \in Keys : Coming(k) => Coming(k)'
  BY <1>1, <1>3, <1>4, GoesOn DEF ShownInv, Coming
<1>6. queue[Driver] = <<>> /\ wave[Driver] = <<>>
  BY <1>2, InTheCall DEF Outside, ShownInv, WorkInv, CoordinatorInv, Waves, AtRest, InWave
<1>7. Queued = {} /\ Waved = {} /\ Queued' = {} /\ Waved' = {}
  BY <1>1, <1>6, EmptyRange DEF Queued, Waved
<1>8. PipelineTypes'
  BY <1>1 DEF ShownInv, WorkInv, PipelineTypes, Runs
<1>9. Phases'
  BY <1>1, <1>2, Bounds DEF Phases, AtRest, Ending
<1>10. OfPage' /\ Whereabouts' /\ TempsKept'
  BY <1>1, <1>3, <1>4, <1>7 DEF ShownInv, WorkInv, OfPage, Whereabouts, TempsKept
<1>11. Fresh' /\ InterruptionEnds' /\ Uninterrupted'
  BY <1>1
     DEF ShownInv, WorkInv, Fresh, Planning, InterruptionEnds, Uninterrupted, Attachment
<1>12. WorkInv'
  BY <1>2, <1>5, <1>8, <1>9, <1>10, <1>11 DEF WorkInv
<1>13. KeptExplained'
  BY <1>1, <1>5, KeptStays DEF ShownInv, Ending
<1>14. PageExplained'
  BY <1>1 DEF PageExplained
<1> QED BY <1>12, <1>13, <1>14 DEF ShownInv

\* The tasks of a page are handed over.
LEMMA PlanKeeps == ASSUME ShownInv, Plan PROVE ShownInv'
<1>1. /\ run = "reading" /\ Outside(Driver) /\ page \in DOMAIN Pages /\ Driver \in Callers
      /\ Label({t \in Attachment(page) : Key[t] \in cache}, "text") /\ run' = "batch"
      /\ claimed' = claimed \cup {Key[Pages[page][n]] : n \in Planned(page)}
      /\ UNCHANGED <<mode, page, kept, complete, jobs, worker, results, cache, temps>>
  BY InTheCall DEF Plan, ShownInv, WorkInv, Phases
<1>2. PICK places \in Ascending(Planned(page)) : Submit(Driver, TasksAt(page, places))
  BY DEF Plan
<1>3. PICK q \in Seq(Attachments) :
         /\ q = TasksAt(page, places) /\ Distinct(q) /\ Range(q) \subseteq Attachment(page)
         /\ Range(q) = {Pages[page][n] : n \in Planned(page)}
         /\ \A t \in Range(q) : Key[t] \notin cache \cup claimed
         /\ \A t, u \in Range(q) : Key[t] = Key[u] => t = u
         /\ \A t \in Attachment(page) : Key[t] \notin cache \cup claimed =>
                \E u \in Range(q) : Key[u] = Key[t]
  BY <1>1, PlanFacts
<1>4. Submit(Driver, q) /\ q \in Seq(Tasks)
  BY <1>2, <1>3, PipelineConstants
<1>5. CoordinatorInv'
  BY <1>1, <1>4, SubmitKeeps DEF ShownInv, WorkInv
<1>6. /\ UNCHANGED <<wave, cancelled>> /\ queue'[Driver] = q
      /\ \A d \in Callers \ {Driver} : queue'[d] = queue[d]
      /\ at'[Driver] \in {"returned", "waitBatch"}
      /\ Become(Range(q), "queued")
  BY <1>1, <1>4 DEF Submit, Goes, ShownInv, WorkInv, CoordinatorInv, CoordinatorTypes
<1>7. \A t \in Attachments : state'[t] = IF t \in Range(q) THEN "queued" ELSE state[t]
  BY <1>6, KeyType DEF Become
<1>8. queue[Driver] = <<>> /\ wave[Driver] = <<>>
  BY <1>1 DEF Outside, ShownInv, WorkInv, CoordinatorInv, Waves, AtRest, InWave
<1>9. Queued = {} /\ Waved = {} /\ Queued' = Range(q) /\ Waved' = {}
  BY <1>6, <1>8, EmptyRange DEF Queued, Waved
<1>10. \A t \in Attachments : ~Pending(t)
  BY <1>9, Elsewhere DEF ShownInv
<1>11. Range(q) \subseteq Attachments /\ Attachment(page) \subseteq Attachments
  BY <1>1, <1>3, PageType
<1>12. \A t \in Range(q) : state[t] = "new" /\ shown[t] = "none"
  BY <1>1, <1>3, Bounds DEF ShownInv, WorkInv, Fresh, Planning
<1>13. \A t \in Attachments :
          /\ Pending(t)' <=> t \in Range(q)
          /\ InJobs(t)' <=> InJobs(t)
          /\ t \in Range(q) => ~InJobs(t)
  BY <1>1, <1>7, <1>10, <1>12 DEF Pending, InJobs, ShownInv, WorkInv, Whereabouts
<1>14. \A t \in Attachments : shown'[t] = IF t \in Attachment(page) /\ Key[t] \in cache
                                          THEN "text" ELSE shown[t]
  BY <1>1 DEF Label
<1>15. \A k \in Keys : Coming(k) => Coming(k)'
  BY <1>1, <1>13 DEF Coming
<1>16. \A t \in Attachments : OnTheWay(t) <=> InJobs(t)
  BY <1>10 DEF OnTheWay
<1>17. \A t \in Attachments : OnTheWay(t)' <=> t \in Range(q) \/ InJobs(t)
  BY <1>13 DEF OnTheWay
<1>18. \A t \in Attachments : InJobs(t) => Key[t] \in claimed
  BY <1>16, KeyType DEF ShownInv, WorkInv, ClaimsKept, Held, InJobs
<1>19. OneForKey'
  <2> SUFFICES ASSUME NEW t \in Attachments, t \in Range(q) \/ InJobs(t)
               PROVE  /\ results[Key[t]] = "none"
                      /\ \A u \in Attachments :
                             (u \in Range(q) \/ InJobs(u)) /\ Key[u] = Key[t] => u = t
    BY <1>1, <1>17 DEF OneForKey
  <2>1. CASE t \in Range(q)
    <3>1. Key[t] \notin claimed /\ Key[t] \in Keys
      BY <1>3, <2>1, KeyType
    <3>2. results[Key[t]] = "none"
      BY <3>1 DEF ShownInv, WorkInv, ClaimsKept
    <3> QED BY <1>3, <1>18, <2>1, <3>1, <3>2
  <2>2. CASE InJobs(t) /\ t \notin Range(q)
    BY <1>3, <1>16, <1>18, <2>2 DEF ShownInv, WorkInv, OneForKey
  <2> QED BY <2>1, <2>2
<1>20. claimed' = claimed \cup {Key[t] : t \in Range(q)}
  BY <1>1, <1>3
<1>21. ClaimsKept'
  <2> SUFFICES ASSUME NEW k \in Keys
               PROVE  k \in claimed' <=> Held(k)' \/ results[k] # "none"
    BY <1>1 DEF ClaimsKept
  <2>1. Held(k) <=> \E t \in Attachments : Key[t] = k /\ OnTheWay(t)
    BY DEF Held, OnTheWay, InJobs
  <2>2. Held(k)' <=> \E t \in Attachments : Key[t] = k /\ OnTheWay(t)'
    BY DEF Held, OnTheWay, InJobs
  <2>3. Held(k)' <=> Held(k) \/ \E t \in Range(q) : Key[t] = k
    BY <1>11, <1>16, <1>17, <2>1, <2>2
  <2> QED BY <1>20, <2>3 DEF ShownInv, WorkInv, ClaimsKept
<1>22. PipelineTypes'
  <2>1. claimed' \subseteq Keys
    BY <1>11, <1>20, KeyType DEF ShownInv, WorkInv, PipelineTypes
  <2>2. shown' \in [Attachments -> Labels]
    BY <1>1 DEF Label, Labels, Outcomes, ShownInv, WorkInv, PipelineTypes
  <2> QED BY <1>1, <2>1, <2>2 DEF ShownInv, WorkInv, PipelineTypes, Runs
<1>23. Phases'
  BY <1>1, <1>6 DEF Phases, Ending
<1>24. OfPage'
  <2>1. \A c \in Callers \ {Driver} :
            (Range(queue'[c]) \cup Range(wave'[c])) \cap Attachments = {}
    BY <1>6, InTheCall
  <2>2. Distinct(queue'[Driver]) /\ Distinct(wave'[Driver])
    BY <1>3, <1>6, <1>8, EmptyRange
  <2> QED BY <1>1, <1>3, <1>9, <2>1, <2>2 DEF OfPage, Attachment
<1>25. Whereabouts' /\ TempsKept'
  <2>1. \A t \in Attachments : InJobs(t)' => state'[t] = "settled"
    BY <1>7, <1>13 DEF ShownInv, WorkInv, Whereabouts
  <2>2. \A t \in Queued' : state'[t] = "queued"
    BY <1>7, <1>9, <1>11
  <2> QED BY <1>1, <1>9, <2>1, <2>2 DEF ShownInv, WorkInv, Whereabouts, TempsKept
<1>26. \A i \in DOMAIN Pages : i # page => \A t \in Attachment(i) :
           t \in Attachments /\ t \notin Attachment(page) /\ shown'[t] = shown[t]
           /\ state'[t] = state[t]
  <2> SUFFICES ASSUME NEW i \in DOMAIN Pages, i # page, NEW t \in Attachment(i)
               PROVE  t \in Attachments /\ t \notin Attachment(page) /\ shown'[t] = shown[t]
                      /\ state'[t] = state[t]
    OBVIOUS
  <2>1. t \in Attachments /\ t \notin Attachment(page)
    BY <1>1, PageType, PagesApart
  <2> QED BY <1>3, <1>7, <1>14, <2>1
<1>27. Fresh'
  <2> SUFFICES ASSUME NEW i \in DOMAIN Pages, i >= page + 1, NEW t \in Attachment(i)
               PROVE  state'[t] = "new" /\ shown'[t] = "none"
    BY <1>1 DEF Fresh, Planning
  <2>1. i # page /\ i >= page
    BY Bounds
  <2> QED BY <1>1, <1>26, <2>1, Bounds DEF ShownInv, WorkInv, Fresh, Planning
<1>28. InterruptionEnds'
  BY <1>1, <1>6, <1>14 DEF ShownInv, WorkInv, InterruptionEnds
<1>29. Uninterrupted'
  BY <1>1, <1>26, Bounds DEF ShownInv, WorkInv, Uninterrupted
<1>30. WorkInv'
  BY <1>5, <1>19, <1>21, <1>22, <1>23, <1>24, <1>25, <1>27, <1>28, <1>29 DEF WorkInv
<1>31. KeptExplained'
  <2>1. \A i \in kept : \A t \in Attachment(i) : shown'[t] = "none" => shown[t] = "none"
    BY <1>26, Bounds
  <2>2. \A j \in DOMAIN Pages : j < page => \A u \in Attachment(j) :
            shown[u] = "undownloaded" => shown'[u] = "undownloaded"
    BY <1>26, Bounds
  <2> QED BY <1>1, <1>15, <2>1, <2>2, KeptStays DEF ShownInv, Ending
<1>32. PageExplained'
  <2> SUFFICES ASSUME NEW t \in Attachment(page), shown'[t] = "none"
               PROVE  \/ Coming(Key[t])'
                      \/ \E u \in Attachments : Key[u] = Key[t] /\ Pending(u)'
    BY <1>1 DEF PageExplained, Attachment
  <2>1. t \in Attachments /\ Key[t] \in Keys /\ Key[t] \notin cache
    BY <1>11, <1>14, KeyType
  <2>2. CASE Key[t] \in claimed
    <3>1. Held(Key[t]) \/ results[Key[t]] # "none"
      BY <2>1, <2>2 DEF ShownInv, WorkInv, ClaimsKept
    <3>2. Coming(Key[t])
      BY <1>10, <3>1 DEF Held, Coming, InJobs
    <3> QED BY <1>15, <2>1, <3>2
  <2>3. CASE Key[t] \notin claimed
    BY <1>3, <1>11, <1>13, <2>1, <2>3
  <2> QED BY <2>2, <2>3
<1> QED BY <1>30, <1>31, <1>32 DEF ShownInv


\* The batch of a page has returned.
LEMMA EndPageKeeps == ASSUME ShownInv, EndPage PROVE ShownInv'
<1>1. /\ run = "batch" /\ Outside(Driver) /\ page \in DOMAIN Pages /\ Driver \in Callers
      /\ complete \in BOOLEAN /\ mode \in {"stream", "daily"}
      /\ UNCHANGED <<coordinator, mode, claimed, jobs, worker, results, shown, cache, temps>>
  BY PipelineConstants, InTheCall DEF EndPage, ShownInv, WorkInv, Phases, PipelineTypes
<1>2. CASE at[Driver] = "failed"
  BY <1>1, <1>2, GivingUp DEF EndPage
<1>3. CASE at[Driver] # "failed" /\ mode = "daily"
  <2>1. at[Driver] = "returned"
    BY <1>1, <1>3 DEF Outside
  <2>2. run' = "read" /\ page' = page + 1 /\ kept' = kept \cup {page} /\ complete' = complete
    BY <1>3, <2>1 DEF EndPage
  <2>3. /\ page' \in 1..Len(Pages) + 1 /\ page' >= page /\ page' # page
        /\ kept' \subseteq 1..page' - 1
    BY <1>1, <2>2, Bounds
  <2> QED BY <1>1, <1>3, <2>1, <2>2, <2>3, Turns DEF Runs, Ending
<1>4. CASE at[Driver] # "failed" /\ mode = "stream"
  <2>1. at[Driver] = "returned"
    BY <1>1, <1>4 DEF Outside
  <2>2. run' = "flush" /\ UNCHANGED <<page, kept, complete>>
    BY <1>4, <2>1 DEF EndPage
  <2>3. /\ UNCHANGED <<at, queue, wave, state, gate, batch, cancelled>>
        /\ UNCHANGED <<mode, claimed, jobs, worker, results, shown, cache, temps>>
    BY <1>1 DEF coordinator
  <2>4. CoordinatorInv'
    BY <2>3, CoordinatorStays DEF ShownInv, WorkInv, CoordinatorInv, CoordinatorTypes
  <2>5. \A t \in Attachments : InJobs(t)' <=> InJobs(t)
    BY <2>3 DEF InJobs
  <2>6. \A t \in Attachments : (OnTheWay(t)' <=> OnTheWay(t)) /\ (Pending(t)' <=> Pending(t))
    BY <2>3, <2>5 DEF OnTheWay, Pending
  <2>7. OneForKey' /\ ClaimsKept' /\ \A k \in Keys : Coming(k) => Coming(k)'
    BY <2>3, <2>5, <2>6, GoesOn DEF ShownInv, Coming
  <2>8. queue[Driver] = <<>> /\ wave[Driver] = <<>>
    BY <1>1, <2>1 DEF ShownInv, WorkInv, CoordinatorInv, Waves, AtRest, InWave
  <2>9. Queued = {} /\ Waved = {} /\ Queued' = {} /\ Waved' = {}
    BY <2>3, <2>8, EmptyRange DEF Queued, Waved
  <2>10. PipelineTypes'
    BY <2>2, <2>3 DEF ShownInv, WorkInv, PipelineTypes, Runs
  <2>11. Phases'
    BY <1>1, <1>4, <2>1, <2>2, <2>3 DEF Phases, Outside, Ending
  <2>12. OfPage' /\ Whereabouts' /\ TempsKept'
    BY <2>3, <2>5, <2>9 DEF ShownInv, WorkInv, OfPage, Whereabouts, TempsKept
  <2>13. Planning' = Planning
    BY <1>1, <2>2 DEF Planning
  <2>14. Fresh' /\ InterruptionEnds' /\ Uninterrupted'
    BY <1>1, <2>2, <2>3, <2>13
       DEF ShownInv, WorkInv, Fresh, InterruptionEnds, Uninterrupted, Attachment
  <2>15. WorkInv'
    BY <2>4, <2>7, <2>10, <2>11, <2>12, <2>14 DEF WorkInv
  <2>16. KeptExplained'
    BY <2>2, <2>3, <2>7, <1>1, KeptStays DEF ShownInv, Ending
  <2>17. PageExplained'
    <3> SUFFICES ASSUME NEW t \in Attachment(page), shown[t] = "none"
                 PROVE  Witnessed(page, t) \/ Coming(Key[t])'
      BY <2>2, <2>3 DEF PageExplained, Attachment, Witnessed
    <3>1. t \in Attachments /\ Key[t] \in Keys
      BY <1>1, PageType, KeyType
    <3>2. \A u \in Attachments : ~Pending(u)
      BY <2>9, Elsewhere DEF ShownInv
    <3>3. Witnessed(page, t) \/ Coming(Key[t])
      BY <1>1, <2>1, <3>2 DEF ShownInv, PageExplained
    <3> QED BY <2>7, <3>1, <3>3
  <2> QED BY <2>15, <2>16, <2>17 DEF ShownInv
<1> QED BY <1>1, <1>2, <1>3, <1>4

(***************************************************************************)
(* Results that are applied to records                                     *)
(***************************************************************************)

\* What applyResults does to the records, and to the results.
LEMMA Applying ==
    ASSUME ShownInv, NEW records \in SUBSET Attachments, Apply(records)
    PROVE  /\ shown' \in [Attachments -> Labels] /\ results' \in [Keys -> Outcomes]
           /\ claimed' \subseteq Keys
           /\ \A t \in Attachments :
                  shown'[t] = IF t \in records /\ results[Key[t]] # "none"
                              THEN results[Key[t]] ELSE shown[t]
           /\ \A k \in Keys :
                  /\ results'[k] \in {"none", results[k]}
                  /\ results'[k] = "none" <=> results[k] = "none" \/ k \in KeysOf(records)
                  /\ k \in claimed' <=> k \in claimed
                                        /\ ~(k \in KeysOf(records) /\ results[k] # "none")
<1> DEFINE there == {k \in KeysOf(records) : results[k] # "none"}
<1>1. /\ shown' = [t \in Attachments |-> IF t \in records /\ Key[t] \in there
                                         THEN results[Key[t]] ELSE shown[t]]
      /\ results' = [k \in Keys |-> IF k \in there THEN "none" ELSE results[k]]
      /\ claimed' = claimed \ there
  BY DEF Apply
<1>2. /\ results \in [Keys -> Outcomes] /\ shown \in [Attachments -> Labels]
      /\ claimed \subseteq Keys /\ "none" \in Outcomes /\ Outcomes \subseteq Labels
  BY DEF ShownInv, WorkInv, PipelineTypes, Outcomes, Labels
<1>3. \A t \in Attachments : t \in records => Key[t] \in KeysOf(records)
  BY DEF KeysOf
<1>4. \A k : k \in there <=> k \in KeysOf(records) /\ results[k] # "none"
  OBVIOUS
<1> HIDE DEF there
<1>5. \A t \in Attachments : results[Key[t]] \in Outcomes
  BY <1>2, KeyType
<1>6. shown' \in [Attachments -> Labels]
  BY <1>1, <1>2, <1>5
<1>7. results' \in [Keys -> Outcomes]
  BY <1>1, <1>2
<1> QED BY <1>1, <1>2, <1>3, <1>4, <1>6, <1>7

\* When no attachment is on the way, the claims are the results.
LEMMA ClaimsAreResults ==
    ASSUME ShownInv, Idle, Outside(Driver)
    PROVE  /\ queue[Driver] = <<>> /\ wave[Driver] = <<>> /\ Queued = {} /\ Waved = {}
           /\ \A t \in Attachments : ~OnTheWay(t) /\ ~Pending(t) /\ ~InJobs(t)
           /\ \A k \in Keys : /\ k \in claimed <=> results[k] # "none"
                              /\ Coming(k) <=> results[k] # "none"
           /\ temps = {}
<1>1. queue[Driver] = <<>> /\ wave[Driver] = <<>>
  BY InTheCall DEF Outside, ShownInv, WorkInv, CoordinatorInv, Waves, AtRest, InWave
<1>2. Queued = {} /\ Waved = {}
  BY <1>1, EmptyRange DEF Queued, Waved
<1>3. \A t \in Attachments : ~Pending(t) /\ ~InJobs(t)
  BY <1>2, Elsewhere, EmptyRange, KeyType DEF ShownInv, Idle, InJobs
<1>4. \A t \in Attachments : ~OnTheWay(t)
  BY <1>3 DEF OnTheWay
<1>5. \A k \in Keys : k \in claimed <=> results[k] # "none"
  BY <1>3 DEF ShownInv, WorkInv, ClaimsKept, Held, InJobs
<1>6. \A k \in Keys : Coming(k) <=> results[k] # "none"
  BY <1>3 DEF Coming
<1>7. None \notin Attachments
  BY KeyType
<1>8. temps = {}
  BY <1>2, <1>7, EmptyRange DEF ShownInv, WorkInv, TempsKept, Idle, PipelineTypes
<1> QED BY <1>1, <1>2, <1>3, <1>4, <1>5, <1>6, <1>8

\* What stays of the invariant when nothing is on the way and some claims are
\* given up with their results.
LEMMA Applied ==
    ASSUME ShownInv, Idle, Outside(Driver), UNCHANGED coordinator,
           UNCHANGED <<mode, jobs, worker, cache, temps>>,
           \A k \in Keys : k \in claimed' <=> results'[k] # "none"
    PROVE  /\ CoordinatorInv' /\ OfPage' /\ Whereabouts' /\ TempsKept' /\ OneForKey' /\ ClaimsKept'
           /\ \A t \in Attachments : ~Pending(t)' /\ ~InJobs(t)'
<1>1. UNCHANGED <<at, queue, wave, state, gate, batch, cancelled>>
  BY DEF coordinator
<1>2. CoordinatorInv'
  BY <1>1, CoordinatorStays DEF ShownInv, WorkInv, CoordinatorInv, CoordinatorTypes
<1>3. /\ Queued = {} /\ Waved = {} /\ queue[Driver] = <<>> /\ wave[Driver] = <<>>
      /\ \A t \in Attachments : ~OnTheWay(t) /\ ~Pending(t) /\ ~InJobs(t)
  BY ClaimsAreResults
<1>4. Queued' = {} /\ Waved' = {}
  BY <1>1, <1>3 DEF Queued, Waved
<1>5. \A t \in Attachments : ~Pending(t)' /\ ~InJobs(t)' /\ ~OnTheWay(t)'
  BY <1>1, <1>3 DEF Pending, InJobs, OnTheWay
<1>6. OfPage' /\ Whereabouts' /\ TempsKept' /\ OneForKey'
  BY <1>1, <1>3, <1>4, <1>5
     DEF ShownInv, WorkInv, OfPage, Whereabouts, TempsKept, OneForKey
<1>7. ClaimsKept'
  BY <1>5 DEF ClaimsKept, Held, InJobs
<1> QED BY <1>2, <1>5, <1>6, <1>7

\* Results that are shown or dropped interrupt nothing that was not.
LEMMA NothingInterrupted ==
    ASSUME ShownInv, run \notin {"abort", "aborting", "failed"}, cancelled' = cancelled,
           \A t \in Attachments : shown'[t] \in {shown[t], results[Key[t]]},
           \A k \in Keys : results'[k] \in {"none", results[k]}
    PROVE  /\ InterruptionEnds'
           /\ Driver \notin cancelled => \A t \in Attachments : shown'[t] # "interrupted"
<1> DEFINE some == \/ \E t \in Attachments : shown[t] = "interrupted"
                   \/ \E k \in Keys : results[k] = "interrupted"
<1>1. some => Driver \in cancelled
  BY DEF ShownInv, WorkInv, InterruptionEnds
<1>2. ASSUME NEW t \in Attachments, shown'[t] = "interrupted" PROVE some
  BY <1>2, KeyType
<1>3. ASSUME NEW k \in Keys, results'[k] = "interrupted" PROVE some
  BY <1>3
<1> QED BY <1>1, <1>2, <1>3 DEF InterruptionEnds

\* A page is emitted with its transcripts.
LEMMA FlushKeeps == ASSUME ShownInv, Flush PROVE ShownInv'
<1>1. /\ run = "flush" /\ Idle /\ page \in DOMAIN Pages /\ Driver \in Callers
      /\ Outside(Driver) /\ at[Driver] = "returned" /\ mode = "stream"
      /\ complete \in BOOLEAN
      /\ UNCHANGED <<coordinator, mode, complete, jobs, worker, cache, temps>>
  BY InTheCall DEF Flush, ShownInv, WorkInv, Phases, PipelineTypes
<1>2. CASE Driver \in cancelled
  <2>1. run' = "abort" /\ UNCHANGED <<page, kept, claimed, results, shown>>
    BY <1>2 DEF Flush
  <2> QED BY <1>1, <2>1, Bounds, Turns DEF Runs, Ending
<1>3. CASE Driver \notin cancelled
  <2>1. /\ Apply(Attachment(page)) /\ kept' = kept \cup {page}
        /\ run' = "read" /\ page' = page + 1
    BY <1>3 DEF Flush
  <2>2. Attachment(page) \in SUBSET Attachments
    BY <1>1, PageType
  <2>3. /\ shown' \in [Attachments -> Labels] /\ results' \in [Keys -> Outcomes]
        /\ claimed' \subseteq Keys
        /\ \A t \in Attachments :
               shown'[t] = IF t \in Attachment(page) /\ results[Key[t]] # "none"
                           THEN results[Key[t]] ELSE shown[t]
        /\ \A k \in Keys :
               /\ results'[k] \in {"none", results[k]}
               /\ results'[k] = "none" <=> results[k] = "none" \/ k \in KeysOf(Attachment(page))
               /\ k \in claimed' <=> k \in claimed
                                     /\ ~(k \in KeysOf(Attachment(page)) /\ results[k] # "none")
    BY <2>1, <2>2, Applying
  <2>4. \A k \in Keys : k \in claimed' <=> results'[k] # "none"
    BY <1>1, <2>3, ClaimsAreResults
  <2>5. /\ CoordinatorInv' /\ OfPage' /\ Whereabouts' /\ TempsKept' /\ OneForKey' /\ ClaimsKept'
        /\ UNCHANGED <<at, queue, wave, state, gate, batch, cancelled>>
    BY <1>1, <2>4, Applied DEF coordinator
  <2>6. PipelineTypes'
    <3>1. page' \in 1..Len(Pages) + 1 /\ kept' \subseteq 1..page' - 1
      BY <1>1, <2>1, Bounds
    <3> QED BY <1>1, <2>1, <2>3, <3>1 DEF ShownInv, WorkInv, PipelineTypes, Runs
  <2>7. Phases'
    BY <1>1, <2>1, <2>5 DEF Phases, Outside, Ending
  <2>8. InterruptionEnds' /\ \A t \in Attachments : shown'[t] # "interrupted"
    BY <1>1, <1>3, <2>3, <2>5, NothingInterrupted
  <2>9. Uninterrupted'
    <3>1. \A i \in kept' : i \in DOMAIN Pages
      BY <1>1, <2>1, Bounds
    <3> QED BY <2>8, <3>1, PageType DEF Uninterrupted, Attachment
  <2>10. \A i \in DOMAIN Pages : i # page => \A t \in Attachment(i) :
             t \in Attachments /\ shown'[t] = shown[t]
    BY <1>1, <2>3, PageType, PagesApart
  <2>11. Planning = page + 1 /\ Planning' = page + 1
    <3>1. page \in Nat /\ page + 1 \in Nat
      BY Bounds
    <3>2. Planning = page + 1
      BY <1>1 DEF Planning
    <3>3. Planning' = page' + 0
      BY <2>1 DEF Planning
    <3> QED BY <2>1, <3>1, <3>2, <3>3, AddZero
  <2>12. Fresh'
    <3> SUFFICES ASSUME NEW i \in DOMAIN Pages, i >= page + 1, NEW t \in Attachment(i)
                 PROVE  state[t] = "new" /\ shown'[t] = "none"
      BY <2>5, <2>11 DEF Fresh
    <3>1. i # page
      BY Bounds
    <3> QED BY <2>10, <2>11, <3>1 DEF ShownInv, WorkInv, Fresh
  <2>13. WorkInv'
    BY <2>5, <2>6, <2>7, <2>8, <2>9, <2>12 DEF WorkInv
  <2>14. KeptExplained'
    <3> SUFFICES ASSUME NEW i \in kept', NEW t \in Attachment(i), shown'[t] = "none"
                 PROVE  Witnessed(i, t)'
      BY DEF KeptExplained
    <3>1. CASE i \in kept
      <4>1. /\ i \in DOMAIN Pages /\ i # page
            /\ \A j \in 1..i : j \in DOMAIN Pages /\ j # page
        BY <3>1, Bounds
      <4>2. shown[t] = "none"
        BY <2>10, <4>1
      <4>3. Witnessed(i, t)
        BY <1>1, <3>1, <4>2 DEF ShownInv, KeptExplained
      <4> QED BY <2>10, <4>1, <4>3 DEF Witnessed
    <3>2. CASE i \notin kept
      <4>1. i = page
        BY <2>1, <3>2
      <4>2. t \in Attachments /\ Key[t] \in Keys
        BY <1>1, <4>1, PageType, KeyType
      <4>3. results[Key[t]] = "none" /\ shown[t] = "none"
        BY <2>3, <4>1, <4>2
      <4>4. Witnessed(page, t)
        BY <1>1, <4>1, <4>2, <4>3, ClaimsAreResults DEF ShownInv, PageExplained
      <4>5. \A j \in 1..page : Attachment(j) \subseteq Attachments
        BY <1>1, PageType, Bounds
      <4>6. \A u \in Attachments : Key[u] = Key[t] => shown'[u] = shown[u]
        BY <2>3, <4>3
      <4> QED BY <4>1, <4>4, <4>5, <4>6 DEF Witnessed
    <3> QED BY <3>1, <3>2
  <2>15. PageExplained'
    BY <2>1 DEF PageExplained
  <2> QED BY <2>13, <2>14, <2>15 DEF ShownInv
<1> QED BY <1>2, <1>3

\* What is left is applied to the records of the report, or dropped.
LEMMA FinishKeeps == ASSUME ShownInv, Finish PROVE ShownInv'
<1> DEFINE records == UNION {Attachment(i) : i \in kept}
<1>1. /\ run = "close" /\ Idle /\ Driver \in Callers /\ Outside(Driver)
      /\ run' \in {"ok", "incomplete"} /\ mode \in {"stream", "daily"}
      /\ UNCHANGED <<coordinator, mode, page, kept, complete, jobs, worker, cache, temps>>
  BY InTheCall, PipelineConstants DEF Finish, ShownInv, WorkInv, Phases, PipelineTypes
<1>2. records \in SUBSET Attachments
  BY Bounds, PageType
<1>3. mode = "daily" => Apply(records)
  BY <1>1 DEF Finish
<1>4. mode = "stream" => /\ results' = [k \in Keys |-> "none"]
                         /\ claimed' = {k \in claimed : results[k] = "none"}
                         /\ shown' = shown
  BY <1>1 DEF Finish
<1>5. \A i \in kept : \A t \in Attachment(i) : t \in records
  OBVIOUS
<1>6. \A t \in records : \E i \in kept : t \in Attachment(i)
  OBVIOUS
<1> HIDE DEF records
<1>7. /\ shown' \in [Attachments -> Labels] /\ results' \in [Keys -> Outcomes]
      /\ claimed' \subseteq Keys
      /\ \A k \in Keys : results'[k] \in {"none", results[k]}
      /\ \A k \in Keys : k \in claimed' <=> results'[k] # "none"
      /\ mode = "daily" => \A t \in Attachments :
            shown'[t] = IF t \in records /\ results[Key[t]] # "none"
                        THEN results[Key[t]] ELSE shown[t]
      /\ mode = "stream" => shown' = shown
  <2>1. CASE mode = "daily"
    <3>1. /\ shown' \in [Attachments -> Labels] /\ results' \in [Keys -> Outcomes]
          /\ claimed' \subseteq Keys
          /\ \A t \in Attachments :
                 shown'[t] = IF t \in records /\ results[Key[t]] # "none"
                             THEN results[Key[t]] ELSE shown[t]
          /\ \A k \in Keys :
                 /\ results'[k] \in {"none", results[k]}
                 /\ results'[k] = "none" <=> results[k] = "none" \/ k \in KeysOf(records)
                 /\ k \in claimed' <=> k \in claimed
                                       /\ ~(k \in KeysOf(records) /\ results[k] # "none")
      BY <1>2, <1>3, <2>1, Applying
    <3>2. \A k \in Keys : k \in claimed' <=> results'[k] # "none"
      BY <1>1, <3>1, ClaimsAreResults
    <3> QED BY <2>1, <3>1, <3>2
  <2>2. CASE mode = "stream"
    <3>1. \A k \in Keys : results'[k] = "none" /\ k \notin claimed'
      BY <1>1, <1>4, <2>2, ClaimsAreResults
    <3>2. shown' \in [Attachments -> Labels] /\ claimed' \subseteq Keys
      BY <1>4, <2>2 DEF ShownInv, WorkInv, PipelineTypes
    <3>3. results' \in [Keys -> Outcomes]
      BY <1>4, <2>2 DEF Outcomes
    <3> QED BY <1>4, <2>2, <3>1, <3>2, <3>3
  <2> QED BY <1>1, <2>1, <2>2
<1>8. \A t \in Attachments : /\ shown'[t] \in {shown[t], results[Key[t]]}
                             /\ t \notin records => shown'[t] = shown[t]
                             /\ results[Key[t]] = "none" => shown'[t] = shown[t]
  BY <1>1, <1>7
<1>9. /\ CoordinatorInv' /\ OfPage' /\ Whereabouts' /\ TempsKept' /\ OneForKey' /\ ClaimsKept'
      /\ UNCHANGED <<at, queue, wave, state, gate, batch, cancelled>>
  <2>1. UNCHANGED <<mode, jobs, worker, cache, temps>> /\ UNCHANGED coordinator
    BY <1>1
  <2>2. \A k \in Keys : k \in claimed' <=> results'[k] # "none"
    BY <1>7
  <2>3. UNCHANGED <<at, queue, wave, state, gate, batch, cancelled>>
    BY <2>1 DEF coordinator
  <2> QED BY <1>1, <2>1, <2>2, <2>3, Applied
<1>10. PipelineTypes'
  BY <1>1, <1>7 DEF ShownInv, WorkInv, PipelineTypes, Runs
<1>11. Phases'
  BY <1>1, <1>9 DEF Phases, Outside, Ending, Idle
<1>12. InterruptionEnds'
  BY <1>1, <1>7, <1>8, <1>9, NothingInterrupted
<1>13. Uninterrupted'
  BY <1>1, <1>7 DEF ShownInv, WorkInv, Uninterrupted
<1>14. Fresh'
  <2>1. Planning' = Planning /\ Planning = page + 1
    BY <1>1 DEF Planning
  <2> SUFFICES ASSUME NEW i \in DOMAIN Pages, i >= page + 1, NEW t \in Attachment(i)
               PROVE  state[t] = "new" /\ shown'[t] = "none"
    BY <1>9, <2>1 DEF Fresh
  <2>2. t \in Attachments /\ state[t] = "new" /\ shown[t] = "none"
    BY <2>1, PageType DEF ShownInv, WorkInv, Fresh
  <2>3. i \notin kept
    BY Bounds
  <2>4. t \notin records
    BY <1>6, <2>3, Bounds, PagesApart
  <2> QED BY <1>8, <2>2, <2>4
<1>15. WorkInv'
  BY <1>9, <1>10, <1>11, <1>12, <1>13, <1>14 DEF WorkInv
<1>16. KeptExplained'
  <2> SUFFICES ASSUME NEW i \in kept, NEW t \in Attachment(i), shown'[t] = "none"
               PROVE  Witnessed(i, t)'
    BY <1>1 DEF KeptExplained
  <2>1. /\ i \in DOMAIN Pages /\ t \in Attachments /\ Key[t] \in Keys
        /\ \A j \in 1..i : Attachment(j) \subseteq Attachments
    BY Bounds, PageType, KeyType
  <2>2. CASE mode = "daily"
    <3>1. results[Key[t]] = "none" /\ shown[t] = "none"
      BY <1>5, <1>7, <2>1, <2>2
    <3>2. Witnessed(i, t)
      BY <1>1, <2>1, <3>1, ClaimsAreResults DEF ShownInv, KeptExplained
    <3> QED BY <1>8, <2>1, <3>1, <3>2 DEF Witnessed
  <2>3. CASE mode = "stream"
    BY <1>7, <2>3 DEF ShownInv, KeptExplained, Witnessed
  <2> QED BY <1>1, <2>2, <2>3
<1>17. PageExplained'
  BY <1>1 DEF PageExplained
<1> QED BY <1>15, <1>16, <1>17 DEF ShownInv

(***************************************************************************)
(* The theorems                                                            *)
(***************************************************************************)

\* Before the first page nothing is shown.
LEMMA ShownStart == ASSUME Init PROVE ShownInv
<1>1. CoordinatorInv
  BY CoordinatorStart DEF Init
<1>2. /\ \A c \in Callers : queue[c] = <<>> /\ wave[c] = <<>> /\ at[c] = "returned"
      /\ \A t \in Tasks : state[t] = "new"
  BY DEF Init, CoordinatorInit
<1>3. Driver \in Callers /\ None \notin Attachments
  BY PipelineConstants, KeyType
<1>4. Queued = {} /\ Waved = {} /\ Distinct(queue[Driver]) /\ Distinct(wave[Driver])
  BY <1>2, <1>3, EmptyRange DEF Queued, Waved
<1>5. /\ Range(jobs) = {} /\ Distinct(jobs) /\ worker = None
      /\ \A t \in Attachments : ~InJobs(t) /\ ~Pending(t) /\ ~OnTheWay(t)
  BY <1>2, <1>3, EmptyRange, KeyType DEF Init, InJobs, Pending, OnTheWay
<1>6. PipelineTypes
  <2>1. /\ page \in 1..Len(Pages) + 1 /\ kept \subseteq 1..page - 1
        /\ jobs \in Seq(Attachments) /\ Len(jobs) <= QueueCapacity
    BY PipelineConstants DEF Init
  <2>2. results \in [Keys -> Outcomes] /\ shown \in [Attachments -> Labels]
    BY DEF Init, Outcomes, Labels
  <2>3. cache \subseteq Keys
    BY PipelineConstants DEF Init
  <2> QED BY <2>1, <2>2, <2>3 DEF Init, PipelineTypes, Runs
<1>7. Phases
  BY <1>2, <1>3 DEF Init, Phases, Outside, Ending
<1>8. OfPage
  BY <1>2, <1>4, EmptyRange DEF OfPage
<1>9. Whereabouts /\ OneForKey /\ TempsKept
  BY <1>4, <1>5 DEF Init, Whereabouts, OneForKey, TempsKept
<1>10. ClaimsKept
  BY <1>5 DEF Init, ClaimsKept, Held, InJobs
<1>11. Fresh
  BY <1>2, PageType, KeyType DEF Init, Fresh
<1>12. InterruptionEnds /\ Uninterrupted /\ KeptExplained /\ PageExplained
  BY DEF Init, InterruptionEnds, Uninterrupted, KeptExplained, PageExplained
<1> QED BY <1>1, <1>6, <1>7, <1>8, <1>9, <1>10, <1>11, <1>12 DEF ShownInv, WorkInv

\* Nothing changes.
LEMMA ShownStutters == ASSUME ShownInv, UNCHANGED vars PROVE ShownInv'
<1>1. /\ UNCHANGED <<at, queue, wave, state, gate, batch, cancelled>>
      /\ UNCHANGED <<mode, run, page, kept, complete, claimed, jobs, worker, results, shown,
                     cache, temps>>
  BY DEF vars, coordinator, pipeline
<1>2. CoordinatorInv'
  BY <1>1, CoordinatorStays DEF ShownInv, WorkInv, CoordinatorInv, CoordinatorTypes
<1>3. PipelineTypes' /\ Phases'
  BY <1>1 DEF ShownInv, WorkInv, PipelineTypes, Phases, Outside, Ending, Idle
<1>4. OfPage' /\ Whereabouts' /\ TempsKept'
  BY <1>1
     DEF ShownInv, WorkInv, OfPage, Whereabouts, TempsKept, Queued, Waved, InJobs, Pending
<1>5. \A t \in Attachments : OnTheWay(t)' <=> OnTheWay(t)
  BY <1>1 DEF OnTheWay, Pending, InJobs
<1>6. OneForKey' /\ ClaimsKept'
  BY <1>1, <1>5, GoesOn DEF ShownInv
<1>7. Fresh' /\ InterruptionEnds' /\ Uninterrupted'
  BY <1>1 DEF ShownInv, WorkInv, Fresh, Planning, InterruptionEnds, Uninterrupted
<1>8. KeptExplained'
  BY <1>1 DEF ShownInv, KeptExplained, Witnessed, Ending, Coming, InJobs
<1>9. PageExplained'
  BY <1>1 DEF ShownInv, PageExplained, Witnessed, Coming, InJobs, Pending
<1> QED BY <1>2, <1>3, <1>4, <1>6, <1>7, <1>8, <1>9 DEF ShownInv, WorkInv

\* Every step keeps the invariant of the pipeline.
LEMMA ShownSteps == ASSUME ShownInv, [Next]_vars PROVE ShownInv'
<1>1. CASE Walk
  BY <1>1, ReadPageKeeps, HistoryFailsKeeps, PlanKeeps, EndPageKeeps, FlushKeeps, CloseKeeps,
     FinishKeeps, ReserveInputsBeside, DriverBeside, CancelTasksKeep, AfterDownloadKeeps
     DEF Walk
<1>2. CASE Work
  BY <1>2, DropJobKeeps, TakeJobKeeps, FinishJobKeeps DEF Work
<1>3. CASE Transfers
  BY <1>3, TransferBeside DEF Transfers
<1>4. CASE Over
  BY <1>4, ShownStutters DEF Over
<1>5. CASE \E c \in Callers \ {Driver} : OtherStep(c) \/ OtherHistory(c)
  BY <1>5, OtherBeside
<1>6. CASE \E c \in Callers : Cancel(c) /\ UNCHANGED pipeline
  BY <1>6, CancelBeside
<1>7. CASE UNCHANGED vars
  BY <1>7, ShownStutters
<1> QED BY <1>1, <1>2, <1>3, <1>4, <1>5, <1>6, <1>7 DEF Next

\* What the theorems rest on: the invariant of the coordinator and of the walk.
THEOREM PipelineInvariance == Spec => []ShownInv
BY ShownStart, ShownSteps, PTL DEF Spec

\* For any number of callers and tasks, the transfers under way never take more
\* than two slots, and none is under way beside a request for history
\* (download_coordinator.go:123-149).
THEOREM GateKeeps == Spec => []GateKept
<1>1. ShownInv => GateKept
  BY TwoSlots DEF ShownInv, WorkInv
<1> QED BY <1>1, PipelineInvariance, PTL

\* When all calls have returned, every task that was handed over was settled or
\* cancelled, whatever failed (download_coordinator.go:93-117).
THEOREM TasksEnd == Spec => []EveryTaskEnds
<1>1. ShownInv => EveryTaskEnds
  BY AllEnded DEF ShownInv, WorkInv
<1> QED BY <1>1, PipelineInvariance, PTL

\* A claim on a transcript is held exactly while its attachment is on the way or
\* its result waits, and a walk that is over leaves no download on disk
\* (media_pipeline.go:170-224, 429-456).
THEOREM ClaimsAccounted == Spec => []WorkAccounted
<1>1. ShownInv => WorkAccounted
  <2> SUFFICES ASSUME ShownInv PROVE WorkAccounted
    OBVIOUS
  <2>1. \A k \in Keys : k \in claimed <=> Held(k) \/ results[k] # "none"
    BY DEF ShownInv, WorkInv, ClaimsKept
  <2>2. ASSUME Ending PROVE temps = {}
    <3>1. Idle /\ Outside(Driver)
      BY <2>2 DEF ShownInv, WorkInv, Phases, Ending
    <3> QED BY <3>1, ClaimsAreResults
  <2> QED BY <2>1, <2>2 DEF WorkAccounted
<1> QED BY <1>1, PipelineInvariance, PTL

\* An attachment that is emitted without a transcript and without a reason has a
\* twin that could not be downloaded (media_download.go:315-317).
THEOREM OnlyTwinsUnexplained == Spec => []Explained
<1>1. ShownInv => Explained
  <2> SUFFICES ASSUME ShownInv, NEW i \in Emitted, NEW t \in Attachment(i), shown[t] = "none"
               PROVE  \E u \in Attachments : Key[u] = Key[t] /\ shown[u] = "undownloaded"
    BY DEF Explained
  <2>1. i \in kept /\ (mode = "stream" \/ Ending)
    BY DEF Emitted
  <2>2. Witnessed(i, t)
    BY <2>1 DEF ShownInv, KeptExplained
  <2>3. \A j \in 1..i : Attachment(j) \subseteq Attachments
    BY <2>1, Bounds, PageType
  <2> QED BY <2>2, <2>3 DEF Witnessed
<1> QED BY <1>1, PipelineInvariance, PTL

\* A dump or sync never emits a page with an attachment marked as interrupted
\* (flushAndApply, media_pipeline.go:386-389).
THEOREM NoInterruptionEmitted == Spec => []StreamShowsNoInterruption
<1>1. ShownInv => StreamShowsNoInterruption
  BY DEF ShownInv, WorkInv, Uninterrupted, StreamShowsNoInterruption
<1> QED BY <1>1, PipelineInvariance, PTL
=============================================================================
