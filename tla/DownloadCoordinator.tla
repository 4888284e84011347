------------------------ MODULE DownloadCoordinator ------------------------
(***************************************************************************)
(* downloadCoordinator of internal/mtproto/download_coordinator.go: media  *)
(* is downloaded in waves of at most two chunk slots, one batch at a time, *)
(* and never while a request for history is under way.                     *)
(*                                                                         *)
(* The actions of one caller of runHistory and runBatch.  The hooks of a   *)
(* task belong to its owner: a module that EXTENDS this one conjoins to    *)
(* After, CancelWaiting, CancelRest and EndFailed what they do.            *)
(***************************************************************************)
EXTENDS Integers, Sequences, FiniteSets, Functions

CONSTANTS
    Callers,   \* the goroutines that use one coordinator
    Tasks,     \* mediaDownloadTask
    Large,     \* the tasks that take two slots (adaptiveDownloadThreads)
    None       \* no caller

ASSUME CoordinatorConstants == Large \subseteq Tasks /\ None \notin Callers

VARIABLES
    at,        \* caller -> the statement it has reached
    queue,     \* caller -> tasks of its batch not in a wave yet, in order
    wave,      \* caller -> tasks of its wave whose After has not run
    state,     \* task -> what has become of it
    gate,      \* the RWMutex: who reads, who writes, who waits to write
    batch,     \* who holds batchGate
    cancelled  \* callers whose context is done

coordinator == <<at, queue, wave, state, gate, batch, cancelled>>

States == {"new", "queued", "moving", "moved", "failed", "settled", "cancelled"}
Places == {"returned", "failed", "waitHistory", "history", "waitBatch", "loop",
           "waitGate", "reserve", "transfer", "after", "afterFailed"}

Slots(T)  == IF T \in Large THEN 2 ELSE 1
Free      == [readers |-> {}, writer |-> None, waiting |-> {}]

CoordinatorInit ==
    /\ at = [c \in Callers |-> "returned"]
    /\ queue = [c \in Callers |-> <<>>]
    /\ wave = [c \in Callers |-> <<>>]
    /\ state = [t \in Tasks |-> "new"]
    /\ gate = Free
    /\ batch = None
    /\ cancelled = {}

Outside(c)        == at[c] \in {"returned", "failed"}
Goes(c, place)    == at' = [at EXCEPT ![c] = place]
Become(ts, s)     == state' = [t \in Tasks |-> IF t \in ts THEN s ELSE state[t]]

-----------------------------------------------------------------------------
(* runHistory: gate.Lock, the request, gate.Unlock.  A writer that waits   *)
(* keeps new readers out (sync.RWMutex).                                   *)

AskHistory(c) ==
    /\ Outside(c)
    /\ Goes(c, "waitHistory")
    /\ gate' = [gate EXCEPT !.waiting = @ \cup {c}]
    /\ UNCHANGED <<queue, wave, state, batch, cancelled>>

EnterHistory(c) ==
    /\ at[c] = "waitHistory" /\ gate.readers = {} /\ gate.writer = None
    /\ Goes(c, "history")
    /\ gate' = [gate EXCEPT !.writer = c, !.waiting = @ \ {c}]
    /\ UNCHANGED <<queue, wave, state, batch, cancelled>>

LeaveHistory(c) ==
    /\ at[c] = "history"
    /\ Goes(c, "returned")
    /\ gate' = [gate EXCEPT !.writer = None]
    /\ UNCHANGED <<queue, wave, state, batch, cancelled>>

-----------------------------------------------------------------------------
(* runBatch *)

Submit(c, tasks) ==
    /\ Outside(c)
    /\ queue' = [queue EXCEPT ![c] = tasks]
    /\ Become(Range(tasks), "queued")
    /\ Goes(c, IF tasks = <<>> THEN "returned" ELSE "waitBatch")
    /\ UNCHANGED <<wave, gate, batch, cancelled>>

EnterBatch(c) ==
    /\ at[c] = "waitBatch" /\ batch = None
    /\ batch' = c
    /\ Goes(c, "loop")
    /\ UNCHANGED <<queue, wave, state, gate, cancelled>>

CancelQueue(c) ==
    /\ Become(Range(queue[c]), "cancelled")
    /\ queue' = [queue EXCEPT ![c] = <<>>]

\* The context ends before the batch has its turn.
CancelWaiting(c) ==
    /\ at[c] = "waitBatch" /\ c \in cancelled
    /\ CancelQueue(c)
    /\ Goes(c, "failed")
    /\ UNCHANGED <<wave, gate, batch, cancelled>>

\* The check before each wave finds the context ended.
CancelRest(c) ==
    /\ at[c] = "loop" /\ c \in cancelled /\ queue[c] # <<>>
    /\ CancelQueue(c)
    /\ batch' = None
    /\ Goes(c, "failed")
    /\ UNCHANGED <<wave, gate, cancelled>>

EndBatch(c) ==
    /\ at[c] = "loop" /\ queue[c] = <<>>
    /\ batch' = None
    /\ Goes(c, IF c \in cancelled THEN "failed" ELSE "returned")
    /\ UNCHANGED <<queue, wave, state, gate, cancelled>>

\* Two small neighbours share a wave; everything else goes alone.
WaveSize(q) == IF Len(q) > 1 /\ q[1] \notin Large /\ q[2] \notin Large THEN 2 ELSE 1

StartWave(c) ==
    /\ at[c] = "loop" /\ c \notin cancelled /\ queue[c] # <<>>
    /\ LET n == WaveSize(queue[c])
       IN  /\ wave' = [wave EXCEPT ![c] = SubSeq(queue[c], 1, n)]
           /\ queue' = [queue EXCEPT ![c] = SubSeq(@, n + 1, Len(@))]
    /\ Goes(c, "waitGate")
    /\ UNCHANGED <<state, gate, batch, cancelled>>

EnterGate(c) ==
    /\ at[c] = "waitGate" /\ gate.writer = None /\ gate.waiting = {}
    /\ gate' = [gate EXCEPT !.readers = @ \cup {c}]
    /\ Goes(c, "reserve")
    /\ UNCHANGED <<queue, wave, state, batch, cancelled>>

\* One paced reservation for the wave; it fails only when the context ends.
Reserve(c) ==
    /\ at[c] = "reserve"
    /\ Become(Range(wave[c]), "moving")
    /\ Goes(c, "transfer")
    /\ UNCHANGED <<queue, wave, gate, batch, cancelled>>

ReserveFails(c) ==
    /\ at[c] = "reserve" /\ c \in cancelled
    /\ Become(Range(wave[c]), "failed")
    /\ gate' = [gate EXCEPT !.readers = @ \ {c}]
    /\ Goes(c, "afterFailed")
    /\ UNCHANGED <<queue, wave, batch, cancelled>>

\* The transfers of a wave run beside each other; each ends, by its timeout
\* at the latest.
Transfer(t) ==
    /\ state[t] = "moving"
    /\ \E s \in {"moved", "failed"} : state' = [state EXCEPT ![t] = s]
    /\ UNCHANGED <<at, queue, wave, gate, batch, cancelled>>

\* Mutant: the wave is over when its first transfer is.
EndTransfersEarly(c) ==
    /\ at[c] = "transfer"
    /\ \E t \in Range(wave[c]) : state[t] # "moving"
    /\ gate' = [gate EXCEPT !.readers = @ \ {c}]
    /\ Goes(c, "after")
    /\ UNCHANGED <<queue, wave, state, batch, cancelled>>

EndTransfers(c) ==
    /\ at[c] = "transfer"
    /\ \A t \in Range(wave[c]) : state[t] # "moving"
    /\ gate' = [gate EXCEPT !.readers = @ \ {c}]
    /\ Goes(c, "after")
    /\ UNCHANGED <<queue, wave, state, batch, cancelled>>

\* After of the first task left in the wave, also of a wave that could not
\* be reserved.
After(c) ==
    /\ at[c] \in {"after", "afterFailed"} /\ wave[c] # <<>>
    /\ Become({Head(wave[c])}, "settled")
    /\ wave' = [wave EXCEPT ![c] = Tail(@)]
    /\ UNCHANGED <<at, queue, gate, batch, cancelled>>

EndWave(c) ==
    /\ at[c] = "after" /\ wave[c] = <<>>
    /\ Goes(c, "loop")
    /\ UNCHANGED <<queue, wave, state, gate, batch, cancelled>>

\* Mutant: the tasks that were not started are forgotten.
EndFailedForgetting(c) ==
    /\ at[c] = "afterFailed" /\ wave[c] = <<>>
    /\ queue' = [queue EXCEPT ![c] = <<>>]
    /\ batch' = None
    /\ Goes(c, "failed")
    /\ UNCHANGED <<wave, state, gate, cancelled>>

\* A wave that could not be reserved ends the batch.
EndFailed(c) ==
    /\ at[c] = "afterFailed" /\ wave[c] = <<>>
    /\ CancelQueue(c)
    /\ batch' = None
    /\ Goes(c, "failed")
    /\ UNCHANGED <<wave, gate, cancelled>>

\* What the call does between its entry and its return, hooks apart.
CallStep(c) ==
    \/ EnterHistory(c) \/ EnterBatch(c) \/ EndBatch(c)
    \/ StartWave(c) \/ EnterGate(c) \/ Reserve(c)
    \/ ReserveFails(c) \/ EndTransfers(c) \/ EndWave(c)

Cancel(c) ==
    /\ c \notin cancelled
    /\ cancelled' = cancelled \cup {c}
    /\ UNCHANGED <<at, queue, wave, state, gate, batch>>

-----------------------------------------------------------------------------
Moving == {t \in Tasks : state[t] = "moving"}

\* However many callers there are, the transfers under way never take more
\* than two slots, and no request for history is under way together with one:
\* readers and the writer of the gate exclude each other up to the last transfer
\* (README.md:405, download_coordinator.go:123-149).
GateKept ==
    /\ Cardinality(Moving) + Cardinality(Moving \cap Large) <= 2
    /\ \A c \in Callers : at[c] = "history" => Moving = {}
=============================================================================
