----------------------------- MODULE RpcPacing -----------------------------
(***************************************************************************)
(* Pacing of the calls of one session (performRPC and what it calls,        *)
(* client.go): a call reserves the next slot under the mutex of the session *)
(* and sleeps until then, a FLOOD_WAIT pushes the slots of all calls back   *)
(* and is slept through before the call is tried again.                    *)
(***************************************************************************)
EXTENDS Naturals, FiniteSets

CONSTANTS
    Callers,    \* goroutines that make calls
    Spacing,    \* rpcSpacing
    Waits,      \* seconds a FLOOD_WAIT asks for
    Attempts,   \* maxFloodWaitRetries
    MaxTime     \* bound on the clock and on the slots

ASSUME PacingConstants ==
    /\ Spacing \in Nat \ {0} /\ Waits \subseteq Nat \ {0}
    /\ Attempts \in Nat \ {0} /\ MaxTime \in Nat

VARIABLES
    clock,
    nextRPCAt,  \* the first slot that is free
    rpc         \* caller -> its call; at is its slot, or when its wait is over

pacingVars == <<clock, nextRPCAt, rpc>>

NoCall == [stage |-> "none", at |-> 0, attempt |-> 0]

PacingInit == clock = 0 /\ nextRPCAt = 0 /\ rpc = [c \in Callers |-> NoCall]

PacingTypeOK ==
    /\ clock \in 0..MaxTime /\ nextRPCAt \in Nat
    /\ rpc \in [Callers -> [stage : {"none", "slot", "sent", "waiting"}, at : Nat,
                            attempt : 0..Attempts]]

LaterOf(a, b) == IF a < b THEN b ELSE a

\* reserveRPCSlot
Reserve(c, attempt) ==
    LET slot == LaterOf(nextRPCAt, clock) IN
    /\ slot <= MaxTime
    /\ rpc' = [rpc EXCEPT ![c] = [stage |-> "slot", at |-> slot, attempt |-> attempt]]
    /\ nextRPCAt' = slot + Spacing

BeginCall(c) ==
    /\ rpc[c].stage = "none" /\ Reserve(c, 1)
    /\ UNCHANGED clock

SendCall(c) ==
    /\ rpc[c].stage = "slot" /\ clock >= rpc[c].at
    /\ rpc' = [rpc EXCEPT ![c].stage = "sent"]
    /\ UNCHANGED <<clock, nextRPCAt>>

\* An answer, an error or a timeout; or the context ends in a sleep.
EndCall(c) ==
    /\ rpc[c].stage # "none"
    /\ rpc' = [rpc EXCEPT ![c] = NoCall]
    /\ UNCHANGED <<clock, nextRPCAt>>

\* Mutant: a short wait takes back what a longer one pushed.
NoteFloodWaitAnyway(wait) == nextRPCAt' = clock + wait + Spacing

NoteFloodWait(wait) == nextRPCAt' = LaterOf(nextRPCAt, clock + wait + Spacing)

\* A FLOOD_WAIT at the last attempt is an error like others and is not noted.
CallFloods(c, wait) ==
    /\ rpc[c].stage = "sent" /\ rpc[c].attempt < Attempts
    /\ NoteFloodWait(wait)
    /\ rpc' = [rpc EXCEPT ![c].stage = "waiting", ![c].at = clock + wait]
    /\ UNCHANGED clock

Retry(c) ==
    /\ rpc[c].stage = "waiting" /\ clock >= rpc[c].at
    /\ Reserve(c, rpc[c].attempt + 1)
    /\ UNCHANGED clock

\* A chunk of a download, which takes no slots (observeDownloadError).
TransferFloods(wait) == NoteFloodWait(wait) /\ UNCHANGED <<clock, rpc>>

PacingTick == clock < MaxTime /\ clock' = clock + 1 /\ UNCHANGED <<nextRPCAt, rpc>>

PacingNext ==
    \/ \E c \in Callers : BeginCall(c) \/ SendCall(c) \/ EndCall(c) \/ Retry(c)
    \/ \E c \in Callers, wait \in Waits : CallFloods(c, wait)
    \/ \E wait \in Waits : TransferFloods(wait)
    \/ PacingTick

PacingSpec == PacingInit /\ [][PacingNext]_pacingVars

-----------------------------------------------------------------------------
(* Properties *)

Reserves(c) == rpc[c].stage # "slot" /\ rpc'[c].stage = "slot"

\* A slot keeps its distance from the slots that were given out before, and
\* nobody gets a slot inside a FLOOD_WAIT another call sleeps through, whatever
\* shorter waits come after it (client.go:1775-1793, 1840-1860).
SlotsPaced ==
    [][\A c \in Callers : Reserves(c) => \A d \in Callers \ {c} :
          /\ rpc[d].stage \in {"slot", "sent"} => rpc'[c].at >= rpc[d].at + Spacing
          /\ rpc[d].stage = "waiting" => rpc'[c].at >= rpc[d].at + Spacing]_pacingVars
=============================================================================
