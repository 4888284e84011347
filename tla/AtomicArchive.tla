---------------------------- MODULE AtomicArchive ----------------------------
(***************************************************************************)
(* What an incremental `sync` promises: the archive grows by whole ranges. *)
(* The log of stored records and the boundary LastID change in one step,   *)
(* nothing stored is lost, everything Telegram still has at or below the   *)
(* boundary is stored, and a stored message is stored again only as a      *)
(* revision with other content.  There are no files, journals or crashes.  *)
(***************************************************************************)
EXTENDS Integers, Sequences

CONSTANTS IDs

VARIABLES
    msgs,     \* Telegram: the current version of each message, 0 if there is none
    log,      \* the records of the archive
    boundary  \* SyncState.LastID

vars == <<msgs, log, boundary>>

Extends(longer, shorter) ==
    Len(longer) >= Len(shorter) /\ SubSeq(longer, 1, Len(shorter)) = shorter

\* Every record from position n on is the first of its message, or a revision
\* of the record of that message before it.
NewOrRevised(l, n) ==
    \A i \in n..Len(l), k \in 1..Len(l) :
        /\ k < i /\ l[k].id = l[i].id
        /\ \A m \in (k + 1)..(i - 1) : l[m].id # l[i].id
        => l[i].rev /\ l[i].ver # l[k].ver

Covers(l, last) ==
    \A id \in IDs : id <= last /\ msgs[id] # 0 => \E i \in 1..Len(l) : l[i].id = id

Init == msgs = [id \in IDs |-> 0] /\ log = <<>> /\ boundary = 0

\* Telegram posts, edits and deletes; nothing is posted below the boundary.
Telegram ==
    /\ \E id \in IDs : /\ msgs[id] = 0 => id > boundary
                       /\ \E v \in {0, msgs[id] + 1} : msgs' = [msgs EXCEPT ![id] = v]
    /\ UNCHANGED <<log, boundary>>

Publish ==
    /\ boundary' >= boundary
    /\ Extends(log', log)
    /\ NewOrRevised(log', Len(log) + 1)
    /\ Covers(log', boundary')
    /\ UNCHANGED msgs

Next == Telegram \/ Publish
Spec == Init /\ [][Next]_vars
=============================================================================
