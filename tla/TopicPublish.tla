---------------------------- MODULE TopicPublish ----------------------------
(***************************************************************************)
(* interview-topic-publish: internal/mtproto/interview_topic_publish.go.   *)
(*                                                                         *)
(* A reviewed manifest lists posts of one forum topic; a post may answer   *)
(* an earlier post of the manifest or a message that exists.  A private    *)
(* journal beside the manifest gets a receipt before each send; a send is  *)
(* tried once, and a run that does not know its outcome stops, and so do   *)
(* all later runs with that journal.  Runs hold the runtime lock: one at a *)
(* time.  A read that fails and a check that refuses end a run as a kill   *)
(* does, with nothing changed, so Interrupt stands for all three.          *)
(***************************************************************************)
EXTENDS Naturals, Sequences

CONSTANTS
    Posts,          \* keys of posts
    Topic,          \* the parent of a post that answers nothing
    Manifests,      \* name -> sequence of [post, parent, new]
    Worlds,         \* which manifests are used together, and with what server
    MaxInterrupts   \* bound on interrupted runs

Entries == [post : Posts, parent : Posts \cup {Topic}, new : BOOLEAN]

ASSUME PublishConstants ==
    /\ Topic \notin Posts /\ DOMAIN Manifests # {}
    /\ \A m \in DOMAIN Manifests : Manifests[m] \in Seq(Entries)
    /\ \A w \in Worlds : w.manifests \subseteq DOMAIN Manifests /\ w.dedupe \in BOOLEAN
    /\ MaxInterrupts \in Nat

\* The keys of a manifest are unique (interview_topic_publish.go:99).
ASSUME UniquePosts ==
    \A m \in DOMAIN Manifests : \A i, j \in DOMAIN Manifests[m] :
        Manifests[m][i].post = Manifests[m][j].post => i = j

\* A journal knows its own manifest only: where the server forgets random IDs
\* nothing but the owner keeps a post from being listed in two manifests.
ASSUME SeparateManifests ==
    \A w \in Worlds : ~w.dedupe => \A m, n \in w.manifests :
        \A i \in DOMAIN Manifests[m], j \in DOMAIN Manifests[n] :
            Manifests[m][i].post = Manifests[n][j].post => m = n

VARIABLES
    world,      \* the manifests in use; does the server remember random ids?
    copies,     \* post -> how often it was posted
    intact,     \* post -> nobody edited or deleted it since
    flight,     \* sends without an answer that may still be carried out
    receipts,   \* manifest -> post -> the receipt on disk
    publish,    \* the run
    interrupts  \* interrupted runs so far

server      == <<copies, intact, flight>>
publishVars == <<world, server, receipts, publish, interrupts>>

\* No receipt; Pending without an ID; Pending with one; not Pending.
Receipts   == {"none", "unknown", "sent", "confirmed"}
PublishPcs == {"idle", "preflight", "apply", "journal", "send", "receive", "readback"}
NoPublish  == [pc |-> "idle", manifest |-> CHOOSE m \in DOMAIN Manifests : TRUE,
               apply |-> FALSE, i |-> 1, ids |-> {}]

PublishTypeOK ==
    /\ world \in Worlds
    /\ copies \in [Posts -> 0..2] /\ intact \in [Posts -> BOOLEAN]
    /\ flight \subseteq Posts
    /\ receipts \in [DOMAIN Manifests -> [Posts -> Receipts]]
    /\ publish \in [pc : PublishPcs, manifest : DOMAIN Manifests, apply : BOOLEAN,
                    i : Nat, ids : SUBSET Posts]
    /\ publish.i \in 1..Len(Manifests[publish.manifest]) + 1
    /\ interrupts \in 0..MaxInterrupts

PublishInit ==
    /\ world \in Worlds
    /\ copies = [p \in Posts |-> 0] /\ intact = [p \in Posts |-> TRUE] /\ flight = {}
    /\ receipts = [m \in DOMAIN Manifests |-> [p \in Posts |-> "none"]]
    /\ publish = NoPublish /\ interrupts = 0

Manifest     == Manifests[publish.manifest]
Entry        == Manifest[publish.i]
Receipt      == receipts[publish.manifest][Entry.post]
ToStep(pc)   == publish' = [publish EXCEPT !.pc = pc]
Advance(ids) == publish' = [publish EXCEPT !.i = @ + 1, !.ids = @ \cup ids]
Save(r)      == receipts' = [receipts EXCEPT ![publish.manifest][Entry.post] = r]

\* verifyPublishedPost on what the server returns.
Stands(p) == copies[p] > 0 /\ intact[p]

\* publishParent: the parent is known, and is as it was.
ParentKnown(e) == e.parent = Topic \/ ~e.new \/ e.parent \in publish.ids
ParentGood(e)  == e.parent # Topic /\ ParentKnown(e) => Stands(e.parent)

-----------------------------------------------------------------------------
(* The run *)

StartPublish(m, apply) ==
    /\ publish.pc = "idle" /\ m \in world.manifests
    /\ publish' = [pc |-> "preflight", manifest |-> m, apply |-> apply, i |-> 1, ids |-> {}]
    /\ UNCHANGED <<world, server, receipts, interrupts>>

\* A post with a receipt is read again; one without must not be there yet.
KnownPost == Receipt \in {"sent", "confirmed"} /\ ParentKnown(Entry)
             /\ ParentGood(Entry) /\ Stands(Entry.post)
NewPost   == Receipt = "none" /\ ParentGood(Entry)
             /\ (ParentKnown(Entry) => ~Stands(Entry.post))

Preflight ==
    /\ publish.pc = "preflight" /\ publish.i <= Len(Manifest)
    /\ KnownPost \/ NewPost
    /\ Advance(IF KnownPost THEN {Entry.post} ELSE {})
    /\ UNCHANGED <<world, server, receipts, interrupts>>

EndPreflight ==
    /\ publish.pc = "preflight" /\ publish.i > Len(Manifest)
    /\ publish' = [publish EXCEPT !.pc = "apply", !.i = 1]
    /\ UNCHANGED <<world, server, receipts, interrupts>>

\* Mutant: a post that was read back keeps its pending receipt.
ConfirmKnownSilently ==
    /\ publish.pc = "apply" /\ publish.i <= Len(Manifest) /\ KnownPost
    /\ Advance({})
    /\ UNCHANGED <<world, server, receipts, interrupts>>

ConfirmKnown ==
    /\ publish.pc = "apply" /\ publish.i <= Len(Manifest) /\ KnownPost
    /\ IF publish.apply THEN Save("confirmed") ELSE UNCHANGED receipts
    /\ Advance({})
    /\ UNCHANGED <<world, server, interrupts>>

LookForNew ==
    /\ publish.pc = "apply" /\ publish.i <= Len(Manifest) /\ NewPost
    /\ IF publish.apply THEN ParentKnown(Entry) /\ ToStep("journal") ELSE Advance({})
    /\ UNCHANGED <<world, server, receipts, interrupts>>

\* Mutant: the receipt is written when the answer is there.
JournalSendLater ==
    /\ publish.pc = "journal" /\ ParentGood(Entry)
    /\ ToStep("send")
    /\ UNCHANGED <<world, server, receipts, interrupts>>

\* Identity, parent and file are checked again, and the receipt is durable
\* before anything is sent.
JournalSend ==
    /\ publish.pc = "journal" /\ ParentGood(Entry)
    /\ Save("unknown") /\ ToStep("send")
    /\ UNCHANGED <<world, server, interrupts>>

\* The server carries a send out, unless it has seen its random id.
Refused(p) == world.dedupe /\ copies[p] > 0
Carry(p)   == copies' = [copies EXCEPT ![p] = IF Refused(p) THEN @ ELSE @ + 1]

SendAnswered ==
    /\ publish.pc = "send" /\ ParentGood(Entry) /\ ~Refused(Entry.post)
    /\ Carry(Entry.post) /\ ToStep("receive")
    /\ UNCHANGED <<world, intact, flight, receipts, interrupts>>

\* A timeout, a lost connection, or a kill between the request and its answer.
SendLost ==
    /\ publish.pc = "send" /\ ParentGood(Entry)
    /\ flight' = flight \cup {Entry.post}
    /\ publish' = NoPublish
    /\ UNCHANGED <<world, copies, intact, receipts, interrupts>>

SaveID ==
    /\ publish.pc = "receive"
    /\ Save("sent") /\ ToStep("readback")
    /\ UNCHANGED <<world, server, interrupts>>

Readback ==
    /\ publish.pc = "readback" /\ Stands(Entry.post)
    /\ Save("confirmed")
    /\ publish' = [publish EXCEPT !.pc = "apply", !.i = @ + 1, !.ids = @ \cup {Entry.post}]
    /\ UNCHANGED <<world, server, interrupts>>

EndPublish ==
    /\ publish.pc = "apply" /\ publish.i > Len(Manifest)
    /\ publish' = NoPublish
    /\ UNCHANGED <<world, server, receipts, interrupts>>

\* A check of the code that does not hold.
RefusePublish ==
    /\ \/ publish.pc \in {"preflight", "apply"} /\ publish.i <= Len(Manifest)
          /\ ~KnownPost /\ ~NewPost
       \/ publish.pc \in {"journal", "send"} /\ ~ParentGood(Entry)
       \/ publish.pc = "send" /\ Refused(Entry.post)
       \/ publish.pc = "readback" /\ ~Stands(Entry.post)
    /\ publish' = NoPublish
    /\ UNCHANGED <<world, server, receipts, interrupts>>

Interrupt ==
    /\ publish.pc # "idle" /\ interrupts < MaxInterrupts
    /\ publish' = NoPublish /\ interrupts' = interrupts + 1
    /\ UNCHANGED <<world, server, receipts>>

-----------------------------------------------------------------------------
(* Telegram *)

Land(p) ==
    /\ p \in flight
    /\ flight' = flight \ {p}
    /\ Carry(p) \/ UNCHANGED copies
    /\ UNCHANGED <<world, intact, receipts, publish, interrupts>>

\* The owner edits or deletes a post in another client.
Touch(p) ==
    /\ Stands(p)
    /\ intact' = [intact EXCEPT ![p] = FALSE]
    /\ UNCHANGED <<world, copies, flight, receipts, publish, interrupts>>

PublishRun ==
    \/ Preflight \/ EndPreflight \/ ConfirmKnown \/ LookForNew \/ JournalSend
    \/ SendAnswered \/ SendLost \/ SaveID \/ Readback \/ EndPublish \/ RefusePublish

PublishNext ==
    \/ PublishRun \/ Interrupt
    \/ \E m \in DOMAIN Manifests, apply \in BOOLEAN : StartPublish(m, apply)
    \/ \E p \in Posts : Land(p) \/ Touch(p)

PublishSpec == PublishInit /\ [][PublishNext]_publishVars

-----------------------------------------------------------------------------
(* Properties *)

\* No post is ever published twice: not by a run after an interrupted one, not
\* when an answer is late, and, if the server remembers random ids, not when a
\* continuation manifest names the post again (README.md:213,
\* interview_topic_publish.go:383-385 and 451-455).
AtMostOnce == \A p \in Posts : copies[p] <= 1

\* A post is tried only when every post before it in the manifest is confirmed,
\* so an unknown outcome is always the last receipt and what precedes it never
\* has to be reconciled (interview_topic_publish.go:455-497).
ReceiptsInOrder ==
    \A m \in DOMAIN Manifests : \A i, j \in DOMAIN Manifests[m] :
        i < j /\ receipts[m][Manifests[m][j].post] # "none" =>
            receipts[m][Manifests[m][i].post] = "confirmed"
=============================================================================
