----------------------------- MODULE TopicEdits -----------------------------
(***************************************************************************)
(* The two commands that change messages of the topic in place:            *)
(* interview-topic-update (interview_topic_update.go), which edits texts    *)
(* and deletes backed-up ZIP posts, and interview-topic-replace-video      *)
(* (interview_topic_replace_video.go), which replaces audio by video and   *)
(* keeps receipts.  Every item is read and checked in a pass over the      *)
(* whole manifest, and again before it is changed; every change is         *)
(* attempted once and read back, whatever its answer was.                  *)
(***************************************************************************)
EXTENDS Naturals, Sequences

CONSTANTS
    Items,        \* command -> the messages of its manifest, in order
    Zips,         \* those that are deleted
    MaxTrouble    \* bound on interrupted runs and on changes without an answer

Messages == UNION {{Items[c][i] : i \in DOMAIN Items[c]} : c \in DOMAIN Items}

ASSUME EditConstants ==
    /\ DOMAIN Items \subseteq {"update", "replace"}
    /\ Zips \subseteq Messages /\ MaxTrouble \in Nat

\* A manifest lists a message once (interview_topic_update.go:152-166,
\* interview_topic_replace_video.go:57-60).
ASSUME UniqueItems ==
    \A c \in DOMAIN Items :
        /\ Items[c] \in Seq(Messages)
        /\ \A i, j \in DOMAIN Items[c] : Items[c][i] = Items[c][j] => i = j

VARIABLES
    command,   \* the command that is repeated
    body,      \* message -> what Telegram shows
    fields,    \* message -> media, reply and topic are as reviewed
    late,      \* changes without an answer that may still be carried out
    backup,    \* the local copies of the ZIP posts are there
    editReceipt, \* message -> receipt of replace-video
    asked,     \* message -> requests replace-video made since it was last confirmed
    edit,      \* the run
    trouble

editServer == <<body, fields, late, backup>>
editVars   == <<command, editServer, editReceipt, asked, edit, trouble>>

Bodies  == {"old", "new", "gone", "other"}
EditPcs == {"idle", "preflight", "apply", "upload", "change", "verify"}
NoEdit  == [pc |-> "idle", apply |-> FALSE, i |-> 1, refused |-> FALSE]

EditTypeOK ==
    /\ command \in DOMAIN Items
    /\ body \in [Messages -> Bodies] /\ fields \in [Messages -> BOOLEAN]
    /\ late \subseteq Messages /\ backup \in BOOLEAN
    /\ editReceipt \in [Messages -> {"none", "pending", "done"}]
    /\ asked \in [Messages -> Nat]
    /\ edit \in [pc : EditPcs, apply : BOOLEAN, i : Nat, refused : BOOLEAN]
    /\ edit.i \in 1..Len(Items[command]) + 1
    /\ trouble \in 0..MaxTrouble

EditInit ==
    /\ command \in DOMAIN Items
    /\ body = [m \in Messages |-> "old"] /\ fields = [m \in Messages |-> TRUE]
    /\ late = {} /\ backup = TRUE
    /\ editReceipt = [m \in Messages |-> "none"]
    /\ asked = [m \in Messages |-> 0]
    /\ edit = NoEdit /\ trouble = 0

Item       == Items[command][edit.i]
Listed     == {Items[command][i] : i \in DOMAIN Items[command]}
More       == edit.i <= Len(Items[command])
EditTo(pc) == edit' = [edit EXCEPT !.pc = pc]
NextItem   == edit' = [edit EXCEPT !.pc = "apply", !.i = @ + 1, !.refused = FALSE]
Receive(r) == editReceipt' = [editReceipt EXCEPT ![Item] = r]

Target(m)  == IF m \in Zips THEN "gone" ELSE "new"
Changed(m) == body[m] = Target(m)

\* Mutant: a message that has its new text already is refused.
FitsOld(m) ==
    /\ body[m] = "old" /\ fields[m]
    /\ m \in Zips => backup

\* checkTopicEdit, checkTopicZIP and replacementCurrent.
Fits(m) ==
    /\ body[m] \in {"old", Target(m)} /\ fields[m]
    /\ m \in Zips => backup

-----------------------------------------------------------------------------
StartEdit(apply) ==
    /\ edit.pc = "idle"
    /\ edit' = [NoEdit EXCEPT !.pc = "preflight", !.apply = apply]
    /\ UNCHANGED <<command, editServer, editReceipt, asked, trouble>>

\* Mutant: a pending receipt does not stop the run.
MayGoOnAnyway(m) == Fits(m)

\* A replacement whose outcome is unknown stops the run while the old message
\* stands.
MayGoOn(m) == Fits(m) /\ (editReceipt[m] = "pending" => Changed(m))

CheckItem ==
    /\ edit.pc = "preflight" /\ More /\ MayGoOn(Item)
    /\ edit' = [edit EXCEPT !.i = @ + 1]
    /\ UNCHANGED <<command, editServer, editReceipt, asked, trouble>>

EndChecks ==
    /\ edit.pc = "preflight" /\ ~More
    /\ edit' = [edit EXCEPT !.pc = "apply", !.i = 1]
    /\ UNCHANGED <<command, editServer, editReceipt, asked, trouble>>

\* What is there already is not changed: update reads it back, replace-video
\* saves its receipt.
KeepItem ==
    /\ edit.pc = "apply" /\ More /\ edit.apply /\ Fits(Item) /\ Changed(Item)
    /\ IF command = "replace"
       THEN Receive("done") /\ asked' = [asked EXCEPT ![Item] = 0] /\ NextItem
       ELSE EditTo("verify") /\ UNCHANGED <<editReceipt, asked>>
    /\ UNCHANGED <<command, editServer, trouble>>

DryItem ==
    /\ edit.pc = "apply" /\ More /\ ~edit.apply /\ Fits(Item)
    /\ NextItem
    /\ UNCHANGED <<command, editServer, editReceipt, asked, trouble>>

OpenItem ==
    /\ edit.pc = "apply" /\ More /\ edit.apply /\ Fits(Item) /\ ~Changed(Item)
    /\ EditTo(IF command = "replace" THEN "upload" ELSE "change")
    /\ UNCHANGED <<command, editServer, editReceipt, asked, trouble>>

\* After the upload the message is checked once more, and the receipt saved.
Upload ==
    /\ edit.pc = "upload" /\ Fits(Item) /\ ~Changed(Item)
    /\ Receive("pending") /\ EditTo("change")
    /\ UNCHANGED <<command, editServer, asked, trouble>>

\* The server changes a message, unless it is gone.
Carried(m) == body' = [body EXCEPT ![m] = IF @ = "gone" THEN @ ELSE Target(m)]
Ask        == asked' = IF command = "replace" THEN [asked EXCEPT ![Item] = @ + 1] ELSE asked

ChangeAnswered ==
    /\ edit.pc = "change" /\ body[Item] # "gone"
    /\ Carried(Item) /\ Ask /\ EditTo("verify")
    /\ UNCHANGED <<command, fields, late, backup, editReceipt, trouble>>

\* An error: the change was refused, or its answer is lost.
ChangeFails ==
    /\ edit.pc = "change" /\ trouble < MaxTrouble
    /\ \E l \in {late, late \cup {Item}} : late' = l
    /\ Ask
    /\ edit' = [edit EXCEPT !.pc = "verify", !.refused = TRUE]
    /\ trouble' = trouble + 1
    /\ UNCHANGED <<command, body, fields, backup, editReceipt>>

\* The readback decides; update stops after an error even so.
VerifyEdit ==
    /\ edit.pc = "verify" /\ Changed(Item) /\ fields[Item]
    /\ IF command = "replace"
       THEN Receive("done") /\ asked' = [asked EXCEPT ![Item] = 0] /\ NextItem
       ELSE /\ IF edit.refused THEN edit' = NoEdit ELSE NextItem
            /\ UNCHANGED <<editReceipt, asked>>
    /\ UNCHANGED <<command, editServer, trouble>>

EndEdit ==
    /\ edit.pc = "apply" /\ ~More
    /\ edit' = NoEdit
    /\ UNCHANGED <<command, editServer, editReceipt, asked, trouble>>

StopEdit ==
    /\ \/ edit.pc = "preflight" /\ More /\ ~MayGoOn(Item)
       \/ edit.pc = "apply" /\ More /\ ~Fits(Item)
       \/ edit.pc = "upload" /\ (~Fits(Item) \/ Changed(Item))
       \/ edit.pc = "change" /\ body[Item] = "gone"
       \/ edit.pc = "verify" /\ ~(Changed(Item) /\ fields[Item])
    /\ edit' = NoEdit
    /\ UNCHANGED <<command, editServer, editReceipt, asked, trouble>>

\* A kill, or a read that fails.
BreakEdit ==
    /\ edit.pc # "idle" /\ trouble < MaxTrouble
    /\ edit' = NoEdit /\ trouble' = trouble + 1
    /\ UNCHANGED <<command, editServer, editReceipt, asked>>

-----------------------------------------------------------------------------
(* Telegram and the owner *)

LandLate(m) ==
    /\ m \in late
    /\ late' = late \ {m}
    /\ Carried(m) \/ UNCHANGED body
    /\ UNCHANGED <<command, fields, backup, editReceipt, asked, edit, trouble>>

Meddle(m) ==
    /\ m \in Listed \ Zips /\ body[m] # "other"
    /\ \/ body' = [body EXCEPT ![m] = "other"] /\ UNCHANGED fields
       \/ fields' = [fields EXCEPT ![m] = FALSE] /\ UNCHANGED body
    /\ UNCHANGED <<command, late, backup, editReceipt, asked, edit, trouble>>

LoseBackup ==
    /\ backup /\ command = "update"
    /\ backup' = FALSE
    /\ UNCHANGED <<command, body, fields, late, editReceipt, asked, edit, trouble>>

EditRun ==
    \/ CheckItem \/ EndChecks \/ KeepItem \/ DryItem \/ OpenItem \/ Upload
    \/ ChangeAnswered \/ ChangeFails \/ VerifyEdit \/ EndEdit \/ StopEdit

EditNext ==
    \/ EditRun \/ BreakEdit \/ LoseBackup
    \/ \E apply \in BOOLEAN : StartEdit(apply)
    \/ \E m \in Messages : LandLate(m) \/ Meddle(m)

EditSpec == EditInit /\ [][EditNext]_editVars

-----------------------------------------------------------------------------
(* Properties *)

\* The media of a message is replaced by at most one request until the result
\* is confirmed, however many runs are started and whatever happens to the
\* answer (README.md:251, interview_topic_replace_video.go:151-155 and 195-199).
OneRequestPerReplacement ==
    command = "replace" => \A m \in Messages : asked[m] <= 1

\* Repeated, interview-topic-update brings every message of the manifest to its
\* new state, from whatever point earlier runs stopped at, unless the owner
\* changed one or removed a backup meanwhile (README.md:167,
\* interview_topic_update.go:468-530).
UpdateConverges ==
    command = "update" ~>
        \/ \A m \in Listed : Changed(m)
        \/ ~backup \/ \E m \in Messages : body[m] = "other" \/ ~fields[m]
=============================================================================
