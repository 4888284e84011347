----------------------------- MODULE SendSaved -----------------------------
(***************************************************************************)
(* One run of send-saved (send_saved.go): a text, a file, or a copy of an   *)
(* audio or video message goes to Saved Messages.  A document is first     *)
(* sent by reference; only when the server rejects the reference itself is *)
(* a video downloaded, uploaded and sent again, with the same random ID.   *)
(* What was sent is read back, in up to three attempts, and compared.      *)
(***************************************************************************)
EXTENDS Naturals

CONSTANTS
    Payloads,    \* subset of {"text", "file", "audio", "video"}
    ReadTries    \* 3 in readBackSavedMessage

ASSUME SavedConstants ==
    /\ Payloads \subseteq {"text", "file", "audio", "video"}
    /\ ReadTries \in Nat \ {0}

VARIABLES
    source,   \* what the run is asked to send
    saved,    \* copies in Saved Messages -> intact, changed
    astray,   \* sends without an answer that may still be carried out
    temp,     \* the temporary directory of a video copy exists
    send      \* the run

savedVars == <<source, saved, astray, temp, send>>

SavedPcs == {"idle", "open", "reuse", "upload", "send", "read", "compare", "done", "failed"}
Methods  == {"plain", "server_reuse", "exact_upload"}

SavedTypeOK ==
    /\ source \in [kind : Payloads, noforwards : BOOLEAN, preview : BOOLEAN]
    /\ saved \in [intact : Nat, changed : Nat]
    /\ astray \in Nat /\ temp \in BOOLEAN
    /\ send \in [pc : SavedPcs, method : Methods, tries : 0..ReadTries]

Copies == saved.intact + saved.changed

SavedInit ==
    /\ source \in [kind : Payloads, noforwards : BOOLEAN, preview : BOOLEAN]
    /\ source.noforwards \/ source.preview => source.kind = "video"
    /\ saved = [intact |-> 0, changed |-> 0]
    /\ astray = 0 /\ temp = FALSE
    /\ send = [pc |-> "idle", method |-> "plain", tries |-> 0]

\* The run returns, and removes its directory.
Return(pc) == send' = [send EXCEPT !.pc = pc] /\ temp' = FALSE
Go(pc)     == send' = [send EXCEPT !.pc = pc] /\ UNCHANGED temp

-----------------------------------------------------------------------------
(* The run *)

\* normalizeSendSavedOptions, the account's own profile, the source message and
\* the preview of a video are checked before anything is sent.
Prepare ==
    /\ send.pc = "idle"
    /\ temp' = (source.kind = "video")
    /\ send' = [send EXCEPT !.pc =
           [file |-> "upload", text |-> "send", video |-> "open", audio |-> "reuse"][source.kind]]
    /\ UNCHANGED <<source, saved, astray>>

\* A protected message is never sent by reference.
OpenVideo ==
    /\ send.pc = "open"
    /\ Go(IF source.noforwards THEN "upload" ELSE "reuse")
    /\ UNCHANGED <<source, saved, astray>>

SendReuse ==
    /\ send.pc = "reuse"
    /\ saved' = [saved EXCEPT !.intact = @ + 1]
    /\ send' = [send EXCEPT !.pc = "read", !.method = "server_reuse"]
    /\ UNCHANGED <<source, astray, temp>>

\* Mutant: any error of the first send is followed by the upload.
FallsBackAlways(answer) == source.kind = "video"

\* Only a rejected file reference proves that nothing was sent.
FallsBack(answer) == source.kind = "video" /\ answer = "reference rejected"

\* The answers that are errors: the request is refused for its reference or for
\* another reason, or the answer is lost and the request may be carried out now,
\* later or never.
ReuseFails(answer) ==
    /\ send.pc = "reuse"
    /\ IF answer = "lost"
       THEN \/ saved' = [saved EXCEPT !.intact = @ + 1] /\ UNCHANGED astray
            \/ astray' = astray + 1 /\ UNCHANGED saved
       ELSE UNCHANGED <<saved, astray>>
    /\ IF FallsBack(answer) THEN Go("upload") ELSE Return("failed")
    /\ UNCHANGED source

\* The static thumbnail is needed for the upload of a video.
UploadPayload ==
    /\ send.pc = "upload"
    /\ source.kind = "video" => source.preview
    /\ send' = [send EXCEPT !.pc = "send",
                            !.method = IF source.kind = "video" THEN "exact_upload" ELSE @]
    /\ UNCHANGED <<source, saved, astray, temp>>

SendPayload ==
    /\ send.pc = "send"
    /\ saved' = [saved EXCEPT !.intact = @ + 1]
    /\ Go("read")
    /\ UNCHANGED <<source, astray>>

\* The send fails, or it succeeds and its answer is lost or names no message.
SendFails ==
    /\ send.pc = "send"
    /\ \/ UNCHANGED <<saved, astray>>
       \/ saved' = [saved EXCEPT !.intact = @ + 1] /\ UNCHANGED astray
       \/ astray' = astray + 1 /\ UNCHANGED saved
    /\ Return("failed")
    /\ UNCHANGED source

ReadBackFails ==
    /\ send.pc = "read"
    /\ IF send.tries + 1 < ReadTries
       THEN send' = [send EXCEPT !.tries = @ + 1] /\ UNCHANGED temp
       ELSE Return("failed")
    /\ UNCHANGED <<source, saved, astray>>

\* The message is there, as it was sent or as another client left it.
ReadBack ==
    /\ send.pc = "read" /\ Copies > 0
    /\ IF saved.changed = 0 THEN Go("compare") ELSE Return("failed")
    /\ UNCHANGED <<source, saved, astray>>

\* The preview of a copy is downloaded and compared before the result is
\* verified.
CompareCopy ==
    /\ send.pc = "compare"
    /\ Return("done")
    /\ UNCHANGED <<source, saved, astray>>

\* A failing check, download, upload or comparison ends the run.
Fail ==
    /\ send.pc \in {"idle", "open", "upload", "compare"}
    /\ Return("failed")
    /\ UNCHANGED <<source, saved, astray>>

-----------------------------------------------------------------------------
(* Telegram and the owner's other clients *)

ArriveLate ==
    /\ astray > 0
    /\ astray' = astray - 1
    /\ saved' = [saved EXCEPT !.intact = @ + 1]
    /\ UNCHANGED <<source, temp, send>>

ChangeSaved ==
    /\ saved.intact > 0
    /\ saved' = [saved EXCEPT !.intact = @ - 1, !.changed = @ + 1]
    /\ UNCHANGED <<source, astray, temp, send>>

SavedNext ==
    \/ Prepare \/ OpenVideo \/ SendReuse \/ UploadPayload \/ SendPayload \/ SendFails
    \/ ReadBack \/ ReadBackFails \/ CompareCopy \/ Fail \/ ArriveLate \/ ChangeSaved
    \/ \E answer \in {"reference rejected", "refused", "lost"} : ReuseFails(answer)

SavedSpec == SavedInit /\ [][SavedNext]_savedVars

-----------------------------------------------------------------------------
(* Properties *)

\* One run sends its payload at most once, also when the first request of a
\* video has an unknown outcome and the server keeps no memory of random IDs
\* (send_saved.go:531-533).
SavedOnce == Copies + astray <= 1
=============================================================================
