--------------------------- MODULE AccountOrganize ---------------------------
(***************************************************************************)
(* account-organize: internal/mtproto/account_organize.go.  Reviewed       *)
(* dialogs are added to one folder and archived, if their last message is  *)
(* still the reviewed one.  Telegram offers neither a transaction nor a    *)
(* compare-and-set: every write is preceded by a fresh read and followed   *)
(* by a readback, and other clients and correspondents act in between.     *)
(***************************************************************************)
EXTENDS Naturals, Sequences

CONSTANTS
    Peers,      \* the dialogs of the manifest, in order
    MaxEdits,   \* bound on what other clients change in the folder
    MaxStops    \* bound on interrupted runs and failed writes

PeerSet == {Peers[i] : i \in DOMAIN Peers}

ASSUME OrganizeConstants == MaxEdits \in Nat /\ MaxStops \in Nat

\* A manifest lists a dialog once (account_organize.go:133-136).
ASSUME UniquePeers ==
    /\ Peers \in Seq(PeerSet)
    /\ \A i, j \in DOMAIN Peers : Peers[i] = Peers[j] => i = j

VARIABLES
    folder,     \* the filter on the server: our peers in it, all the rest
    replied,    \* peers whose last message is not the reviewed one
    archived,   \* peers in the archive
    hasty,      \* peers that were archived over an unreviewed message
    organize,   \* the run
    stops

organizeVars == <<folder, replied, archived, hasty, organize, stops>>

Folders     == [members : SUBSET PeerSet, settings : 0..MaxEdits]
OrganizePcs == {"idle", "heads", "reread", "write", "confirm", "peer", "archive", "readback"}

OrganizeTypeOK ==
    /\ folder \in Folders
    /\ replied \subseteq PeerSet /\ archived \subseteq PeerSet /\ hasty \subseteq PeerSet
    /\ organize \in [pc : OrganizePcs, apply : BOOLEAN, i : 1..Len(Peers) + 1,
                     copy : Folders, verified : SUBSET PeerSet]
    /\ stops \in 0..MaxStops

NoFolder   == [members |-> {}, settings |-> 0]
NoOrganize == [pc |-> "idle", apply |-> FALSE, i |-> 1, copy |-> NoFolder, verified |-> {}]

OrganizeInit ==
    /\ folder = NoFolder /\ replied = {} /\ archived = {} /\ hasty = {}
    /\ organize = NoOrganize /\ stops = 0

Peer          == Peers[organize.i]
OrganizeTo(p) == organize' = [organize EXCEPT !.pc = p]

\* mergeCompletedWorkFolder: everything is copied, missing peers are added.
Merged(f) == [f EXCEPT !.members = PeerSet]

-----------------------------------------------------------------------------
\* The first merge is only checked for conflicts.
StartOrganize(apply) ==
    /\ organize.pc = "idle"
    /\ organize' = [NoOrganize EXCEPT !.pc = "heads", !.apply = apply, !.copy = Merged(folder)]
    /\ UNCHANGED <<folder, replied, archived, hasty, stops>>

CheckHead ==
    /\ organize.pc = "heads" /\ organize.i <= Len(Peers) /\ Peer \notin replied
    /\ organize' = [organize EXCEPT !.i = @ + 1]
    /\ UNCHANGED <<folder, replied, archived, hasty, stops>>

EndHeads ==
    /\ organize.pc = "heads" /\ organize.i > Len(Peers)
    /\ organize' = IF organize.apply THEN [organize EXCEPT !.pc = "reread", !.i = 1] ELSE NoOrganize
    /\ UNCHANGED <<folder, replied, archived, hasty, stops>>

\* Mutant: the copy made before the heads were read is written.
RereadNothing ==
    /\ organize.pc = "reread"
    /\ OrganizeTo(IF folder # organize.copy THEN "write" ELSE "confirm")
    /\ UNCHANGED <<folder, replied, archived, hasty, stops>>

\* The filters are read again, for what other clients did meanwhile.
Reread ==
    /\ organize.pc = "reread"
    /\ organize' = [organize EXCEPT !.copy = Merged(folder),
                                    !.pc = IF folder # Merged(folder) THEN "write" ELSE "confirm"]
    /\ UNCHANGED <<folder, replied, archived, hasty, stops>>

WriteFolder ==
    /\ organize.pc = "write"
    /\ folder' = organize.copy /\ OrganizeTo("confirm")
    /\ UNCHANGED <<replied, archived, hasty, stops>>

\* Rejected, or carried out without an answer.
WriteFails ==
    /\ organize.pc = "write" /\ stops < MaxStops
    /\ folder' \in {folder, organize.copy}
    /\ organize' = NoOrganize /\ stops' = stops + 1
    /\ UNCHANGED <<replied, archived, hasty>>

\* verifyCompletedWorkFilter compares every field.
ConfirmFolder ==
    /\ organize.pc = "confirm" /\ folder = organize.copy
    /\ OrganizeTo("peer")
    /\ UNCHANGED <<folder, replied, archived, hasty, stops>>

CheckPeer ==
    /\ organize.pc = "peer" /\ organize.i <= Len(Peers) /\ Peer \notin replied
    /\ OrganizeTo(IF Peer \in archived THEN "readback" ELSE "archive")
    /\ UNCHANGED <<folder, replied, archived, hasty, stops>>

PeerArchived ==
    /\ archived' = archived \cup {Peer}
    /\ hasty' = IF Peer \in replied THEN hasty \cup {Peer} ELSE hasty

ArchivePeer ==
    /\ organize.pc = "archive"
    /\ PeerArchived /\ OrganizeTo("readback")
    /\ UNCHANGED <<folder, replied, stops>>

ArchiveFails ==
    /\ organize.pc = "archive" /\ stops < MaxStops
    /\ PeerArchived \/ UNCHANGED <<archived, hasty>>
    /\ organize' = NoOrganize /\ stops' = stops + 1
    /\ UNCHANGED <<folder, replied>>

\* Mutant: only the archive is read back.
ReadbackArchive ==
    /\ organize.pc = "readback" /\ Peer \in archived
    /\ organize' = [organize EXCEPT !.pc = "peer", !.i = @ + 1, !.verified = @ \cup {Peer}]
    /\ UNCHANGED <<folder, replied, archived, hasty, stops>>

\* Head, archive, the whole filter and the membership, from the server.
ReadbackPeer ==
    /\ organize.pc = "readback"
    /\ Peer \notin replied /\ Peer \in archived /\ folder = organize.copy
    /\ organize' = [organize EXCEPT !.pc = "peer", !.i = @ + 1, !.verified = @ \cup {Peer}]
    /\ UNCHANGED <<folder, replied, archived, hasty, stops>>

EndOrganize ==
    /\ organize.pc = "peer" /\ organize.i > Len(Peers)
    /\ organize' = NoOrganize
    /\ UNCHANGED <<folder, replied, archived, hasty, stops>>

StopOrganize ==
    /\ \/ organize.pc \in {"heads", "peer"} /\ organize.i <= Len(Peers) /\ Peer \in replied
       \/ organize.pc = "confirm" /\ folder # organize.copy
       \/ organize.pc = "readback"
          /\ (Peer \in replied \/ Peer \notin archived \/ folder # organize.copy)
    /\ organize' = NoOrganize
    /\ UNCHANGED <<folder, replied, archived, hasty, stops>>

\* A kill, or a read that fails.
BreakOrganize ==
    /\ organize.pc # "idle" /\ stops < MaxStops
    /\ organize' = NoOrganize /\ stops' = stops + 1
    /\ UNCHANGED <<folder, replied, archived, hasty>>

-----------------------------------------------------------------------------
(* Other people and clients *)

\* A message takes an unmuted dialog out of the archive.
Reply(p) ==
    /\ p \notin replied
    /\ replied' = replied \cup {p}
    /\ archived' \in {archived, archived \ {p}}
    /\ UNCHANGED <<folder, hasty, organize, stops>>

\* Another client edits the folder, but not while it is being written: the
\* README asks for that, as Telegram has no compare-and-set.
EditFolder ==
    /\ organize.pc # "write" /\ folder.settings < MaxEdits
    /\ \E members \in {folder.members} \cup {folder.members \ {p} : p \in PeerSet} :
          folder' = [members |-> members, settings |-> folder.settings + 1]
    /\ UNCHANGED <<replied, archived, hasty, organize, stops>>

OrganizeNext ==
    \/ CheckHead \/ EndHeads \/ Reread \/ WriteFolder \/ WriteFails \/ ConfirmFolder
    \/ CheckPeer \/ ArchivePeer \/ ArchiveFails \/ ReadbackPeer \/ EndOrganize
    \/ StopOrganize \/ BreakOrganize \/ EditFolder
    \/ \E apply \in BOOLEAN : StartOrganize(apply)
    \/ \E p \in PeerSet : Reply(p)

OrganizeSpec == OrganizeInit /\ [][OrganizeNext]_organizeVars

-----------------------------------------------------------------------------
(* Properties *)

\* What other clients did to the folder before or during the checks is never
\* written over, whichever writes fail or go unanswered (README.md:145,
\* account_organize.go:210-226).
FolderKept == [][folder'.settings >= folder.settings]_organizeVars

\* A dialog that was archived although somebody had answered is never reported
\* as verified: the reply that raced the archive is seen by the readback
\* (README.md:147, account_organize.go:262-272).
NoHastyVerified == organize.verified \cap hasty = {}
=============================================================================
