----------------------------- MODULE AgentView -----------------------------
(***************************************************************************)
(* agent-view (agent_view.go, agent_view_incremental.go): a directory of    *)
(* Markdown files is derived from a JSONL archive.  A run appends what the *)
(* archive gained since the size its manifest remembers, or builds the     *)
(* directory anew.  The locks on both paths make runs and synchronisations *)
(* sequential, and an archive with an unfinished publication is refused.   *)
(***************************************************************************)
EXTENDS Integers, Sequences, FiniteSets

CONSTANTS
    MaxID,       \* messages, in the order of their dates
    Hidden,      \* those the options leave out: service, or before --since
    RecentLimit, \* length of all-recent.md
    MaxLines,    \* bound on the archive
    MaxKills     \* bound on interrupted runs and resets

MessageIDs == 1..MaxID

ASSUME ViewConstants ==
    Hidden \subseteq MessageIDs /\ {MaxID, RecentLimit, MaxLines, MaxKills} \subseteq Nat

VARIABLES
    archive,    \* the lines of the source
    pending,    \* the source has a publication marker
    days,       \* how often all day files together have a line
    recent,     \* all-recent.md
    manifest,   \* the state of the view: none, broken, or what it records
    view,       \* the run
    fresh,      \* the last run ended well, and the source is as it was then
    tainted,    \* an update was interrupted, or the archive rewritten, after the last rebuild
    kills

viewVars == <<archive, pending, days, recent, manifest, view, fresh, tainted, kills>>

Line == [id : MessageIDs, v : 1..2, revision : BOOLEAN]

\* The size of the first n lines; an edited message is a longer line.
SizeTo(n) == n + Cardinality({i \in 1..n : archive[i].v = 2})
Size      == SizeTo(Len(archive))

NoManifest     == [size |-> 0, recent |-> {}, is |-> "none"]
BrokenManifest == [NoManifest EXCEPT !.is = "broken"]

ViewTypeOK ==
    /\ archive \in Seq(Line) /\ Len(archive) <= MaxLines /\ pending \in BOOLEAN
    /\ days \in [Line -> Nat] /\ recent \subseteq Line
    /\ manifest.size \in Nat /\ manifest.recent \subseteq Line
    /\ manifest.is \in {"none", "broken", "whole"}
    /\ view \in {"idle", "remove", "write", "record", "append", "index", "extend"}
    /\ fresh \in BOOLEAN /\ tainted \in BOOLEAN /\ kills \in 0..MaxKills

NoDays == [r \in Line |-> 0]

ViewInit ==
    /\ archive = << >> /\ pending = FALSE /\ days = NoDays /\ recent = {}
    /\ manifest = NoManifest /\ view = "idle"
    /\ fresh = FALSE /\ tainted = FALSE /\ kills = 0

\* The lines of messages that the options do not leave out.
Visible == {i \in DOMAIN archive : archive[i].id \notin Hidden}

\* latestMessageRecords: the last record of every visible message, of n lines.
Latest(n) ==
    {archive[i] : i \in {i \in Visible \cap 1..n :
                            \A j \in i + 1..n : archive[j].id # archive[i].id}}

\* limitedRecentRecords: the newest by date.
Newest(records) ==
    {r \in records : Cardinality({q \in records : q.id > r.id}) < RecentLimit}

AtBoundary(offset) == \E n \in 0..Len(archive) : SizeTo(n) = offset

\* How many lines are before an offset that is the start of a line.
LinesBefore(offset) == CHOOSE n \in 0..Len(archive) : SizeTo(n) = offset

\* The visible lines behind the offset that the manifest remembers.
Gained == Visible \cap LinesBefore(manifest.size) + 1..Len(archive)

\* The day files with some lines more.
WithLines(lines) == [r \in Line |-> days[r] + Cardinality({i \in lines : archive[i] = r})]

-----------------------------------------------------------------------------
(* A run *)

\* Mutant: an update appends revisions like new messages.
RebuildsForLoss ==
    \/ manifest.is = "none"
    \/ Size < manifest.size
    \/ ~AtBoundary(manifest.size)

Rebuilds ==
    \/ manifest.is = "none"
    \/ Size < manifest.size
    \/ ~AtBoundary(manifest.size)
    \/ \E i \in Gained : archive[i].revision

StartView(rebuild) ==
    /\ view = "idle" /\ ~pending
    /\ rebuild \/ manifest.is # "broken"
    /\ IF rebuild \/ Rebuilds THEN view' = "remove" /\ fresh' = FALSE
       ELSE IF Size = manifest.size THEN fresh' = TRUE /\ UNCHANGED view
       ELSE view' = "append" /\ fresh' = FALSE
    /\ UNCHANGED <<archive, pending, days, recent, manifest, tainted, kills>>

RemoveView ==
    /\ view = "remove"
    /\ days' = NoDays /\ recent' = {} /\ manifest' = NoManifest /\ view' = "write"
    /\ UNCHANGED <<archive, pending, fresh, tainted, kills>>

WriteView ==
    /\ view = "write"
    /\ days' = [r \in Line |-> IF r \in Latest(Len(archive)) THEN 1 ELSE 0]
    /\ recent' = Newest(Latest(Len(archive)))
    /\ view' = "record"
    /\ UNCHANGED <<archive, pending, manifest, fresh, tainted, kills>>

RecordManifest ==
    /\ view = "record"
    /\ manifest' = [size |-> Size, is |-> "whole", recent |-> recent]
    /\ view' = "idle" /\ fresh' = TRUE /\ tainted' = FALSE
    /\ UNCHANGED <<archive, pending, days, recent, kills>>

AppendDays ==
    /\ view = "append"
    /\ days' = WithLines(Gained) /\ view' = "index"
    /\ UNCHANGED <<archive, pending, recent, manifest, fresh, tainted, kills>>

WriteIndex ==
    /\ view = "index"
    /\ recent' = Newest(manifest.recent \cup {archive[i] : i \in Gained})
    /\ view' = "extend"
    /\ UNCHANGED <<archive, pending, days, manifest, fresh, tainted, kills>>

ExtendManifest ==
    /\ view = "extend"
    /\ manifest' = [manifest EXCEPT !.size = Size, !.recent = recent]
    /\ view' = "idle" /\ fresh' = TRUE
    /\ UNCHANGED <<archive, pending, days, recent, tainted, kills>>

\* A kill or an error; while the manifest is written it leaves half of it, and
\* while day files are appended some of them have their lines.
KillView ==
    /\ view # "idle" /\ kills < MaxKills
    /\ view' = "idle" /\ kills' = kills + 1
    /\ tainted' = (tainted \/ view \in {"append", "index", "extend"})
    /\ \/ view \in {"record", "extend"} /\ manifest' = BrokenManifest /\ UNCHANGED <<days, recent>>
       \/ /\ view = "append"
          /\ \E n \in 0..Len(archive) : days' = WithLines(Gained \cap 1..n)
          /\ UNCHANGED <<manifest, recent>>
       \/ view # "append" /\ UNCHANGED <<manifest, days, recent>>
    /\ UNCHANGED <<archive, pending, fresh>>

-----------------------------------------------------------------------------
(* sync *)

Versions(id) == {archive[i].v : i \in {i \in DOMAIN archive : archive[i].id = id}}

BeginSync ==
    /\ view = "idle" /\ ~pending
    /\ pending' = TRUE /\ fresh' = FALSE
    /\ UNCHANGED <<archive, days, recent, manifest, view, tainted, kills>>

\* A new message is appended, or a changed one as a revision.
PublishLine(id) ==
    /\ pending /\ Len(archive) < MaxLines
    /\ \/ /\ Versions(id) = {} /\ \A q \in MessageIDs : q > id => Versions(q) = {}
          /\ archive' = Append(archive, [id |-> id, v |-> 1, revision |-> FALSE])
       \/ /\ Versions(id) = {1}
          /\ archive' = Append(archive, [id |-> id, v |-> 2, revision |-> TRUE])
    /\ UNCHANGED <<pending, days, recent, manifest, view, fresh, tainted, kills>>

\* --reset writes the archive anew, newest first, in its present versions.
ResetArchive ==
    /\ pending /\ kills < MaxKills /\ archive # << >>
    /\ LET last == {i \in DOMAIN archive :
                       \A j \in i + 1..Len(archive) : archive[j].id # archive[i].id}
       IN  \E kept \in [1..Cardinality(last) -> last] :
             /\ \A i, k \in DOMAIN kept : i < k => archive[kept[i]].id > archive[kept[k]].id
             /\ archive' = [i \in DOMAIN kept |-> [archive[kept[i]] EXCEPT !.revision = FALSE]]
    /\ tainted' = TRUE /\ kills' = kills + 1
    /\ UNCHANGED <<pending, days, recent, manifest, view, fresh>>

EndSync ==
    /\ pending
    /\ pending' = FALSE
    /\ UNCHANGED <<archive, days, recent, manifest, view, fresh, tainted, kills>>

ViewNext ==
    \/ \E rebuild \in BOOLEAN : StartView(rebuild)
    \/ RemoveView \/ WriteView \/ RecordManifest
    \/ AppendDays \/ WriteIndex \/ ExtendManifest \/ KillView
    \/ BeginSync \/ ResetArchive \/ EndSync
    \/ \E id \in MessageIDs : PublishLine(id)

ViewSpec == ViewInit /\ [][ViewNext]_viewVars

-----------------------------------------------------------------------------
(* Properties *)

\* What a rebuild would show: every visible message once, in its last version.
ShowsLatest ==
    LET latest == Latest(Len(archive)) IN
    /\ \A r \in Line : days[r] = IF r \in latest THEN 1 ELSE 0
    /\ recent = Newest(latest)

\* A run that ended well leaves what a rebuild would, if the archive only grew
\* since the last rebuild and no update was interrupted
\* (docs/collection-integrity.md:40, agent_view_incremental.go:84-147).
UpdateIsRebuild == fresh /\ ~tainted => ShowsLatest
=============================================================================
