------------------------------- MODULE Recap -------------------------------
(***************************************************************************)
(* daily-catchup --recap (daily_recap.go): a bundle of sources for a        *)
(* narrative is prepared in a directory of its own, a proven prefix of the *)
(* former bundle is used again, and only the confirmation that a narrative *)
(* was delivered moves the boundary from which the next bundle begins.     *)
(* Dates are clock ticks, with one message at each.  The lock on the state *)
(* file makes runs sequential.                                             *)
(***************************************************************************)
EXTENDS Naturals, FiniteSets

CONSTANTS
    MaxNow,      \* bound on the clock
    Ids,         \* names of bundle directories
    Scopes,      \* account and dialogs a profile is configured for
    Settings,    \* processing options and ASR identity
    Refs,        \* references to delivered narratives
    MaxCrashes   \* bound on killed runs

Dates == 1..MaxNow
None  == [id |-> "none"]

ASSUME RecapConstants ==
    /\ MaxNow \in Nat \ {0} /\ MaxCrashes \in Nat
    /\ "none" \notin Ids \cup Refs \cup Scopes

VARIABLES
    now,        \* the local clock
    failing,    \* dates of messages whose media cannot be read at present
    scope,      \* the scope of the configuration
    recap,      \* the state file
    dirs,       \* id -> the files in that directory
    prepare,    \* the run
    covered,    \* dates that confirmed bundles had without a gap
    since,      \* the first date of the first confirmed bundle
    crashes

recapVars == <<now, failing, scope, recap, dirs, prepare, covered, since, crashes>>

Record == [date : Dates, scope : Scopes, settings : Settings, gap : BOOLEAN]
Bundle == [id : Ids, from : Dates, to : Dates, reusable : Dates, settings : Settings,
           ready : BOOLEAN, files : SUBSET Record]

NoRecap   == [scope |-> "none", through |-> 0, ref |-> "none", prepared |-> None]
NoPrepare == [pc |-> "idle"]

RecapInit ==
    /\ now = 1 /\ failing = {} /\ scope \in Scopes
    /\ recap = NoRecap /\ dirs = << >> /\ prepare = NoPrepare
    /\ covered = {} /\ since = 0 /\ crashes = 0

RecapTypeOK ==
    /\ now \in Dates /\ failing \subseteq Dates /\ scope \in Scopes
    /\ recap.scope \in Scopes \cup {"none"} /\ recap.through \in 0..MaxNow
    /\ recap.ref \in Refs \cup {"none"}
    /\ recap.prepared = None \/ recap.prepared \in Bundle
    /\ DOMAIN dirs \subseteq Ids /\ \A i \in DOMAIN dirs : dirs[i] \in {"building", "whole", "damaged"}
    /\ prepare.pc \in {"idle", "begin", "collect", "save", "clean"}
    /\ covered \subseteq Dates /\ since \in 0..MaxNow /\ crashes \in 0..MaxCrashes

-----------------------------------------------------------------------------
(* Preparing a bundle *)

\* recapBounds, with from = 0 for a command without --from.
Begins(from) ==
    IF from # 0 THEN from
    ELSE IF recap.through # 0 THEN recap.through
    ELSE IF recap.prepared # None THEN recap.prepared.from ELSE 0

\* Another account or scope needs an explicit start, and forgets the boundary.
Known(from) == IF recap.scope \in {"none", scope} THEN recap
               ELSE [NoRecap EXCEPT !.scope = scope]

StartRecap(from, to, settings) ==
    /\ prepare.pc = "idle"
    /\ Begins(from) # 0 /\ Begins(from) < to /\ to <= now
    /\ from = 0 => recap.scope \in {"none", scope}
    /\ prepare' = [pc |-> "begin", from |-> Begins(from), to |-> to, settings |-> settings,
                   state |-> [Known(from) EXCEPT !.scope = scope]]
    /\ UNCHANGED <<now, failing, scope, recap, dirs, covered, since, crashes>>

\* loadRecapRecords checks the hash of every file.
Sound(b) == b.id \in DOMAIN dirs /\ dirs[b.id] = "whole"

\* Mutant: the settings of the former bundle are not compared.
UsableWhatever(b) ==
    b # None /\ b.from <= prepare.from /\ b.reusable > prepare.from /\ Sound(b)

Usable(b) ==
    /\ b # None /\ b.settings = prepare.settings
    /\ b.from <= prepare.from /\ b.reusable > prepare.from
    /\ Sound(b)

\* MkdirTemp; the prefix is loaded before.
BeginBundle(id) ==
    /\ prepare.pc = "begin" /\ id \notin DOMAIN dirs
    /\ LET b == prepare.state.prepared IN
       /\ b # None => id # b.id
       /\ prepare' = [pc |-> "collect", from |-> prepare.from, to |-> prepare.to,
                      settings |-> prepare.settings, state |-> prepare.state, id |-> id,
                      cached  |-> IF Usable(b) THEN b.files ELSE {},
                      through |-> IF Usable(b) THEN b.reusable ELSE prepare.from]
    /\ dirs' = [i \in DOMAIN dirs \cup {id} |-> IF i = id THEN "building" ELSE dirs[i]]
    /\ UNCHANGED <<now, failing, scope, recap, covered, since, crashes>>

InRange(d) == prepare.from <= d /\ d < prepare.to

\* recapRangeDumper: the prefix comes from the former bundle, the rest is read.
Cached == {r \in prepare.cached : InRange(r.date) /\ r.date < prepare.through}
Read   == {[date |-> d, scope |-> scope, settings |-> prepare.settings, gap |-> d \in failing] :
              d \in {d \in Dates : InRange(d) /\ d >= prepare.through}}
Gaps   == {r.date : r \in {r \in Read : r.gap}}

Reusable == IF Gaps = {} THEN prepare.to ELSE CHOOSE d \in Gaps : \A e \in Gaps : d <= e

\* Mutant: superseded directories are removed when the new files are written.
CollectAndClean ==
    /\ prepare.pc = "collect"
    /\ prepare' = [pc |-> "save", state |-> prepare.state,
                   bundle |-> [id |-> prepare.id, from |-> prepare.from, to |-> prepare.to,
                               reusable |-> Reusable, settings |-> prepare.settings,
                               ready |-> Gaps = {}, files |-> Cached \cup Read]]
    /\ dirs' = [i \in {prepare.id} |-> "whole"]
    /\ UNCHANGED <<now, failing, scope, recap, covered, since, crashes>>

Collect ==
    /\ prepare.pc = "collect"
    /\ prepare' = [pc |-> "save", state |-> prepare.state,
                   bundle |-> [id |-> prepare.id, from |-> prepare.from, to |-> prepare.to,
                               reusable |-> Reusable, settings |-> prepare.settings,
                               ready |-> Gaps = {}, files |-> Cached \cup Read]]
    /\ dirs' = [dirs EXCEPT ![prepare.id] = "whole"]
    /\ UNCHANGED <<now, failing, scope, recap, covered, since, crashes>>

\* An error of the collection, of writing or of reading the files back: the
\* directory is removed.
CollectFails ==
    /\ prepare.pc = "collect"
    /\ dirs' = [i \in DOMAIN dirs \ {prepare.id} |-> dirs[i]]
    /\ prepare' = NoPrepare
    /\ UNCHANGED <<now, failing, scope, recap, covered, since, crashes>>

\* The state file is replaced in one rename.
SaveRecap ==
    /\ prepare.pc = "save"
    /\ recap' = [prepare.state EXCEPT !.prepared = prepare.bundle]
    /\ IF recap'.through = 0 THEN covered' = {} /\ since' = 0 ELSE UNCHANGED <<covered, since>>
    /\ prepare' = [pc |-> "clean", id |-> prepare.bundle.id]
    /\ UNCHANGED <<now, failing, scope, dirs, crashes>>

\* Superseded and abandoned directories are removed, as far as that succeeds.
CleanUp(id) ==
    /\ prepare.pc = "clean" /\ id \in DOMAIN dirs \ {prepare.id}
    /\ dirs' = [i \in DOMAIN dirs \ {id} |-> dirs[i]]
    /\ UNCHANGED <<now, failing, scope, recap, prepare, covered, since, crashes>>

EndRecap ==
    /\ prepare.pc = "clean"
    /\ prepare' = NoPrepare
    /\ UNCHANGED <<now, failing, scope, recap, dirs, covered, since, crashes>>

CrashRecap ==
    /\ prepare.pc # "idle" /\ crashes < MaxCrashes
    /\ prepare' = NoPrepare /\ crashes' = crashes + 1
    /\ UNCHANGED <<now, failing, scope, recap, dirs, covered, since>>

-----------------------------------------------------------------------------
(* Confirming a delivery *)

\* Mutant: a bundle that begins after the boundary is accepted.
MovesForwardAnyhow(b) == b.to > recap.through

MovesForward(b) == recap.through = 0 \/ (b.from <= recap.through /\ recap.through < b.to)

ConfirmRecap(id, ref) ==
    /\ prepare.pc = "idle"
    /\ LET b == recap.prepared IN
       /\ b # None /\ b.id = id /\ b.ready /\ Sound(b)
       /\ MovesForward(b)
       /\ recap' = [recap EXCEPT !.through = b.to, !.ref = ref]
       /\ covered' = covered \cup {r.date : r \in {r \in b.files : ~r.gap}}
       /\ since' = IF recap.through = 0 THEN b.from ELSE since
    /\ UNCHANGED <<now, failing, scope, dirs, prepare, crashes>>

-----------------------------------------------------------------------------
(* The world *)

\* Media that could not be read becomes readable, and the other way round.
TickRecap ==
    /\ now < MaxNow
    /\ now' = now + 1
    /\ \E f \in {failing, failing \cup {now}} : failing' = f
    /\ UNCHANGED <<scope, recap, dirs, prepare, covered, since, crashes>>

Recover(d) ==
    /\ d \in failing
    /\ failing' = failing \ {d}
    /\ UNCHANGED <<now, scope, recap, dirs, prepare, covered, since, crashes>>

\* A power loss empties files that were not synced, or somebody changes them.
DamageFiles(id) ==
    /\ id \in DOMAIN dirs /\ dirs[id] = "whole" /\ prepare.pc \in {"idle", "begin"}
    /\ dirs' = [dirs EXCEPT ![id] = "damaged"]
    /\ UNCHANGED <<now, failing, scope, recap, prepare, covered, since, crashes>>

ChangeScope(s) ==
    /\ prepare.pc = "idle" /\ s # scope
    /\ scope' = s
    /\ UNCHANGED <<now, failing, recap, dirs, prepare, covered, since, crashes>>

RecapNext ==
    \/ \E from \in 0..MaxNow, to \in Dates, settings \in Settings : StartRecap(from, to, settings)
    \/ \E id \in Ids : BeginBundle(id) \/ CleanUp(id) \/ DamageFiles(id)
    \/ \E id \in Ids, ref \in Refs : ConfirmRecap(id, ref)
    \/ Collect \/ CollectFails \/ SaveRecap \/ EndRecap \/ CrashRecap \/ TickRecap
    \/ \E d \in Dates : Recover(d)
    \/ \E s \in Scopes : ChangeScope(s)

RecapSpec == RecapInit /\ [][RecapNext]_recapVars

-----------------------------------------------------------------------------
(* Properties *)

\* A bundle assembled from a cached prefix and a new tail is what one reading of
\* the whole range with its scope and settings would be, and its reusable prefix
\* and a ready bundle have no gap (docs/catch-up.md:28).
ReusedIsReread ==
    LET b == recap.prepared IN b # None =>
        /\ {r.date : r \in b.files} = b.from..b.to - 1
        /\ \A r \in b.files : r.scope = recap.scope /\ r.settings = b.settings
        /\ \A r \in b.files : r.gap => ~b.ready /\ b.reusable <= r.date

\* Between the start of the first delivered recap and the boundary every message
\* was delivered, with its media: no order of confirmations skips one
\* (daily_recap.go:206-211).
DeliveredWithoutGap == recap.through # 0 => \A d \in since..recap.through - 1 : d \in covered

\* The bundle the state names is there after a crash at any point of the
\* preparation of another one (daily_recap.go:370-386).
PreparedStands == recap.prepared # None => recap.prepared.id \in DOMAIN dirs
=============================================================================
