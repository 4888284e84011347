--------------------------- MODULE Outputs_proofs ---------------------------
(***************************************************************************)
(* Proofs about what a run makes of the records, and what it needs for     *)
(* that: the bundles of a recap; the attachments that processes with one   *)
(* cache save; the directory of an account; the server of a session, the   *)
(* pacing of its calls, the transcript a long recording gets, the loops    *)
(* cut from a text, and the Markdown view of an archive.                   *)
(***************************************************************************)
EXTENDS Recap, MediaCache, AccountSync, WhisperServer, RpcPacing, Transcript, Repetition, AgentView,
        Integers, FiniteSetsExt, FiniteSetTheorems, TLAPS


(***************************************************************************)
(* Recap: a bundle is what one reading of its range would be, the bundle   *)
(* the state names is there, and the boundary never passes an undelivered  *)
(* message                                                                 *)
(***************************************************************************)

\* What records are in the range from, to of one reading.
Covers(files, from, to) == \A d \in Dates : from <= d /\ d < to => \E r \in files : r.date = d

\* A bundle is one reading of its range, and what is reusable of it has no gap.
GoodBundle(b, s) ==
    /\ b \in Bundle /\ b.from < b.to /\ b.reusable <= b.to
    /\ Covers(b.files, b.from, b.to)
    /\ \A r \in b.files :
           /\ b.from <= r.date /\ r.date < b.to
           /\ r.scope = s /\ r.settings = b.settings
           /\ r.gap = TRUE => b.ready = FALSE /\ b.reusable <= r.date

States == [scope : Scopes \cup {"none"}, through : 0..MaxNow, ref : Refs \cup {"none"},
           prepared : Bundle \cup {None}]

GoodState(st) ==
    /\ st \in States
    /\ st.prepared # None => st.scope \in Scopes /\ GoodBundle(st.prepared, st.scope)

\* The state a run will save is the one on disk, or has forgotten the boundary.
Derived(st) ==
    /\ GoodState(st) /\ st.scope \in Scopes
    /\ st.through \in {0, recap.through}

Beginning == [pc : {"begin"}, from : Dates, to : Dates, settings : Settings, state : States]
Collecting == [pc : {"collect"}, from : Dates, to : Dates, settings : Settings, state : States,
               id : Ids, cached : SUBSET Record, through : Dates]
Saving    == [pc : {"save"}, state : States, bundle : Bundle]
Cleaning  == [pc : {"clean"}, id : Ids]

\* A run between its statements.
PrepareInv ==
    \/ prepare = NoPrepare
    \/ /\ prepare \in Beginning /\ prepare.from < prepare.to
       /\ Derived(prepare.state) /\ prepare.state.scope = scope
    \/ /\ prepare \in Collecting /\ prepare.from < prepare.to
       /\ Derived(prepare.state) /\ prepare.state.scope = scope
       /\ prepare.id \in DOMAIN dirs
       /\ recap.prepared # None => recap.prepared.id # prepare.id
       /\ Covers(prepare.cached, prepare.from, prepare.through)
       /\ \A r \in prepare.cached :
              /\ r.scope = scope /\ r.settings = prepare.settings
              /\ r.gap = TRUE => prepare.through <= r.date
    \/ /\ prepare \in Saving
       /\ Derived(prepare.state) /\ GoodBundle(prepare.bundle, prepare.state.scope)
       /\ prepare.bundle.id \in DOMAIN dirs
    \/ /\ prepare \in Cleaning
       /\ recap.prepared # None /\ recap.prepared.id = prepare.id

RecapInv ==
    /\ scope \in Scopes /\ since \in 0..MaxNow
    /\ GoodState(recap) /\ PrepareInv
    /\ PreparedStands /\ DeliveredWithoutGap

(***************************************************************************)
(* Facts about the operators                                               *)
(***************************************************************************)

\* The absent bundle is none.
LEMMA NoneIsNoBundle == None \notin Bundle /\ None.id = "none"
BY RecapConstants DEF None, Bundle

\* The zero value of a recap state is well formed.
LEMMA NoStateType == GoodState(NoRecap) /\ NoRecap.through = 0 /\ NoRecap.prepared = None
  <1>1. 0 \in 0..MaxNow
    BY RecapConstants
  <1> QED BY <1>1 DEF NoRecap, GoodState, States

\* A set of dates that is not empty has a first one.
LEMMA FirstDate ==
    ASSUME NEW S, S \subseteq Dates, S # {}
    PROVE  LET least == CHOOSE d \in S : \A e \in S : d <= e
           IN  least \in S /\ \A e \in S : least <= e
<1>1. S \subseteq Nat
  BY DEF Dates
<1>2. PICK d \in S : \A e \in S : ~(<<e, d>> \in OpToRel(<, Nat))
  BY <1>1, NatLessThanWellFounded, WFMin
<1>3. \A e \in S : d <= e
  <2> SUFFICES ASSUME NEW e \in S PROVE d <= e
    OBVIOUS
  <2>1. e \in Nat /\ d \in Nat /\ <<e, d>> \notin OpToRel(<, Nat)
    BY <1>1, <1>2
  <2>2. ~(e < d)
    BY <2>1 DEF OpToRel
  <2>3. e \in Nat /\ d \in Nat
    BY <1>1
  <2> QED BY <2>2, <2>3
<1> QED BY <1>3

\* The end of what can be reused: everything, or up to the first gap.
LEMMA ReusableType ==
    ASSUME prepare \in Collecting
    PROVE  /\ Reusable \in Dates /\ (Gaps # {} => \A e \in Gaps : Reusable <= e)
           /\ Gaps = {} => Reusable = prepare.to
           /\ \A e \in Gaps : prepare.from <= e /\ e < prepare.to
<1>1. Gaps \subseteq Dates /\ \A e \in Gaps : prepare.from <= e /\ e < prepare.to
  BY DEF Gaps, Read, InRange
<1>2. CASE Gaps = {}
  BY <1>2 DEF Reusable, Collecting
<1>3. CASE Gaps # {}
  BY <1>1, <1>3, FirstDate DEF Reusable
<1> QED BY <1>1, <1>2, <1>3

\* Before the first command no recap was prepared.
LEMMA RecapInitially == RecapInit => RecapInv
<1> SUFFICES ASSUME RecapInit PROVE RecapInv
  OBVIOUS
<1>1. recap = NoRecap /\ prepare = NoPrepare /\ scope \in Scopes /\ since \in 0..MaxNow
  BY RecapConstants DEF RecapInit
<1>2. GoodState(recap) /\ recap.through = 0 /\ recap.prepared = None
  BY <1>1, NoStateType
<1> QED BY <1>1, <1>2 DEF RecapInv, PrepareInv, PreparedStands, DeliveredWithoutGap

(***************************************************************************)
(* Every step keeps it                                                     *)
(***************************************************************************)

\* A run begins with the state on disk, or without its boundary.
LEMMA StartStep ==
    ASSUME RecapInv, NEW from \in 0..MaxNow, NEW to \in Dates, NEW settings \in Settings,
           StartRecap(from, to, settings)
    PROVE  RecapInv'
<1> DEFINE st == [Known(from) EXCEPT !.scope = scope]
<1>1. Begins(from) \in Dates
  <2>1. Begins(from) \in 0..MaxNow
    <3>1. recap.through \in 0..MaxNow /\ (recap.prepared # None => recap.prepared.from \in Dates)
      BY DEF RecapInv, GoodState, States, GoodBundle, Bundle
    <3>2. 0 \in 0..MaxNow /\ Dates \subseteq 0..MaxNow
      BY RecapConstants DEF Dates
    <3> QED BY <3>1, <3>2 DEF Begins
  <2> QED BY <2>1, RecapConstants DEF StartRecap, Dates
<1>2. Derived(st) /\ st.scope = scope
  <2>0. recap \in States /\ scope \in Scopes
    BY DEF RecapInv, GoodState
  <2>1. CASE recap.scope = scope
    <3>1. st = recap
      BY <2>0, <2>1 DEF Known, States
    <3> QED BY <2>0, <2>1, <3>1 DEF Derived, RecapInv
  <2>2. CASE recap.scope = "none"
    <3>1. st = [recap EXCEPT !.scope = scope] /\ recap.prepared = None
      BY <2>2, RecapConstants DEF Known, RecapInv, GoodState
    <3>2. st \in States /\ st.prepared = None /\ st.scope = scope /\ st.through = recap.through
      BY <2>0, <3>1 DEF States
    <3> QED BY <2>0, <3>2 DEF Derived, GoodState
  <2>3. CASE recap.scope \notin {"none", scope}
    <3>1. st = [NoRecap EXCEPT !.scope = scope]
      BY <2>3 DEF Known, NoRecap
    <3>2. st \in States /\ st.prepared = None /\ st.scope = scope /\ st.through = 0
      BY <2>0, <3>1, NoStateType DEF States, NoRecap, GoodState
    <3> QED BY <2>0, <3>2 DEF Derived, GoodState
  <2> QED BY <2>1, <2>2, <2>3
<1>3. prepare' = [pc |-> "begin", from |-> Begins(from), to |-> to, settings |-> settings,
                  state |-> st]
  BY DEF StartRecap
<1>4. UNCHANGED <<scope, recap, dirs, covered, since>> /\ Begins(from) < to
  BY DEF StartRecap
<1> HIDE DEF st
<1>5. /\ prepare' \in Beginning /\ prepare'.from < prepare'.to
      /\ prepare'.state = st
  BY <1>1, <1>2, <1>3, <1>4 DEF Beginning, Derived, GoodState
<1>6. PrepareInv'
  BY <1>2, <1>4, <1>5 DEF PrepareInv, Derived
<1> QED BY <1>4, <1>6 DEF RecapInv, PreparedStands, DeliveredWithoutGap

\* What is taken from a former bundle is as good as a new reading.
LEMMA BeginStep == ASSUME RecapInv, NEW id \in Ids, BeginBundle(id) PROVE RecapInv'
<1> DEFINE b == prepare.state.prepared
           cached == IF Usable(b) THEN b.files ELSE {}
           through == IF Usable(b) THEN b.reusable ELSE prepare.from
<1>0. /\ prepare \in Beginning /\ prepare.from < prepare.to
      /\ Derived(prepare.state) /\ prepare.state.scope = scope
  BY DEF RecapInv, PrepareInv, BeginBundle, NoPrepare, Collecting, Saving, Cleaning
<1>1. /\ prepare.from \in Dates /\ prepare.to \in Dates /\ prepare.settings \in Settings
      /\ prepare.state \in States
  BY <1>0 DEF Beginning
<1>2. b # None => GoodBundle(b, scope)
  BY <1>0 DEF Derived, GoodState
<1>3. /\ cached \in SUBSET Record /\ through \in Dates
      /\ Covers(cached, prepare.from, through)
      /\ \A r \in cached :
             /\ r.scope = scope /\ r.settings = prepare.settings
             /\ r.gap = TRUE => through <= r.date
  <2>1. CASE Usable(b)
    <3>1. /\ GoodBundle(b, scope) /\ b.settings = prepare.settings /\ b.from <= prepare.from
          /\ b \in Bundle /\ cached = b.files /\ through = b.reusable
      BY <1>2, <2>1 DEF Usable, GoodBundle
    <3>2. b.from \in Nat /\ b.to \in Nat /\ b.reusable \in Dates /\ b.files \in SUBSET Record
      BY <3>1 DEF Bundle, Dates
    <3>3. b.reusable <= b.to
      BY <3>1 DEF GoodBundle
    <3>4. Covers(cached, prepare.from, through)
      <4> SUFFICES ASSUME NEW d \in Dates, prepare.from <= d, d < b.reusable
                   PROVE  \E r \in b.files : r.date = d
        BY <3>1 DEF Covers
      <4>1. b.from <= d /\ d < b.to
        BY <1>1, <3>1, <3>2, <3>3 DEF Dates
      <4> QED BY <3>1, <4>1 DEF GoodBundle, Covers
    <3> QED BY <3>1, <3>2, <3>4 DEF GoodBundle
  <2>2. CASE ~Usable(b)
    <3>1. cached = {} /\ through = prepare.from
      BY <2>2
    <3>2. Covers(cached, prepare.from, through)
      BY <1>1, <3>1 DEF Covers, Dates
    <3> QED BY <1>1, <3>1, <3>2
  <2> QED BY <2>1, <2>2
<1>4. prepare' = [pc |-> "collect", from |-> prepare.from, to |-> prepare.to,
                  settings |-> prepare.settings, state |-> prepare.state, id |-> id,
                  cached |-> cached, through |-> through]
  BY DEF BeginBundle
<1>5. /\ UNCHANGED <<scope, recap, covered, since>> /\ id \notin DOMAIN dirs
      /\ DOMAIN dirs' = DOMAIN dirs \cup {id}
  BY DEF BeginBundle
<1> HIDE DEF b, cached, through
<1>6. prepare' \in Collecting
  BY <1>1, <1>3, <1>4 DEF Collecting
<1>7. recap.prepared # None => recap.prepared.id \in DOMAIN dirs
  BY DEF RecapInv, PreparedStands
<1>8. PrepareInv'
  BY <1>0, <1>3, <1>4, <1>5, <1>6, <1>7 DEF PrepareInv, Derived, Covers
<1>9. PreparedStands' /\ DeliveredWithoutGap'
  BY <1>5, <1>7 DEF RecapInv, PreparedStands, DeliveredWithoutGap
<1> QED BY <1>5, <1>8, <1>9 DEF RecapInv

\* The prefix and the tail are one reading of the range.
LEMMA CollectStep == ASSUME RecapInv, Collect PROVE RecapInv'
<1> DEFINE b == [id |-> prepare.id, from |-> prepare.from, to |-> prepare.to,
                 reusable |-> Reusable, settings |-> prepare.settings,
                 ready |-> Gaps = {}, files |-> Cached \cup Read]
<1>0. /\ prepare \in Collecting /\ prepare.from < prepare.to
      /\ Derived(prepare.state) /\ prepare.state.scope = scope
      /\ prepare.id \in DOMAIN dirs
      /\ Covers(prepare.cached, prepare.from, prepare.through)
      /\ \A r \in prepare.cached :
             /\ r.scope = scope /\ r.settings = prepare.settings
             /\ r.gap = TRUE => prepare.through <= r.date
  BY DEF RecapInv, PrepareInv, Collect, NoPrepare, Beginning, Saving, Cleaning
<1>1. /\ prepare.from \in Dates /\ prepare.to \in Dates /\ prepare.settings \in Settings
      /\ prepare.state \in States /\ prepare.id \in Ids /\ prepare.cached \in SUBSET Record
      /\ prepare.through \in Dates
  BY <1>0 DEF Collecting
<1>2. \A r \in Read : /\ r \in Record /\ InRange(r.date) /\ r.scope = scope
                      /\ r.settings = prepare.settings
                      /\ r.gap = TRUE => r.date \in Gaps
  <2> SUFFICES ASSUME NEW d \in Dates, InRange(d),
                      NEW r, r = [date |-> d, scope |-> scope, settings |-> prepare.settings,
                                  gap |-> d \in failing], r \in Read
               PROVE  /\ r \in Record /\ InRange(r.date) /\ r.scope = scope
                      /\ r.settings = prepare.settings
                      /\ r.gap = TRUE => r.date \in Gaps
    BY DEF Read
  <2>1. scope \in Scopes /\ (d \in failing) \in BOOLEAN
    BY DEF RecapInv
  <2>2. r \in Record
    BY <1>1, <2>1 DEF Record
  <2>3. r.gap = TRUE => r.date \in Gaps
    BY DEF Gaps
  <2> QED BY <2>2, <2>3
<1>3. \A r \in Cached : r \in prepare.cached /\ InRange(r.date) /\ r.date < prepare.through
  BY DEF Cached
<1>4. Covers(Cached \cup Read, prepare.from, prepare.to)
  <2> SUFFICES ASSUME NEW d \in Dates, prepare.from <= d, d < prepare.to
               PROVE  \E r \in Cached \cup Read : r.date = d
    BY DEF Covers
  <2>1. CASE d < prepare.through
    <3>1. PICK r \in prepare.cached : r.date = d
      BY <1>0, <2>1 DEF Covers
    <3>2. r \in Cached
      BY <2>1, <3>1 DEF Cached, InRange
    <3> QED BY <3>1, <3>2
  <2>2. CASE d >= prepare.through
    <3> DEFINE r == [date |-> d, scope |-> scope, settings |-> prepare.settings,
                     gap |-> d \in failing]
    <3>1. r \in Read /\ r.date = d
      BY <2>2 DEF Read, InRange
    <3> QED BY <3>1
  <2> QED BY <1>1, <2>1, <2>2 DEF Dates
<1>5. b \in Bundle
  BY <1>0, <1>1, <1>2, <1>3, ReusableType DEF Bundle
<1>6. b.reusable <= b.to
  <2>1. Gaps # {} => Reusable <= prepare.to
    <3> SUFFICES ASSUME Gaps # {} PROVE Reusable <= prepare.to
      OBVIOUS
    <3>1. PICK e \in Gaps : TRUE
      OBVIOUS
    <3>2. Reusable <= e /\ e < prepare.to /\ Reusable \in Dates /\ e \in Dates
      BY <1>0, <3>1, ReusableType DEF Gaps, Read
    <3> QED BY <1>1, <3>2 DEF Dates
  <2> QED BY <1>0, <1>1, <2>1, ReusableType DEF Dates
<1>7. ASSUME NEW r \in b.files
      PROVE  /\ b.from <= r.date /\ r.date < b.to
             /\ r.scope = scope /\ r.settings = b.settings
             /\ r.gap = TRUE => b.ready = FALSE /\ b.reusable <= r.date
  <2>1. CASE r \in Cached
    <3>1. r.gap # TRUE
      <4>1. r.date \in Dates /\ r.date < prepare.through
        BY <1>1, <1>3, <2>1 DEF Record
      <4>2. r.gap = TRUE => prepare.through <= r.date
        BY <1>0, <1>3, <2>1
      <4>3. ~(prepare.through <= r.date)
        BY <1>1, <4>1 DEF Dates
      <4> QED BY <4>2, <4>3
    <3> QED BY <1>0, <1>3, <2>1, <3>1 DEF InRange
  <2>2. CASE r \in Read
    BY <1>0, <1>2, <2>2, ReusableType DEF InRange
  <2> QED BY <2>1, <2>2
<1>8. GoodBundle(b, scope)
  BY <1>0, <1>4, <1>5, <1>6, <1>7 DEF GoodBundle
<1>9. /\ prepare' = [pc |-> "save", state |-> prepare.state, bundle |-> b]
      /\ DOMAIN dirs' = DOMAIN dirs /\ UNCHANGED <<scope, recap, covered, since>>
  BY DEF Collect
<1> HIDE DEF b
<1>10. prepare' \in Saving
  BY <1>1, <1>5, <1>9 DEF Saving
<1>11. b.id = prepare.id
  BY DEF b
<1>12. PrepareInv'
  BY <1>0, <1>8, <1>9, <1>10, <1>11 DEF PrepareInv, Derived
<1>13. PreparedStands' /\ DeliveredWithoutGap'
  BY <1>9 DEF RecapInv, PreparedStands, DeliveredWithoutGap
<1> QED BY <1>9, <1>12, <1>13 DEF RecapInv

\* The state is replaced in one step.
LEMMA SaveStep == ASSUME RecapInv, SaveRecap PROVE RecapInv'
<1>0. /\ prepare \in Saving
      /\ Derived(prepare.state) /\ GoodBundle(prepare.bundle, prepare.state.scope)
      /\ prepare.bundle.id \in DOMAIN dirs
  BY DEF RecapInv, PrepareInv, SaveRecap, NoPrepare, Beginning, Collecting, Cleaning
<1>1. /\ prepare.state \in States /\ prepare.bundle \in Bundle /\ prepare.bundle.id \in Ids
      /\ prepare.state.scope \in Scopes /\ prepare.state.through \in {0, recap.through}
  BY <1>0 DEF Saving, Bundle, Derived
<1>2. /\ recap' = [prepare.state EXCEPT !.prepared = prepare.bundle]
      /\ UNCHANGED <<scope, dirs>> /\ prepare' = [pc |-> "clean", id |-> prepare.bundle.id]
  BY DEF SaveRecap
<1>3. /\ recap' \in States /\ recap'.prepared = prepare.bundle
      /\ recap'.scope = prepare.state.scope /\ recap'.through = prepare.state.through
  BY <1>1, <1>2 DEF States
<1>4. GoodState(recap')
  BY <1>0, <1>1, <1>3 DEF GoodState
<1>5. recap'.prepared # None
  BY <1>1, <1>3, NoneIsNoBundle
<1>6. prepare' \in Cleaning /\ prepare'.id = recap'.prepared.id
  BY <1>1, <1>2, <1>3 DEF Cleaning
<1>7. PrepareInv'
  BY <1>5, <1>6 DEF PrepareInv
<1>8. PreparedStands'
  BY <1>0, <1>2, <1>3 DEF PreparedStands
<1>9. DeliveredWithoutGap' /\ since' \in 0..MaxNow
  <2>1. CASE recap'.through = 0
    BY <2>1, RecapConstants DEF SaveRecap, DeliveredWithoutGap
  <2>2. CASE recap'.through # 0
    <3>1. UNCHANGED <<covered, since>> /\ recap'.through = recap.through
      BY <1>1, <1>3, <2>2 DEF SaveRecap
    <3> QED BY <2>2, <3>1 DEF RecapInv, DeliveredWithoutGap
  <2> QED BY <2>1, <2>2
<1> QED BY <1>2, <1>4, <1>7, <1>8, <1>9 DEF RecapInv

\* A confirmation moves the boundary over what the bundle has.
LEMMA ConfirmStep ==
    ASSUME RecapInv, NEW id \in Ids, NEW ref \in Refs, ConfirmRecap(id, ref) PROVE RecapInv'
<1> DEFINE b == recap.prepared
<1>1. /\ b # None /\ b.ready /\ MovesForward(b) /\ prepare.pc = "idle"
      /\ recap' = [recap EXCEPT !.through = b.to, !.ref = ref]
      /\ covered' = covered \cup {r.date : r \in {r \in b.files : ~r.gap}}
      /\ since' = IF recap.through = 0 THEN b.from ELSE since
      /\ UNCHANGED <<scope, dirs, prepare>>
  BY DEF ConfirmRecap
<1>2. recap \in States /\ recap.scope \in Scopes /\ GoodBundle(b, recap.scope)
  BY <1>1 DEF RecapInv, GoodState
<1>3. /\ b \in Bundle /\ b.from \in Dates /\ b.to \in Dates /\ b.ready = TRUE
      /\ recap.through \in 0..MaxNow /\ since \in 0..MaxNow /\ Dates \subseteq 0..MaxNow
  BY <1>1, <1>2, RecapConstants DEF GoodBundle, Bundle, States, Dates, RecapInv
<1>4. /\ recap' \in States /\ recap'.prepared = b /\ recap'.scope = recap.scope
      /\ recap'.through = b.to
  BY <1>1, <1>2, <1>3 DEF States
<1>5. GoodState(recap')
  BY <1>1, <1>2, <1>4 DEF GoodState
<1>6. PrepareInv'
  <2>1. prepare = NoPrepare
    BY <1>1 DEF RecapInv, PrepareInv, Beginning, Collecting, Saving, Cleaning
  <2> QED BY <1>1, <2>1 DEF PrepareInv
<1>7. PreparedStands'
  BY <1>1, <1>4 DEF RecapInv, PreparedStands
<1>8. \A d \in Dates : b.from <= d /\ d < b.to => d \in covered'
  <2> SUFFICES ASSUME NEW d \in Dates, b.from <= d, d < b.to PROVE d \in covered'
    OBVIOUS
  <2>1. PICK r \in b.files : r.date = d
    BY <1>2 DEF GoodBundle, Covers
  <2>2. r.gap # TRUE /\ r.gap \in BOOLEAN
    BY <1>2, <1>3 DEF GoodBundle, Bundle, Record
  <2> QED BY <1>1, <2>1, <2>2
<1>9. since' \in 0..MaxNow
  BY <1>1, <1>3
<1>10. DeliveredWithoutGap'
  <2> SUFFICES ASSUME NEW d \in since'..b.to - 1 PROVE d \in covered'
    BY <1>4 DEF DeliveredWithoutGap
  <2>1. CASE recap.through = 0
    <3>1. since' = b.from
      BY <1>1, <2>1
    <3>2. d \in Dates /\ b.from <= d /\ d < b.to
      BY <1>3, <3>1, RecapConstants DEF Dates
    <3> QED BY <1>8, <3>2
  <2>2. CASE recap.through # 0
    <3>1. since' = since /\ b.from <= recap.through /\ recap.through < b.to
      BY <1>1, <2>2 DEF MovesForward
    <3>2. CASE d < recap.through
      <4>1. d \in since..recap.through - 1
        BY <1>3, <3>1, <3>2
      <4>2. d \in covered
        BY <2>2, <4>1 DEF RecapInv, DeliveredWithoutGap
      <4> QED BY <1>1, <4>2
    <3>3. CASE d >= recap.through
      <4>1. d \in Dates /\ b.from <= d /\ d < b.to
        BY <1>3, <2>2, <3>1, <3>3, RecapConstants DEF Dates
      <4> QED BY <1>8, <4>1
    <3> QED BY <1>3, <3>2, <3>3
  <2> QED BY <2>1, <2>2
<1> QED BY <1>1, <1>5, <1>6, <1>7, <1>9, <1>10, RecapConstants DEF RecapInv

\* Every step of a recap keeps its invariant.
LEMMA RecapStep == RecapInv /\ [RecapNext]_recapVars => RecapInv'
<1> SUFFICES ASSUME RecapInv, [RecapNext]_recapVars PROVE RecapInv'
  OBVIOUS
<1>1. ASSUME prepare' = NoPrepare, UNCHANGED <<scope, recap, covered, since>>, PreparedStands'
      PROVE  RecapInv'
  BY <1>1 DEF RecapInv, PrepareInv, DeliveredWithoutGap
<1>2. ASSUME UNCHANGED <<scope, recap, covered, since, prepare>>, DOMAIN dirs' = DOMAIN dirs
      PROVE  RecapInv'
  <2>1. PrepareInv'
    BY <1>2 DEF RecapInv, PrepareInv, Derived
  <2> QED BY <1>2, <2>1 DEF RecapInv, PreparedStands, DeliveredWithoutGap
<1>3. CASE CollectFails
  <2>1. /\ recap.prepared # None => recap.prepared.id # prepare.id
        /\ DOMAIN dirs' = DOMAIN dirs \ {prepare.id} /\ recap' = recap
    BY <1>3 DEF CollectFails, RecapInv, PrepareInv, NoPrepare, Beginning, Saving, Cleaning
  <2>2. PreparedStands'
    BY <2>1 DEF RecapInv, PreparedStands
  <2> QED BY <1>1, <1>3, <2>2 DEF CollectFails
<1>4. ASSUME NEW id \in Ids, CleanUp(id) PROVE RecapInv'
  <2>1. /\ prepare \in Cleaning /\ recap.prepared # None /\ recap.prepared.id = prepare.id
        /\ DOMAIN dirs' = DOMAIN dirs \ {id} /\ id # prepare.id
        /\ UNCHANGED <<scope, recap, covered, since, prepare>>
    BY <1>4 DEF CleanUp, RecapInv, PrepareInv, NoPrepare, Beginning, Collecting, Saving
  <2>2. PreparedStands' /\ PrepareInv'
    BY <2>1 DEF RecapInv, PreparedStands, PrepareInv
  <2> QED BY <2>1, <2>2 DEF RecapInv, DeliveredWithoutGap
<1>5. EndRecap \/ CrashRecap => RecapInv'
  BY <1>1 DEF EndRecap, CrashRecap, RecapInv, PreparedStands
<1>6. TickRecap \/ UNCHANGED recapVars => RecapInv'
  BY <1>2 DEF TickRecap, recapVars
<1>7. \A d \in Dates : Recover(d) => RecapInv'
  BY <1>2 DEF Recover
<1>8. \A id \in Ids : DamageFiles(id) => RecapInv'
  BY <1>2 DEF DamageFiles
<1>9. ASSUME NEW s \in Scopes, ChangeScope(s) PROVE RecapInv'
  <2>1. prepare = NoPrepare
    BY <1>9 DEF ChangeScope, RecapInv, PrepareInv, Beginning, Collecting, Saving, Cleaning
  <2> QED BY <1>9, <2>1 DEF ChangeScope, RecapInv, PrepareInv, PreparedStands, DeliveredWithoutGap
<1> QED
  BY <1>3, <1>4, <1>5, <1>6, <1>7, <1>8, <1>9, StartStep, BeginStep, CollectStep, SaveStep,
     ConfirmStep
     DEF RecapNext

\* Every behaviour of a recap keeps its invariant.
LEMMA RecapInvariance == RecapSpec => []RecapInv
BY RecapInitially, RecapStep, PTL DEF RecapSpec

(***************************************************************************)
(* The theorems                                                            *)
(***************************************************************************)

\* A bundle put together from a cached prefix and a new tail is what one reading
\* of the range with its scope and settings would be (docs/catch-up.md:28).
THEOREM BundleIsOneReading == RecapSpec => []ReusedIsReread
<1>1. RecapInv => ReusedIsReread
  <2> SUFFICES ASSUME RecapInv, recap.prepared # None
               PROVE  LET b == recap.prepared IN
                      /\ {r.date : r \in b.files} = b.from..b.to - 1
                      /\ \A r \in b.files : r.scope = recap.scope /\ r.settings = b.settings
                      /\ \A r \in b.files : r.gap => ~b.ready /\ b.reusable <= r.date
    BY DEF ReusedIsReread
  <2> DEFINE b == recap.prepared
  <2>1. GoodBundle(b, recap.scope)
    BY DEF RecapInv, GoodState
  <2>2. b.from \in Dates /\ b.to \in Dates /\ \A r \in b.files : r \in Record
    BY <2>1 DEF GoodBundle, Bundle
  <2>3. \A d \in b.from..b.to - 1 : \E r \in b.files : r.date = d
    <3> SUFFICES ASSUME NEW d \in b.from..b.to - 1 PROVE \E r \in b.files : r.date = d
      OBVIOUS
    <3>1. d \in Dates /\ b.from <= d /\ d < b.to
      BY <2>2, RecapConstants DEF Dates
    <3> QED BY <2>1, <3>1 DEF GoodBundle, Covers
  <2>4. \A r \in b.files : r.date \in b.from..b.to - 1
    <3> SUFFICES ASSUME NEW r \in b.files PROVE r.date \in b.from..b.to - 1
      OBVIOUS
    <3>1. r.date \in Dates /\ b.from <= r.date /\ r.date < b.to
      BY <2>1, <2>2 DEF GoodBundle, Record
    <3> QED BY <2>2, <3>1 DEF Dates
  <2>5. {r.date : r \in b.files} = b.from..b.to - 1
    BY <2>3, <2>4
  <2>6. \A r \in b.files : r.gap \in BOOLEAN
    BY <2>2 DEF Record
  <2> QED BY <2>1, <2>5, <2>6 DEF GoodBundle
<1> QED BY <1>1, RecapInvariance, PTL

\* No order of preparations and confirmations moves the boundary over a message
\* that was not delivered with its media (daily_recap.go:206-211).
THEOREM NothingSkipped == RecapSpec => []DeliveredWithoutGap
<1>1. RecapInv => DeliveredWithoutGap
  BY DEF RecapInv
<1> QED BY <1>1, RecapInvariance, PTL

\* Whatever is interrupted, the bundle the state names has its directory
\* (daily_recap.go:370-386).
THEOREM PreparedKept == RecapSpec => []PreparedStands
<1>1. RecapInv => PreparedStands
  BY DEF RecapInv
<1> QED BY <1>1, RecapInvariance, PTL

(***************************************************************************)
(* The media cache                                                         *)
(***************************************************************************)

\* The targets of a process.
Mine(w) == {t \in Targets : \E b \in Batches[w] : \E i \in DOMAIN b : b[i] = t}

Jobs == [pc : {"plan", "prune", "prune metadata", "prune data", "check", "remove metadata",
               "remove data", "restore", "touch", "transfer", "publish", "store data",
               "store metadata", "store target", "copy"},
         todo : Seq(Targets), group : Seq(Targets), at : Nat \ {0}, overwrite : BOOLEAN,
         cached : BOOLEAN, publishing : BOOLEAN, raced : BOOLEAN, from : Workers \cup Targets]

\* The values of the variables; to be the same inode is mutual.
CacheTypes ==
    /\ content \in [Paths -> {"none", "part", "whole", "edited"}]
    /\ linked \in [Paths -> SUBSET Paths]
    /\ \A x, y \in Paths : y \in linked[x] => x \in linked[y]
    /\ job \in [Workers -> Jobs \cup {NoJob}]
    /\ saved \subseteq Targets /\ excused \subseteq Targets

\* Where a batch is in its steps, and what it has then.
Shaped(w, j) ==
    /\ \A i \in DOMAIN j.todo : j.todo[i] \in Mine(w)
    /\ \A i \in DOMAIN j.group : j.group[i] \in Mine(w)
    /\ \/ j.from = w
       \/ /\ j.group # << >> /\ j.from = j.group[1] /\ j.cached = FALSE
          /\ j.publishing = TRUE \/ j.pc = "transfer"
    /\ j.pc \in {"plan", "prune", "prune metadata", "prune data", "transfer"} => j.publishing = FALSE
    /\ j.pc \in {"publish", "store data", "store metadata", "store target", "copy"} => j.publishing = TRUE
    /\ j.pc \notin {"plan", "transfer", "publish", "copy"} => j.cached = TRUE
    /\ j.publishing = FALSE /\ j.pc \notin {"plan", "transfer"} => j.todo # << >>
    /\ j.publishing = TRUE /\ j.pc # "publish" => j.at \in DOMAIN j.group

\* Until the download is over, what the batch has still to save is not saved.
Waiting(j) ==
    j.publishing = FALSE =>
        /\ \A i, k \in DOMAIN j.todo : i # k => j.todo[i] # j.todo[k]
        /\ \A i \in DOMAIN j.todo, k \in DOMAIN j.group : j.todo[i] # j.group[k]
        /\ \A i \in DOMAIN j.todo : j.todo[i] \in saved => j.pc = "touch" /\ i = 1
        /\ \A i \in DOMAIN j.group : j.group[i] \notin saved

\* After it, what was downloaded is whole, unless somebody edits files meanwhile.
SourceWhole(j) ==
    j.publishing = TRUE =>
        /\ content[j.from] \in {"whole", "edited"}
        /\ j.raced = FALSE => content[j.from] = "whole"

\* No file is linked to a download before it is stored.
NotLinkedYet(w, j) ==
    /\ j.publishing = TRUE /\ j.cached = TRUE
    /\ j.pc = "store data" \/ (j.pc = "publish" /\ j.at = 1)
    => content[w] = "whole" /\ linked[w] = {}

\* Data that was checked or stored is whole or gone, unless somebody edits.
DataSeen(j) ==
    j.pc \in {"restore", "store metadata", "store target"} /\ j.raced = FALSE =>
        content["data"] \in {"none", "whole"}

JobKept(w) ==
    job[w] # NoJob =>
        /\ Shaped(w, job[w]) /\ Waiting(job[w]) /\ SourceWhole(job[w])
        /\ NotLinkedYet(w, job[w]) /\ DataSeen(job[w])

\* A file at a target that is not whole is excused, or not saved and just being
\* downloaded.
Honest(t) ==
    \/ t \in excused
    \/ content[t] = "whole"
    \/ /\ t \notin saved
       /\ content[t] = "none" \/ \E w \in Workers : job[w].pc = "transfer" /\ job[w].from = t

CacheInv ==
    /\ CacheTypes
    /\ \A w \in Workers : JobKept(w)
    /\ \A t \in Targets : Honest(t)

\* What one process writes.
Touches(w, X) ==
    /\ \A v \in Workers : v # w => job'[v] = job[v]
    /\ \A x \in Paths : x \notin X => content'[x] = content[x]
    /\ content'["data"] \in {content["data"], "none", "whole"}
    /\ \A v \in Workers : v # w /\ linked[v] = {} => linked'[v] = {}
    /\ saved' \subseteq saved \cup X /\ excused \subseteq excused' \cup X
    /\ job[w].pc = "transfer" => job[w].from \in X

\* Downloads, targets and the cache are different files, and the targets of
\* processes differ.
LEMMA PathsApart ==
    /\ "data" \in Paths
    /\ \A w \in Workers : /\ w \in Paths /\ w # "data" /\ Mine(w) \subseteq Targets
                          /\ \A t \in Targets : t # w
                          /\ \A v \in Workers : v # w => Mine(v) \cap Mine(w) = {}
    /\ \A t \in Targets : t \in Paths /\ t # "data"
<1>1. Workers \cap Targets = {} /\ "data" \notin Workers \cup Targets
  BY CacheConstants
<1>2. ASSUME NEW v \in Workers, NEW w \in Workers, v # w PROVE Mine(v) \cap Mine(w) = {}
  <2> SUFFICES ASSUME NEW t \in Mine(v), t \in Mine(w) PROVE FALSE
    OBVIOUS
  <2>1. PICK b \in Batches[v] : \E i \in DOMAIN b : b[i] = t
    BY DEF Mine
  <2>2. PICK c \in Batches[w] : \E k \in DOMAIN c : c[k] = t
    BY DEF Mine
  <2>3. \A i \in DOMAIN b, k \in DOMAIN c : b[i] # c[k]
    BY <1>2, SeparateTargets
  <2> QED BY <2>1, <2>2, <2>3
<1> QED BY <1>1, <1>2 DEF Paths, Mine

\* A renewed file is an inode of its own.
LEMMA RenewedIs ==
    ASSUME CacheTypes, NEW x \in Paths, NEW what \in {"none", "part", "whole", "edited"},
           Renewed(x, what)
    PROVE  /\ content' \in [Paths -> {"none", "part", "whole", "edited"}]
           /\ linked' \in [Paths -> SUBSET Paths]
           /\ \A y, z \in Paths : z \in linked'[y] => y \in linked'[z]
           /\ content'[x] = what /\ linked'[x] = {}
           /\ \A y \in Paths : y # x => content'[y] = content[y]
           /\ \A y \in Paths : linked[y] = {} => linked'[y] = {}
<1>1. /\ content \in [Paths -> {"none", "part", "whole", "edited"}]
      /\ linked \in [Paths -> SUBSET Paths]
      /\ \A y, z \in Paths : z \in linked[y] => y \in linked[z]
  BY DEF CacheTypes
<1>2. /\ content' = [content EXCEPT ![x] = what]
      /\ linked' = [y \in Paths |-> IF y = x THEN {} ELSE linked[y] \ {x}]
  BY DEF Renewed
<1>3. \A y \in Paths : linked'[y] = IF y = x THEN {} ELSE linked[y] \ {x}
  BY <1>2
<1>4. linked' \in [Paths -> SUBSET Paths]
  BY <1>1, <1>2
<1>5. content' \in [Paths -> {"none", "part", "whole", "edited"}]
      /\ content'[x] = what /\ \A y \in Paths : y # x => content'[y] = content[y]
  BY <1>1, <1>2
<1>6. \A y, z \in Paths : z \in linked'[y] => y \in linked'[z]
  BY <1>1, <1>3
<1> QED BY <1>3, <1>4, <1>5, <1>6

\* A published file is a copy, or one more name of the inode.
LEMMA PublishedIs ==
    ASSUME CacheTypes, NEW x \in Paths, NEW y \in Paths, Published(x, y)
    PROVE  /\ content' \in [Paths -> {"none", "part", "whole", "edited"}]
           /\ linked' \in [Paths -> SUBSET Paths]
           /\ \A u, z \in Paths : z \in linked'[u] => u \in linked'[z]
           /\ content'[x] = content[y]
           /\ \A z \in Paths : z # x => content'[z] = content[z]
           /\ \A z \in Paths : z # x /\ z # y /\ linked[z] = {} => linked'[z] = {}
<1>1. /\ content \in [Paths -> {"none", "part", "whole", "edited"}]
      /\ linked \in [Paths -> SUBSET Paths]
      /\ \A u, z \in Paths : z \in linked[u] => u \in linked[z]
  BY DEF CacheTypes
<1>2. content[y] \in {"none", "part", "whole", "edited"}
  BY <1>1
<1>3. CASE Renewed(x, content[y])
  BY <1>2, <1>3, RenewedIs
<1>4. CASE /\ content' = [content EXCEPT ![x] = content[y]]
           /\ LET inode == ({y} \cup linked[y]) \ {x}
              IN  linked' = [z \in Paths |-> IF z = x THEN inode
                                             ELSE IF z \in inode THEN (linked[z] \ {x}) \cup {x}
                                             ELSE linked[z] \ {x}]
  <2> DEFINE inode == ({y} \cup linked[y]) \ {x}
  <2>1. \A z \in Paths : linked'[z] = IF z = x THEN inode
                                      ELSE IF z \in inode THEN (linked[z] \ {x}) \cup {x}
                                      ELSE linked[z] \ {x}
    BY <1>4
  <2>2. inode \subseteq Paths /\ x \notin inode
    BY <1>1
  <2>3. \A z \in inode : z = y \/ z \in linked[y]
    OBVIOUS
  <2>4. linked' = [z \in Paths |-> IF z = x THEN inode
                                   ELSE IF z \in inode THEN (linked[z] \ {x}) \cup {x}
                                   ELSE linked[z] \ {x}]
    BY <1>4
  <2> HIDE DEF inode
  <2>5. linked' \in [Paths -> SUBSET Paths]
    BY <1>1, <2>2, <2>4
  <2>6. \A u, z \in Paths : z \in linked'[u] => u \in linked'[z]
    <3> SUFFICES ASSUME NEW u \in Paths, NEW z \in Paths, z \in linked'[u]
                 PROVE  u \in linked'[z]
      OBVIOUS
    <3>1. CASE u = x
      BY <2>1, <2>2, <3>1
    <3>2. CASE u # x /\ z = x
      <4>1. u \in inode
        BY <2>1, <3>2
      <4> QED BY <2>1, <2>2, <3>2, <4>1
    <3>3. CASE u # x /\ z # x
      <4>1. z \in linked[u]
        BY <2>1, <3>3
      <4>2. u \in linked[z]
        BY <1>1, <4>1
      <4> QED BY <2>1, <3>3, <4>2
    <3> QED BY <3>1, <3>2, <3>3
  <2>7. \A z \in Paths : z # x /\ z # y /\ linked[z] = {} => linked'[z] = {}
    <3> SUFFICES ASSUME NEW z \in Paths, z # x, z # y, linked[z] = {} PROVE linked'[z] = {}
      OBVIOUS
    <3>1. z \notin inode
      BY <1>1, <2>3
    <3> QED BY <2>1, <3>1
  <2>8. /\ content' \in [Paths -> {"none", "part", "whole", "edited"}]
        /\ content'[x] = content[y]
        /\ \A z \in Paths : z # x => content'[z] = content[z]
    BY <1>1, <1>2, <1>4
  <2> QED BY <2>5, <2>6, <2>7, <2>8
<1> QED BY <1>3, <1>4 DEF Published

\* A job is none, or a batch.
LEMMA JobIs ==
    ASSUME CacheInv, NEW w \in Workers
    PROVE  /\ job[w].pc # "idle" => job[w] \in Jobs /\ job[w] # NoJob
           /\ job[w] # NoJob => job[w] \in Jobs /\ job[w].pc # "idle"
           /\ job[w] \in Jobs => job[w] # NoJob
<1>1. job[w] \in Jobs \cup {NoJob}
  BY DEF CacheInv, CacheTypes
<1>2. NoJob.pc = "idle"
  BY DEF NoJob
<1>3. \A j \in Jobs : j.pc # "idle"
  BY DEF Jobs
<1> QED BY <1>1, <1>2, <1>3

\* What a process does leaves the others' batches as they were, and the targets
\* it does not write.
LEMMA OthersKept ==
    ASSUME CacheInv, NEW w \in Workers, NEW X, X \subseteq {w, "data"} \cup Mine(w), Touches(w, X),
           CacheTypes', JobKept(w)', \A t \in X \cap Targets : Honest(t)'
    PROVE  CacheInv'
<1>1. ASSUME NEW v \in Workers, v # w PROVE JobKept(v)'
  <2> SUFFICES ASSUME job[v] # NoJob PROVE JobKept(v)'
    BY <1>1 DEF JobKept, Touches
  <2>1. job'[v] = job[v] /\ job[v] \in Jobs
    BY <1>1, JobIs DEF Touches
  <2>2. Shaped(v, job[v]) /\ Waiting(job[v]) /\ SourceWhole(job[v]) /\ NotLinkedYet(v, job[v])
        /\ DataSeen(job[v])
    BY DEF CacheInv, JobKept
  <2>3. v \notin X /\ X \cap Mine(v) = {} /\ v \in Paths
    BY <1>1, PathsApart
  <2>4. content'[v] = content[v] /\ (linked[v] = {} => linked'[v] = {})
    BY <1>1, <2>3 DEF Touches
  <2>5. Waiting(job[v])'
    <3>1. \A t \in Mine(v) : t \in saved' => t \in saved
      BY <2>3 DEF Touches
    <3>2. /\ \A i \in DOMAIN job[v].todo : job[v].todo[i] \in Mine(v)
          /\ \A i \in DOMAIN job[v].group : job[v].group[i] \in Mine(v)
      BY <2>2 DEF Shaped
    <3> QED BY <2>1, <2>2, <3>1, <3>2 DEF Waiting
  <2>6. SourceWhole(job[v])'
    <3>1. job[v].from = v \/ job[v].from \in Mine(v)
      <4> SUFFICES ASSUME job[v].from # v PROVE job[v].from \in Mine(v)
        OBVIOUS
      <4>1. job[v].group # << >> /\ job[v].from = job[v].group[1]
        BY <2>2 DEF Shaped
      <4>2. job[v].group \in Seq(Targets)
        BY <2>1 DEF Jobs
      <4>3. 1 \in DOMAIN job[v].group
        BY <4>1, <4>2
      <4> QED BY <2>2, <4>1, <4>3 DEF Shaped
    <3>2. content'[job[v].from] = content[job[v].from]
      <4>1. job[v].from \in Paths /\ job[v].from \notin X
        BY <2>3, <3>1, PathsApart
      <4> QED BY <4>1 DEF Touches
    <3> QED BY <2>1, <2>2, <3>2 DEF SourceWhole
  <2>7. NotLinkedYet(v, job[v])'
    BY <2>1, <2>2, <2>4 DEF NotLinkedYet
  <2>8. DataSeen(job[v])'
    BY <2>1, <2>2 DEF DataSeen, Touches
  <2>9. Shaped(v, job[v])'
    BY <2>1, <2>2 DEF Shaped
  <2> QED BY <2>5, <2>6, <2>7, <2>8, <2>9 DEF JobKept
<1>2. ASSUME NEW t \in Targets PROVE Honest(t)'
  <2> SUFFICES ASSUME t \notin X PROVE Honest(t)'
    OBVIOUS
  <2>1. Honest(t) /\ t \in Paths
    BY PathsApart DEF CacheInv
  <2>2. content'[t] = content[t] /\ (t \in excused => t \in excused') /\ (t \in saved' => t \in saved)
    BY <2>1 DEF Touches
  <2>3. ASSUME NEW v \in Workers, job[v].pc = "transfer", job[v].from = t
        PROVE  job'[v].pc = "transfer" /\ job'[v].from = t
    BY <2>3 DEF Touches
  <2> QED BY <2>1, <2>2, <2>3 DEF Honest
<1> QED BY <1>1, <1>2 DEF CacheInv

\* What is known of a batch in its steps.
LEMMA BatchIs ==
    ASSUME CacheInv, NEW w \in Workers, job[w].pc # "idle"
    PROVE  /\ job[w] \in Jobs /\ job \in [Workers -> Jobs \cup {NoJob}]
           /\ Shaped(w, job[w]) /\ Waiting(job[w]) /\ SourceWhole(job[w])
           /\ NotLinkedYet(w, job[w]) /\ DataSeen(job[w])
           /\ job[w].publishing \in BOOLEAN /\ job[w].raced \in BOOLEAN
           /\ job[w].cached \in BOOLEAN /\ job[w].overwrite \in BOOLEAN
           /\ job[w].todo \in Seq(Targets) /\ job[w].group \in Seq(Targets)
           /\ job[w].at \in Nat /\ job[w].at # 0
<1>1. job[w] \in Jobs /\ job[w] # NoJob
  BY JobIs
<1>2. JobKept(w) /\ job \in [Workers -> Jobs \cup {NoJob}]
  BY DEF CacheInv, CacheTypes
<1> QED BY <1>1, <1>2 DEF Jobs, JobKept

\* A batch that goes on is otherwise as it was.
LEMMA GoesIs ==
    ASSUME CacheInv, NEW w \in Workers, job[w].pc # "idle", NEW p, Goes(w, p),
           p \in {"plan", "prune", "prune metadata", "prune data", "check", "remove metadata",
                  "remove data", "restore", "touch", "transfer", "publish", "store data",
                  "store metadata", "store target", "copy"}
    PROVE  /\ job' \in [Workers -> Jobs \cup {NoJob}] /\ job'[w] # NoJob
           /\ \A v \in Workers : v # w => job'[v] = job[v]
           /\ job'[w].pc = p /\ job'[w].todo = job[w].todo /\ job'[w].group = job[w].group
           /\ job'[w].at = job[w].at /\ job'[w].cached = job[w].cached
           /\ job'[w].publishing = job[w].publishing /\ job'[w].raced = job[w].raced
           /\ job'[w].from = job[w].from
<1> DEFINE k == [job[w] EXCEPT !.pc = p]
<1>1. job[w] \in Jobs /\ job \in [Workers -> Jobs \cup {NoJob}]
  BY BatchIs
<1>2. job' = [job EXCEPT ![w] = k]
  BY DEF Goes
<1>3. k \in Jobs
  BY <1>1 DEF Jobs
<1>4. /\ k.pc = p /\ k.todo = job[w].todo /\ k.group = job[w].group
      /\ k.at = job[w].at /\ k.cached = job[w].cached
      /\ k.publishing = job[w].publishing /\ k.raced = job[w].raced
      /\ k.from = job[w].from
  BY <1>1 DEF Jobs
<1> HIDE DEF k
<1>5. k # NoJob
  <2>1. p # "idle"
    OBVIOUS
  <2>2. NoJob.pc = "idle"
    BY DEF NoJob
  <2> QED BY <1>4, <2>1, <2>2
<1> QED BY <1>1, <1>2, <1>3, <1>4, <1>5

\* What is left of a sequence without its first element.
LEMMA RestIs ==
    ASSUME NEW S, NEW s \in Seq(S), s # << >>
    PROVE  /\ Tail(s) \in Seq(S) /\ Head(s) \in S /\ 1 \in DOMAIN s /\ Head(s) = s[1]
           /\ \A i \in DOMAIN Tail(s) : i + 1 \in DOMAIN s /\ i + 1 # 1 /\ Tail(s)[i] = s[i + 1]
<1>1. Len(s) \in Nat /\ Len(s) # 0 /\ DOMAIN s = 1..Len(s)
  OBVIOUS
<1>2. Tail(s) \in Seq(S) /\ Len(Tail(s)) = Len(s) - 1 /\ Head(s) = s[1]
  OBVIOUS
<1>3. DOMAIN Tail(s) = 1..(Len(s) - 1)
  BY <1>1, <1>2
<1>4. 1 \in DOMAIN s
  BY <1>1
<1>5. ASSUME NEW i \in DOMAIN Tail(s)
      PROVE  i + 1 \in DOMAIN s /\ i + 1 # 1 /\ Tail(s)[i] = s[i + 1]
  BY <1>1, <1>3
<1> QED BY <1>2, <1>4, <1>5

\* The elements of a sequence with one more.
LEMMA GrownIs ==
    ASSUME NEW S, NEW s \in Seq(S), NEW e \in S
    PROVE  /\ Append(s, e) \in Seq(S) /\ Append(s, e) # << >>
           /\ \A i \in DOMAIN Append(s, e) :
                  (i \in DOMAIN s /\ Append(s, e)[i] = s[i]) \/ Append(s, e)[i] = e
<1>1. Len(s) \in Nat /\ DOMAIN s = 1..Len(s)
  OBVIOUS
<1>2. /\ Append(s, e) \in Seq(S) /\ Len(Append(s, e)) = Len(s) + 1
      /\ Append(s, e)[Len(s) + 1] = e
      /\ \A i \in 1..Len(s) : Append(s, e)[i] = s[i]
  OBVIOUS
<1>3. DOMAIN Append(s, e) = 1..(Len(s) + 1)
  BY <1>1, <1>2
<1>4. \A i \in 1..(Len(s) + 1) : i \in 1..Len(s) \/ i = Len(s) + 1
  BY <1>1
<1>5. Append(s, e) # << >>
  BY <1>1, <1>2
<1> QED BY <1>1, <1>2, <1>3, <1>4, <1>5

\* The types of a batch.
LEMMA FieldsOf ==
    ASSUME NEW j \in Jobs
    PROVE  /\ j.todo \in Seq(Targets) /\ j.group \in Seq(Targets) /\ j.at \in Nat /\ j.at # 0
           /\ j.overwrite \in BOOLEAN /\ j.cached \in BOOLEAN /\ j.publishing \in BOOLEAN
           /\ j.raced \in BOOLEAN /\ j.from \in Workers \cup Targets
BY DEF Jobs

\* A download goes to the process's own temporary file, or to a target of it.
LEMMA FromIs ==
    ASSUME CacheInv, NEW w \in Workers, job[w] \in Jobs
    PROVE  job[w].from \in {w} \cup Mine(w) /\ job[w].from \in Paths
<1>1. Shaped(w, job[w]) /\ job[w].group \in Seq(Targets)
  <2>1. job[w] # NoJob
    BY JobIs
  <2> QED BY <2>1, FieldsOf DEF CacheInv, JobKept
<1>2. job[w].from \in {w} \cup Mine(w)
  <2> SUFFICES ASSUME job[w].from # w PROVE job[w].from \in Mine(w)
    OBVIOUS
  <2>1. job[w].group # << >> /\ job[w].from = job[w].group[1]
    BY <1>1 DEF Shaped
  <2>2. 1 \in DOMAIN job[w].group
    BY <1>1, <2>1
  <2> QED BY <1>1, <2>1, <2>2 DEF Shaped
<1> QED BY <1>2, PathsApart

\* After a target comes the next.
LEMMA NextKept ==
    ASSUME CacheInv, NEW w \in Workers, job[w] \in Jobs, NextTarget(w),
           job[w].publishing = FALSE => job[w].todo # << >>,
           saved' \subseteq saved \cup {Current(w)},
           job[w].publishing = TRUE => content'[job[w].from] = content[job[w].from],
           job[w].pc # "transfer"
    PROVE  /\ JobKept(w)' /\ job' \in [Workers -> Jobs \cup {NoJob}]
           /\ \A v \in Workers : v # w => job'[v] = job[v]
<1> DEFINE j == job[w]
<1>1. /\ j \in Jobs /\ j # NoJob /\ Shaped(w, j) /\ Waiting(j) /\ SourceWhole(j)
      /\ job \in [Workers -> Jobs \cup {NoJob}]
  <2>1. j # NoJob
    BY JobIs
  <2> QED BY <2>1 DEF CacheInv, CacheTypes, JobKept
<1>2. /\ j.todo \in Seq(Targets) /\ j.group \in Seq(Targets) /\ j.at \in Nat /\ j.at # 0
      /\ j.publishing \in BOOLEAN
  BY <1>1, FieldsOf
<1>3. CASE j.publishing = TRUE
  <2> DEFINE k == [j EXCEPT !.pc = "publish", !.at = j.at + 1]
  <2>1. job' = [job EXCEPT ![w] = k]
    BY <1>3 DEF NextTarget
  <2>2. j.at + 1 \in Nat \ {0} /\ j.at + 1 # 1
    BY <1>2
  <2>3. k \in Jobs
    BY <1>1, <2>2 DEF Jobs
  <2>4. job'[w] = k /\ job' \in [Workers -> Jobs \cup {NoJob}]
        /\ \A v \in Workers : v # w => job'[v] = job[v]
    BY <1>1, <2>1, <2>3
  <2>5. /\ k.pc = "publish" /\ k.publishing = TRUE /\ k.at # 1 /\ k.todo = j.todo
        /\ k.group = j.group /\ k.from = j.from /\ k.cached = j.cached /\ k.raced = j.raced
    BY <1>1, <1>3, <2>2 DEF Jobs
  <2> HIDE DEF k
  <2>6. Shaped(w, k)
    BY <1>1, <1>3, <2>5 DEF Shaped
  <2>7. Shaped(w, job[w])'
    BY <2>4, <2>6 DEF Shaped
  <2>8. Waiting(job[w])' /\ NotLinkedYet(w, job[w])' /\ DataSeen(job[w])'
    BY <2>4, <2>5 DEF Waiting, NotLinkedYet, DataSeen
  <2>9. SourceWhole(job[w])'
    BY <1>1, <1>3, <2>4, <2>5 DEF SourceWhole
  <2> QED BY <2>4, <2>7, <2>8, <2>9 DEF JobKept
<1>4. CASE j.publishing = FALSE
  <2> DEFINE k == [j EXCEPT !.pc = "plan", !.todo = Tail(j.todo)]
  <2>1. job' = [job EXCEPT ![w] = k]
    BY <1>4 DEF NextTarget
  <2>2. j.todo # << >> /\ Current(w) = Head(j.todo)
    BY <1>4 DEF Current
  <2>3. /\ Tail(j.todo) \in Seq(Targets) /\ 1 \in DOMAIN j.todo /\ Head(j.todo) = j.todo[1]
        /\ \A i \in DOMAIN Tail(j.todo) :
              i + 1 \in DOMAIN j.todo /\ i + 1 # 1 /\ Tail(j.todo)[i] = j.todo[i + 1]
    BY <1>2, <2>2, RestIs
  <2>4. k \in Jobs
    BY <1>1, <2>3 DEF Jobs
  <2>5. job'[w] = k /\ job' \in [Workers -> Jobs \cup {NoJob}]
        /\ \A v \in Workers : v # w => job'[v] = job[v]
    BY <1>1, <2>1, <2>4
  <2>6. /\ k.pc = "plan" /\ k.publishing = FALSE /\ k.todo = Tail(j.todo)
        /\ k.group = j.group /\ k.from = j.from /\ k.cached = j.cached /\ k.raced = j.raced
    BY <1>1, <1>4 DEF Jobs
  <2> HIDE DEF k
  <2>7. Shaped(w, k)
    <3>1. \A i \in DOMAIN k.todo : k.todo[i] \in Mine(w)
      <4>1. \A i \in DOMAIN j.todo : j.todo[i] \in Mine(w)
        BY <1>1 DEF Shaped
      <4> QED BY <4>1, <2>3, <2>6
    <3>2. k.from = w
      BY <1>1, <1>4, <2>6 DEF Shaped
    <3> QED BY <1>1, <2>6, <3>1, <3>2 DEF Shaped
  <2>8. Shaped(w, job[w])'
    BY <2>5, <2>7 DEF Shaped
  <2>9. Waiting(job[w])'
    <3>1. \A i, l \in DOMAIN k.todo : i # l => k.todo[i] # k.todo[l]
      <4> SUFFICES ASSUME NEW i \in DOMAIN k.todo, NEW l \in DOMAIN k.todo, i # l
                   PROVE  k.todo[i] # k.todo[l]
        OBVIOUS
      <4>1. i + 1 # l + 1
        <5>1. Len(Tail(j.todo)) \in Nat /\ DOMAIN Tail(j.todo) = 1..Len(Tail(j.todo))
          BY <2>3
        <5>2. i \in Nat /\ l \in Nat
          BY <2>6, <5>1
        <5> QED BY <5>2
      <4> QED BY <1>1, <1>4, <2>3, <2>6, <4>1 DEF Waiting
    <3>2. \A i \in DOMAIN k.todo, l \in DOMAIN k.group : k.todo[i] # k.group[l]
      BY <1>1, <1>4, <2>3, <2>6 DEF Waiting
    <3>3. \A i \in DOMAIN k.todo : k.todo[i] \notin saved'
      <4> SUFFICES ASSUME NEW i \in DOMAIN k.todo PROVE k.todo[i] \notin saved'
        OBVIOUS
      <4>1. i + 1 \in DOMAIN j.todo /\ i + 1 # 1 /\ k.todo[i] = j.todo[i + 1]
        BY <2>3, <2>6
      <4>2. j.todo[i + 1] \notin saved /\ j.todo[i + 1] # j.todo[1]
        BY <1>1, <1>4, <2>3, <4>1 DEF Waiting
      <4> QED BY <2>2, <2>3, <4>1, <4>2
    <3>4. \A i \in DOMAIN k.group : k.group[i] \notin saved'
      BY <1>1, <1>4, <2>2, <2>3, <2>6 DEF Waiting
    <3> QED BY <2>5, <3>1, <3>2, <3>3, <3>4 DEF Waiting
  <2>10. NotLinkedYet(w, job[w])' /\ DataSeen(job[w])' /\ SourceWhole(job[w])'
    BY <2>5, <2>6 DEF NotLinkedYet, DataSeen, SourceWhole
  <2> QED BY <2>5, <2>8, <2>9, <2>10 DEF JobKept
<1> QED BY <1>2, <1>3, <1>4

\* A target that the cache does not have joins the download.
LEMMA MissKept ==
    ASSUME CacheInv, NEW w \in Workers, job[w] \in Jobs, Miss(w),
           job[w].publishing = FALSE => job[w].todo # << >>, saved' = saved,
           job[w].publishing = TRUE => content'[job[w].from] = content[job[w].from],
           job[w].pc \notin {"transfer", "touch", "publish"}
    PROVE  /\ JobKept(w)' /\ job' \in [Workers -> Jobs \cup {NoJob}]
           /\ \A v \in Workers : v # w => job'[v] = job[v]
<1> DEFINE j == job[w]
<1>1. /\ j \in Jobs /\ j # NoJob /\ Shaped(w, j) /\ Waiting(j) /\ SourceWhole(j)
      /\ job \in [Workers -> Jobs \cup {NoJob}]
  <2>1. j # NoJob
    BY JobIs
  <2> QED BY <2>1 DEF CacheInv, CacheTypes, JobKept
<1>2. /\ j.todo \in Seq(Targets) /\ j.group \in Seq(Targets) /\ j.at \in Nat /\ j.at # 0
      /\ j.publishing \in BOOLEAN
  BY <1>1, FieldsOf
<1>3. CASE j.publishing = TRUE
  <2> DEFINE k == [j EXCEPT !.pc = "copy"]
  <2>1. job' = [job EXCEPT ![w] = k]
    BY <1>3 DEF Miss
  <2>2. k \in Jobs
    BY <1>1 DEF Jobs
  <2>3. job'[w] = k /\ job' \in [Workers -> Jobs \cup {NoJob}]
        /\ \A v \in Workers : v # w => job'[v] = job[v]
    BY <1>1, <2>1, <2>2
  <2>4. /\ k.pc = "copy" /\ k.publishing = TRUE /\ k.at = j.at /\ k.todo = j.todo
        /\ k.group = j.group /\ k.from = j.from /\ k.cached = j.cached /\ k.raced = j.raced
    BY <1>1, <1>3 DEF Jobs
  <2> HIDE DEF k
  <2>5. Shaped(w, k)
    BY <1>1, <1>3, <2>4 DEF Shaped
  <2>6. Shaped(w, job[w])'
    BY <2>3, <2>5 DEF Shaped
  <2>7. Waiting(job[w])' /\ NotLinkedYet(w, job[w])' /\ DataSeen(job[w])'
    BY <2>3, <2>4 DEF Waiting, NotLinkedYet, DataSeen
  <2>8. SourceWhole(job[w])'
    BY <1>1, <1>3, <2>3, <2>4 DEF SourceWhole
  <2> QED BY <2>3, <2>6, <2>7, <2>8 DEF JobKept
<1>4. CASE j.publishing = FALSE
  <2> DEFINE t == Head(j.todo)
             k == [j EXCEPT !.pc = "plan", !.todo = Tail(j.todo), !.group = Append(j.group, t)]
  <2>1. job' = [job EXCEPT ![w] = k]
    BY <1>4 DEF Miss
  <2>2. /\ Tail(j.todo) \in Seq(Targets) /\ 1 \in DOMAIN j.todo /\ t = j.todo[1] /\ t \in Targets
        /\ \A i \in DOMAIN Tail(j.todo) :
              i + 1 \in DOMAIN j.todo /\ i + 1 # 1 /\ Tail(j.todo)[i] = j.todo[i + 1]
    BY <1>2, <1>4, RestIs
  <2> HIDE DEF t
  <2>3. /\ Append(j.group, t) \in Seq(Targets)
        /\ \A i \in DOMAIN Append(j.group, t) :
              (i \in DOMAIN j.group /\ Append(j.group, t)[i] = j.group[i]) \/ Append(j.group, t)[i] = t
    BY <1>2, <2>2, GrownIs
  <2>4. k \in Jobs
    BY <1>1, <2>2, <2>3 DEF Jobs
  <2>5. job'[w] = k /\ job' \in [Workers -> Jobs \cup {NoJob}]
        /\ \A v \in Workers : v # w => job'[v] = job[v]
    BY <1>1, <2>1, <2>4
  <2>6. /\ k.pc = "plan" /\ k.publishing = FALSE /\ k.todo = Tail(j.todo)
        /\ k.group = Append(j.group, t) /\ k.from = j.from /\ k.cached = j.cached /\ k.raced = j.raced
    BY <1>1, <1>4 DEF Jobs
  <2> HIDE DEF k
  <2>7. Shaped(w, k)
    <3>1. \A i \in DOMAIN k.todo : k.todo[i] \in Mine(w)
      <4>1. \A i \in DOMAIN j.todo : j.todo[i] \in Mine(w)
        BY <1>1 DEF Shaped
      <4> QED BY <4>1, <2>2, <2>6
    <3>2. t \in Mine(w)
      BY <1>1, <2>2 DEF Shaped
    <3>3. \A i \in DOMAIN k.group : k.group[i] \in Mine(w)
      BY <1>1, <2>3, <2>6, <3>2 DEF Shaped
    <3>4. k.from = w
      BY <1>1, <1>4, <2>6 DEF Shaped
    <3> QED BY <2>6, <3>1, <3>3, <3>4 DEF Shaped
  <2>8. Shaped(w, job[w])'
    BY <2>5, <2>7 DEF Shaped
  <2>9. Waiting(job[w])'
    <3>1. \A i, l \in DOMAIN k.todo : i # l => k.todo[i] # k.todo[l]
      <4> SUFFICES ASSUME NEW i \in DOMAIN k.todo, NEW l \in DOMAIN k.todo, i # l
                   PROVE  k.todo[i] # k.todo[l]
        OBVIOUS
      <4>1. i + 1 # l + 1
        <5>1. Len(Tail(j.todo)) \in Nat /\ DOMAIN Tail(j.todo) = 1..Len(Tail(j.todo))
          BY <2>2
        <5>2. i \in Nat /\ l \in Nat
          BY <2>6, <5>1
        <5> QED BY <5>2
      <4> QED BY <1>1, <1>4, <2>2, <2>6, <4>1 DEF Waiting
    <3>2. \A i \in DOMAIN k.todo : k.todo[i] # t
      BY <1>1, <1>4, <2>2, <2>6 DEF Waiting
    <3>3. \A i \in DOMAIN k.todo, l \in DOMAIN j.group : k.todo[i] # j.group[l]
      BY <1>1, <1>4, <2>2, <2>6 DEF Waiting
    <3>4. \A i \in DOMAIN k.todo, l \in DOMAIN k.group : k.todo[i] # k.group[l]
      BY <2>3, <2>6, <3>2, <3>3
    <3>5. \A i \in DOMAIN k.todo : k.todo[i] \notin saved
      BY <1>1, <1>4, <2>2, <2>6 DEF Waiting
    <3>6. t \notin saved
      BY <1>1, <1>4, <2>2 DEF Waiting
    <3>7. \A i \in DOMAIN k.group : k.group[i] \notin saved
      BY <1>1, <1>4, <2>3, <2>6, <3>6 DEF Waiting
    <3> QED BY <2>5, <3>1, <3>4, <3>5, <3>7 DEF Waiting
  <2>10. NotLinkedYet(w, job[w])' /\ DataSeen(job[w])' /\ SourceWhole(job[w])'
    BY <2>5, <2>6 DEF NotLinkedYet, DataSeen, SourceWhole
  <2> QED BY <2>5, <2>8, <2>9, <2>10 DEF JobKept
<1> QED BY <1>2, <1>3, <1>4

\* The first target of a batch that has one.
LEMMA HeadIs ==
    ASSUME CacheInv, NEW w \in Workers, job[w].pc # "idle", job[w].todo # << >>
    PROVE  Head(job[w].todo) = job[w].todo[1] /\ 1 \in DOMAIN job[w].todo
<1>1. job[w].todo \in Seq(Targets)
  BY BatchIs
<1> QED BY <1>1, RestIs

\* The target in hand is one of the process's.
LEMMA CurrentIs ==
    ASSUME CacheInv, NEW w \in Workers, job[w].pc # "idle",
           job[w].publishing = TRUE => job[w].at \in DOMAIN job[w].group,
           job[w].publishing = FALSE => job[w].todo # << >>
    PROVE  /\ Current(w) \in Mine(w) /\ Current(w) \in Targets /\ Current(w) \in Paths
           /\ Current(w) # "data" /\ Current(w) # w
<1>1. /\ Shaped(w, job[w]) /\ job[w].todo \in Seq(Targets) /\ job[w].publishing \in BOOLEAN
  BY BatchIs
<1>2. CASE job[w].publishing = TRUE
  <2>1. Current(w) = job[w].group[job[w].at]
    BY <1>2 DEF Current
  <2>2. Current(w) \in Mine(w)
    BY <1>1, <1>2, <2>1 DEF Shaped
  <2> QED BY <2>2, PathsApart
<1>3. CASE job[w].publishing = FALSE
  <2>1. Current(w) = Head(job[w].todo) /\ job[w].todo # << >>
    BY <1>3 DEF Current
  <2>2. Current(w) = job[w].todo[1] /\ 1 \in DOMAIN job[w].todo
    BY <1>1, <2>1, RestIs
  <2>3. Current(w) \in Mine(w)
    BY <1>1, <2>2 DEF Shaped
  <2> QED BY <2>3, PathsApart
<1> QED BY <1>1, <1>2, <1>3

\* A target that is saved whole is honest; saved while somebody edits, excused.
LEMMA SavedKept ==
    ASSUME CacheInv, NEW w \in Workers, job[w].pc # "idle", NEW t \in Targets, Saved(w, t),
           job[w].raced = FALSE => content'[t] = "whole"
    PROVE  /\ saved' = saved \cup {t} /\ saved' \subseteq Targets /\ excused' \subseteq Targets
           /\ excused \subseteq excused' \cup {t} /\ Honest(t)'
<1>1. saved \subseteq Targets /\ excused \subseteq Targets /\ job[w].raced \in BOOLEAN
  BY BatchIs DEF CacheInv, CacheTypes
<1>2. saved' = saved \cup {t} /\ excused' = IF job[w].raced THEN excused \cup {t} ELSE excused \ {t}
  BY DEF Saved
<1>3. CASE job[w].raced = TRUE
  BY <1>1, <1>2, <1>3 DEF Honest
<1>4. CASE job[w].raced = FALSE
  BY <1>1, <1>2, <1>4 DEF Honest
<1> QED BY <1>1, <1>3, <1>4

\* Before a batch begins its targets are dropped from the report.
LEMMA StartBatchKeeps ==
    ASSUME CacheInv, NEW w \in Workers, NEW b \in Batches[w], NEW overwrite \in BOOLEAN,
           StartBatch(w, b, overwrite)
    PROVE  CacheInv'
<1> DEFINE k == [pc |-> "plan", todo |-> b, group |-> << >>, at |-> 1,
                 overwrite |-> overwrite, cached |-> FALSE,
                 publishing |-> FALSE, raced |-> FALSE, from |-> w]
<1>1. CacheTypes
  BY DEF CacheInv
<1>2. /\ job[w].pc = "idle" /\ job' = [job EXCEPT ![w] = k]
      /\ saved' = {t \in saved : \A i \in DOMAIN b : b[i] # t}
      /\ UNCHANGED <<content, linked, excused>>
  BY DEF StartBatch, At, Kept
<1>3. b \in Seq(Targets) /\ (\A i \in DOMAIN b : b[i] \in Mine(w))
  <2>1. b \in Seq(Targets)
    BY CacheConstants
  <2>2. \A i \in DOMAIN b : b[i] \in Targets
    BY <2>1
  <2> QED BY <2>1, <2>2 DEF Mine
<1>4. k \in Jobs
  BY <1>3 DEF Jobs
<1>5. /\ k.pc = "plan" /\ k.todo = b /\ k.group = << >> /\ k.publishing = FALSE
      /\ k.cached = FALSE /\ k.from = w
  OBVIOUS
<1> HIDE DEF k
<1>6. job'[w] = k /\ job' \in [Workers -> Jobs \cup {NoJob}]
      /\ \A v \in Workers : v # w => job'[v] = job[v]
  BY <1>1, <1>2, <1>4 DEF CacheTypes
<1>7. CacheTypes'
  BY <1>1, <1>2, <1>6 DEF CacheTypes
<1>8. Touches(w, {})
  BY <1>2, <1>6 DEF Touches
<1>9. Shaped(w, k)
  BY <1>3, <1>5 DEF Shaped
<1>10. Shaped(w, job[w])'
  BY <1>6, <1>9 DEF Shaped
<1>11. Waiting(job[w])'
  <2>1. \A i, l \in DOMAIN b : i # l => b[i] # b[l]
    BY UniqueTargets
  <2>2. \A i \in DOMAIN b : b[i] \notin saved'
    BY <1>2
  <2> QED BY <1>5, <1>6, <2>1, <2>2 DEF Waiting
<1>12. SourceWhole(job[w])' /\ NotLinkedYet(w, job[w])' /\ DataSeen(job[w])'
  BY <1>5, <1>6 DEF SourceWhole, NotLinkedYet, DataSeen
<1>13. JobKept(w)'
  BY <1>10, <1>11, <1>12 DEF JobKept
<1> QED BY <1>7, <1>8, <1>13, OthersKept

\* A file that is there is whole or excused: nobody downloads to another's target.
LEMMA KeepExistingKeeps ==
    ASSUME CacheInv, NEW w \in Workers, KeepExisting(w) PROVE CacheInv'
<1>0. PICK t : t = Current(w)
  OBVIOUS
<1>1. /\ job[w].pc = "plan" /\ job[w].todo # << >> /\ content[t] # "none"
      /\ saved' = saved \cup {t} /\ NextTarget(w) /\ UNCHANGED <<content, linked, excused>>
  BY <1>0 DEF KeepExisting, At, Exists, Kept
<1>2. job[w].pc # "idle"
  BY <1>1
<1>3. job[w] \in Jobs /\ Shaped(w, job[w]) /\ job[w].publishing = FALSE
  BY <1>1, <1>2, BatchIs DEF Shaped
<1>4. t \in Mine(w) /\ t \in Targets
  BY <1>0, <1>1, <1>2, <1>3, CurrentIs
<1>5. /\ JobKept(w)' /\ job' \in [Workers -> Jobs \cup {NoJob}]
      /\ \A v \in Workers : v # w => job'[v] = job[v]
  BY <1>0, <1>1, <1>3, NextKept
<1>6. CacheTypes'
  BY <1>1, <1>4, <1>5 DEF CacheInv, CacheTypes
<1>7. Touches(w, {t})
  BY <1>1, <1>5 DEF Touches
<1>8. Honest(t)'
  <2>1. Honest(t)
    BY <1>4 DEF CacheInv
  <2>2. ASSUME NEW v \in Workers, job[v].pc = "transfer", job[v].from = t PROVE FALSE
    <3>1. v # w
      BY <1>1, <2>2
    <3>2. job[v] \in Jobs
      BY <2>2, JobIs
    <3>3. t \in {v} \cup Mine(v)
      BY <2>2, <3>2, FromIs
    <3> QED BY <1>4, <3>1, <3>3, PathsApart
  <2>3. t \in excused \/ content[t] = "whole"
    BY <1>1, <2>1, <2>2 DEF Honest
  <2> QED BY <1>1, <2>3 DEF Honest
<1> QED BY <1>4, <1>5, <1>6, <1>7, <1>8, OthersKept

\* What is removed before it is overwritten is not saved any more.
LEMMA RemoveExistingKeeps ==
    ASSUME CacheInv, NEW w \in Workers, RemoveExisting(w) PROVE CacheInv'
<1>0. PICK t : t = Current(w)
  OBVIOUS
<1>1. /\ job[w].pc = "plan" /\ job[w].todo # << >>
      /\ Renewed(t, "none") /\ UNCHANGED <<job, saved, excused>>
  BY <1>0 DEF RemoveExisting, At, Kept
<1>2. job[w].pc # "idle"
  BY <1>1
<1>3. job[w] \in Jobs /\ Shaped(w, job[w]) /\ Waiting(job[w]) /\ job[w].publishing = FALSE
      /\ job[w].todo \in Seq(Targets)
  BY <1>1, <1>2, BatchIs DEF Shaped
<1>4. t \in Mine(w) /\ t \in Targets /\ t \in Paths /\ t # "data"
  BY <1>0, <1>1, <1>2, <1>3, CurrentIs
<1>5. t \notin saved
  <2>1. t = job[w].todo[1] /\ 1 \in DOMAIN job[w].todo
    BY <1>0, <1>1, <1>3, RestIs DEF Current
  <2> QED BY <1>1, <1>3, <2>1 DEF Waiting
<1>6. CacheTypes
  BY DEF CacheInv
<1>7. /\ content' \in [Paths -> {"none", "part", "whole", "edited"}]
      /\ linked' \in [Paths -> SUBSET Paths]
      /\ \A y, z \in Paths : z \in linked'[y] => y \in linked'[z]
      /\ content'[t] = "none"
      /\ \A y \in Paths : y # t => content'[y] = content[y]
      /\ \A y \in Paths : linked[y] = {} => linked'[y] = {}
  BY <1>1, <1>4, <1>6, RenewedIs
<1>8. CacheTypes'
  BY <1>1, <1>6, <1>7 DEF CacheTypes
<1>9. Touches(w, {t})
  BY <1>1, <1>4, <1>7, PathsApart DEF Touches
<1>10. JobKept(w)'
  BY <1>1, <1>3 DEF JobKept, Shaped, Waiting, SourceWhole, NotLinkedYet, DataSeen
<1>11. Honest(t)'
  BY <1>1, <1>5, <1>7 DEF Honest
<1> QED BY <1>4, <1>8, <1>9, <1>10, <1>11, OthersKept

\* A step from one place of the cache to another, for the target in hand.
LEMMA MovedKept ==
    ASSUME CacheInv, NEW w \in Workers, job[w].pc \notin {"idle", "transfer", "touch"},
           NEW k \in Jobs, job' = [job EXCEPT ![w] = k],
           k.todo = job[w].todo, k.group = job[w].group, k.at = job[w].at, k.from = job[w].from,
           k.publishing = job[w].publishing,
           k.pc \notin {"plan", "transfer", "publish"},
           k.cached = TRUE => k.from = w,
           k.cached = TRUE \/ k.pc = "copy",
           k.publishing = FALSE =>
               /\ k.todo # << >>
               /\ k.pc \notin {"store data", "store metadata", "store target", "copy"}
               /\ k.pc = "touch" \/ saved' = saved
               /\ saved' \subseteq saved \cup {Current(w)},
           k.publishing = TRUE =>
               /\ k.at \in DOMAIN k.group
               /\ k.pc \notin {"prune", "prune metadata", "prune data"}
               /\ content'[k.from] = content[k.from]
               /\ k.raced = FALSE => job[w].raced = FALSE,
           k.pc = "store data" => content'[w] = "whole" /\ linked'[w] = {},
           k.pc \in {"restore", "store metadata", "store target"} /\ k.raced = FALSE =>
               content'["data"] \in {"none", "whole"}
    PROVE  /\ JobKept(w)' /\ job' \in [Workers -> Jobs \cup {NoJob}]
           /\ \A v \in Workers : v # w => job'[v] = job[v]
<1> DEFINE j == job[w]
<1>1. /\ j \in Jobs /\ Shaped(w, j) /\ Waiting(j) /\ SourceWhole(j)
      /\ job \in [Workers -> Jobs \cup {NoJob}] /\ j.publishing \in BOOLEAN
      /\ j.todo \in Seq(Targets)
  BY BatchIs
<1>2. job'[w] = k /\ job' \in [Workers -> Jobs \cup {NoJob}]
      /\ \A v \in Workers : v # w => job'[v] = job[v]
  BY <1>1
<1>3. Shaped(w, k)
  <2>1. /\ \A i \in DOMAIN k.todo : k.todo[i] \in Mine(w)
        /\ \A i \in DOMAIN k.group : k.group[i] \in Mine(w)
    BY <1>1 DEF Shaped
  <2>2. \/ k.from = w
        \/ /\ k.group # << >> /\ k.from = k.group[1] /\ k.cached = FALSE
           /\ k.publishing = TRUE \/ k.pc = "transfer"
    <3>1. k.cached \in BOOLEAN
      BY FieldsOf
    <3>2. CASE k.from # w
      <4>1. /\ j.group # << >> /\ j.from = j.group[1]
            /\ j.publishing = TRUE
        BY <1>1, <3>2 DEF Shaped
      <4> QED BY <3>1, <3>2, <4>1
    <3> QED BY <3>2
  <2>3. k.publishing \in BOOLEAN
    BY <1>1
  <2> QED BY <2>1, <2>2, <2>3 DEF Shaped
<1>4. Shaped(w, job[w])'
  BY <1>2, <1>3 DEF Shaped
<1>5. Waiting(job[w])'
  <2> SUFFICES ASSUME k.publishing = FALSE
               PROVE  /\ \A i, l \in DOMAIN k.todo : i # l => k.todo[i] # k.todo[l]
                      /\ \A i \in DOMAIN k.todo, l \in DOMAIN k.group : k.todo[i] # k.group[l]
                      /\ \A i \in DOMAIN k.todo : k.todo[i] \in saved' => k.pc = "touch" /\ i = 1
                      /\ \A i \in DOMAIN k.group : k.group[i] \notin saved'
    BY <1>2 DEF Waiting
  <2>1. /\ \A i, l \in DOMAIN j.todo : i # l => j.todo[i] # j.todo[l]
        /\ \A i \in DOMAIN j.todo, l \in DOMAIN j.group : j.todo[i] # j.group[l]
        /\ \A i \in DOMAIN j.todo : j.todo[i] \notin saved
        /\ \A i \in DOMAIN j.group : j.group[i] \notin saved
    BY <1>1 DEF Waiting
  <2>2. /\ 1 \in DOMAIN j.todo /\ Current(w) = j.todo[1]
    <3>1. j.todo # << >> /\ Current(w) = Head(j.todo)
      BY DEF Current
    <3> QED BY <3>1, HeadIs
  <2>3. \A i \in DOMAIN j.todo : j.todo[i] \in saved' => k.pc = "touch" /\ i = 1
    BY <2>1, <2>2
  <2>4. \A i \in DOMAIN j.group : j.group[i] \notin saved'
    BY <2>1, <2>2
  <2> QED BY <2>1, <2>3, <2>4
<1>6. SourceWhole(job[w])'
  BY <1>1, <1>2 DEF SourceWhole
<1>7. NotLinkedYet(w, job[w])' /\ DataSeen(job[w])'
  BY <1>2 DEF NotLinkedYet, DataSeen
<1>8. k # NoJob
  <2>1. k.pc # "idle"
    BY DEF Jobs
  <2>2. NoJob.pc = "idle"
    BY DEF NoJob
  <2> QED BY <2>1, <2>2
<1> QED BY <1>2, <1>4, <1>5, <1>6, <1>7 DEF JobKept

\* The same where only the place changes.
LEMMA GoesKept ==
    ASSUME CacheInv, NEW w \in Workers, job[w].pc \notin {"idle", "transfer", "touch"},
           NEW p \in {"prune", "prune metadata", "prune data", "check", "remove metadata",
                      "remove data", "restore", "touch", "store data", "store metadata",
                      "store target", "copy"},
           Goes(w, p),
           job[w].cached = TRUE \/ p = "copy",
           job[w].publishing = FALSE =>
               /\ job[w].todo # << >>
               /\ p \notin {"store data", "store metadata", "store target", "copy"}
               /\ p = "touch" \/ saved' = saved
               /\ saved' \subseteq saved \cup {Current(w)},
           job[w].publishing = TRUE =>
               /\ job[w].at \in DOMAIN job[w].group
               /\ p \notin {"prune", "prune metadata", "prune data"}
               /\ content'[job[w].from] = content[job[w].from],
           p = "store data" => content'[w] = "whole" /\ linked'[w] = {},
           p \in {"restore", "store metadata", "store target"} /\ job[w].raced = FALSE =>
               content'["data"] \in {"none", "whole"}
    PROVE  /\ JobKept(w)' /\ job' \in [Workers -> Jobs \cup {NoJob}]
           /\ \A v \in Workers : v # w => job'[v] = job[v]
<1> DEFINE k == [job[w] EXCEPT !.pc = p]
<1>1. job[w] \in Jobs /\ Shaped(w, job[w])
  BY BatchIs
<1>2. job' = [job EXCEPT ![w] = k]
  BY DEF Goes
<1>3. k \in Jobs
  BY <1>1 DEF Jobs
<1>4. /\ k.pc = p /\ k.todo = job[w].todo /\ k.group = job[w].group
      /\ k.at = job[w].at /\ k.cached = job[w].cached
      /\ k.publishing = job[w].publishing /\ k.raced = job[w].raced
      /\ k.from = job[w].from
  BY <1>1 DEF Jobs
<1> HIDE DEF k
<1>5. k.cached = TRUE => k.from = w
  BY <1>1, <1>4 DEF Shaped
<1> QED BY <1>2, <1>3, <1>4, <1>5, MovedKept

\* A step that writes no file.
LEMMA NoFile ==
    ASSUME CacheInv, NEW w \in Workers, job[w].pc # "transfer",
           UNCHANGED <<content, linked, saved, excused>>,
           job' \in [Workers -> Jobs \cup {NoJob}],
           \A v \in Workers : v # w => job'[v] = job[v], JobKept(w)'
    PROVE  CacheInv'
<1>1. CacheTypes'
  BY DEF CacheInv, CacheTypes
<1>2. Touches(w, {})
  BY DEF Touches
<1> QED BY <1>1, <1>2, OthersKept

\* A batch ends.
LEMMA JobEnds ==
    ASSUME CacheInv, NEW w \in Workers, job' = [job EXCEPT ![w] = NoJob]
    PROVE  /\ JobKept(w)' /\ job' \in [Workers -> Jobs \cup {NoJob}]
           /\ \A v \in Workers : v # w => job'[v] = job[v]
<1>1. job \in [Workers -> Jobs \cup {NoJob}]
  BY DEF CacheInv, CacheTypes
<1> QED BY <1>1 DEF JobKept

\* Where the cache is looked at, or not.
LEMMA PlanTargetKeeps == ASSUME CacheInv, NEW w \in Workers, PlanTarget(w) PROVE CacheInv'
<1>1. /\ job[w].pc = "plan" /\ job[w].todo # << >>
      /\ UNCHANGED <<content, linked, saved, excused>>
  BY DEF PlanTarget, At, Kept
<1>2. job[w].pc # "idle" /\ job[w].pc # "transfer"
  BY <1>1
<1>3. /\ job[w] \in Jobs /\ Shaped(w, job[w]) /\ job[w].publishing = FALSE
      /\ job[w].overwrite \in BOOLEAN
  BY <1>1, <1>2, BatchIs DEF Shaped
<1>4. CASE Miss(w)
  <2>1. /\ JobKept(w)' /\ job' \in [Workers -> Jobs \cup {NoJob}]
        /\ \A v \in Workers : v # w => job'[v] = job[v]
    BY <1>1, <1>3, <1>4, MissKept
  <2> QED BY <1>1, <1>2, <2>1, NoFile
<1>5. CASE job' = [job EXCEPT ![w].pc = IF w \in pruned THEN "check" ELSE "prune",
                              ![w].cached = TRUE]
  <2>1. PICK p \in {"check", "prune"} : job' = [job EXCEPT ![w].pc = p, ![w].cached = TRUE]
    BY <1>5
  <2> DEFINE k == [job[w] EXCEPT !.pc = p, !.cached = TRUE]
  <2>2. job' = [job EXCEPT ![w] = k]
    BY <2>1
  <2>3. k \in Jobs
    BY <1>3 DEF Jobs
  <2>4. /\ k.pc = p /\ k.todo = job[w].todo /\ k.group = job[w].group
        /\ k.at = job[w].at /\ k.cached = TRUE
        /\ k.publishing = job[w].publishing /\ k.raced = job[w].raced
        /\ k.from = job[w].from
    BY <1>3 DEF Jobs
  <2> HIDE DEF k
  <2>5. k.from = w
    BY <1>1, <1>3, <2>4 DEF Shaped
  <2>6. /\ JobKept(w)' /\ job' \in [Workers -> Jobs \cup {NoJob}]
        /\ \A v \in Workers : v # w => job'[v] = job[v]
    BY <1>1, <1>3, <2>2, <2>3, <2>4, <2>5, MovedKept
  <2> QED BY <1>1, <1>2, <2>6, NoFile
<1> QED BY <1>4, <1>5 DEF PlanTarget

\* A download begins at a file that nothing says is saved.
LEMMA BeginDownloadKeeps == ASSUME CacheInv, NEW w \in Workers, BeginDownload(w) PROVE CacheInv'
<1>1. /\ job[w].pc = "plan" /\ job[w].todo = << >> /\ job[w].group # << >>
      /\ UNCHANGED <<saved, excused>>
  BY DEF BeginDownload, At, Kept
<1>2. job[w].pc # "idle" /\ job[w].pc # "transfer"
  BY <1>1
<1>3. /\ job[w] \in Jobs /\ Shaped(w, job[w]) /\ Waiting(job[w]) /\ job[w].publishing = FALSE
      /\ job[w].group \in Seq(Targets) /\ job[w].cached \in BOOLEAN
      /\ job \in [Workers -> Jobs \cup {NoJob}]
  BY <1>1, <1>2, BatchIs DEF Shaped
<1>4. PICK cached \in {FALSE, job[w].cached} :
          LET from == IF cached THEN w ELSE Head(job[w].group) IN
          /\ job' = [job EXCEPT ![w].pc = "transfer", ![w].cached = cached, ![w].from = from,
                                ![w].raced = FALSE]
          /\ Renewed(from, "part")
  BY DEF BeginDownload
<1>5. PICK from : from = IF cached THEN w ELSE Head(job[w].group)
  OBVIOUS
<1>6. /\ Head(job[w].group) = job[w].group[1] /\ 1 \in DOMAIN job[w].group
      /\ cached \in BOOLEAN
  BY <1>1, <1>3, RestIs
<1>7. from = w \/ (cached = FALSE /\ from = job[w].group[1])
  BY <1>5, <1>6
<1>8. from \in {w} \cup Mine(w) /\ (from # w => from \notin saved)
  BY <1>3, <1>6, <1>7 DEF Shaped, Waiting
<1>9. from \in Paths /\ from # "data" /\ from \in Workers \cup Targets
  BY <1>8, PathsApart
<1> DEFINE k == [job[w] EXCEPT !.pc = "transfer", !.cached = cached, !.from = from, !.raced = FALSE]
<1>10. job' = [job EXCEPT ![w] = k] /\ Renewed(from, "part")
  BY <1>4, <1>5
<1>11. k \in Jobs
  BY <1>3, <1>6, <1>9 DEF Jobs
<1>12. /\ k.pc = "transfer" /\ k.todo = job[w].todo /\ k.group = job[w].group
       /\ k.cached = cached /\ k.publishing = FALSE /\ k.from = from
  BY <1>3 DEF Jobs
<1> HIDE DEF k
<1>13. job'[w] = k /\ job' \in [Workers -> Jobs \cup {NoJob}]
       /\ \A v \in Workers : v # w => job'[v] = job[v]
  BY <1>3, <1>10, <1>11
<1>14. CacheTypes
  BY DEF CacheInv
<1>15. /\ content' \in [Paths -> {"none", "part", "whole", "edited"}]
       /\ linked' \in [Paths -> SUBSET Paths]
       /\ \A y, z \in Paths : z \in linked'[y] => y \in linked'[z]
       /\ \A y \in Paths : y # from => content'[y] = content[y]
       /\ \A y \in Paths : linked[y] = {} => linked'[y] = {}
  BY <1>9, <1>10, <1>14, RenewedIs
<1>16. CacheTypes'
  BY <1>1, <1>13, <1>14, <1>15 DEF CacheTypes
<1>17. Touches(w, {from})
  BY <1>1, <1>9, <1>13, <1>15, PathsApart DEF Touches
<1>18. Shaped(w, k)
  BY <1>1, <1>3, <1>7, <1>12 DEF Shaped
<1>19. Shaped(w, job[w])'
  BY <1>13, <1>18 DEF Shaped
<1>20. Waiting(job[w])' /\ SourceWhole(job[w])' /\ NotLinkedYet(w, job[w])' /\ DataSeen(job[w])'
  <2>1. DOMAIN k.todo = {}
    BY <1>1, <1>12
  <2>2. \A i \in DOMAIN k.group : k.group[i] \notin saved
    BY <1>3, <1>12 DEF Waiting
  <2>3. Waiting(job[w])'
    BY <1>1, <1>13, <2>1, <2>2 DEF Waiting
  <2>4. SourceWhole(job[w])' /\ NotLinkedYet(w, job[w])' /\ DataSeen(job[w])'
    BY <1>12, <1>13 DEF SourceWhole, NotLinkedYet, DataSeen
  <2> QED BY <2>3, <2>4
<1>21. JobKept(w)'
  BY <1>19, <1>20 DEF JobKept
<1>22. \A t \in {from} \cap Targets : Honest(t)'
  <2> SUFFICES ASSUME from \in Targets PROVE Honest(from)'
    OBVIOUS
  <2>1. from \notin saved'
    BY <1>1, <1>8, PathsApart
  <2>2. job'[w].pc = "transfer" /\ job'[w].from = from
    BY <1>12, <1>13
  <2>3. content'[from] \in {"none", "part", "whole", "edited"}
    BY <1>9, <1>15
  <2> QED BY <2>1, <2>2 DEF Honest
<1> QED BY <1>8, <1>16, <1>17, <1>21, <1>22, OthersKept

\* A step that writes the data of the cache.
LEMMA WritesData ==
    ASSUME CacheInv, NEW w \in Workers, job[w].pc # "transfer",
           Renewed("data", "none") \/ (Published("data", w) /\ content[w] = "whole"),
           UNCHANGED <<saved, excused>>,
           job' \in [Workers -> Jobs \cup {NoJob}],
           \A v \in Workers : v # w => job'[v] = job[v], JobKept(w)'
    PROVE  CacheInv'
<1>1. "data" \in Paths /\ w \in Paths /\ CacheTypes
  BY PathsApart DEF CacheInv
<1>2. /\ content' \in [Paths -> {"none", "part", "whole", "edited"}]
      /\ linked' \in [Paths -> SUBSET Paths]
      /\ \A y, z \in Paths : z \in linked'[y] => y \in linked'[z]
      /\ \A y \in Paths : y # "data" => content'[y] = content[y]
      /\ \A y \in Paths : y # "data" /\ y # w /\ linked[y] = {} => linked'[y] = {}
      /\ content'["data"] \in {"none", "whole"}
  <2>1. CASE Renewed("data", "none")
    BY <1>1, <2>1, RenewedIs
  <2>2. CASE Published("data", w) /\ content[w] = "whole"
    BY <1>1, <2>2, PublishedIs
  <2> QED BY <2>1, <2>2
<1>3. CacheTypes'
  BY <1>1, <1>2 DEF CacheTypes
<1>4. Touches(w, {"data"})
  BY <1>1, <1>2, PathsApart DEF Touches
<1>5. {"data"} \cap Targets = {}
  BY PathsApart
<1> QED BY <1>3, <1>4, <1>5, OthersKept

\* A step that publishes a target.
LEMMA WritesTarget ==
    ASSUME CacheInv, NEW w \in Workers, job[w].pc \notin {"idle", "transfer"},
           NEW t \in Mine(w), NEW y \in {w, "data"} \cup Mine(w), Published(t, y),
           Saved(w, t), job[w].raced = FALSE => content[y] = "whole",
           job' \in [Workers -> Jobs \cup {NoJob}],
           \A v \in Workers : v # w => job'[v] = job[v], JobKept(w)'
    PROVE  CacheInv'
<1>1. /\ "data" \in Paths /\ t \in Paths /\ t \in Targets /\ t # "data" /\ y \in Paths /\ CacheTypes
      /\ \A v \in Workers : v # w => v # y /\ v # t /\ v \in Paths
  BY PathsApart DEF CacheInv
<1>2. /\ content' \in [Paths -> {"none", "part", "whole", "edited"}]
      /\ linked' \in [Paths -> SUBSET Paths]
      /\ \A u, z \in Paths : z \in linked'[u] => u \in linked'[z]
      /\ content'[t] = content[y]
      /\ \A z \in Paths : z # t => content'[z] = content[z]
      /\ \A z \in Paths : z # t /\ z # y /\ linked[z] = {} => linked'[z] = {}
  BY <1>1, PublishedIs
<1>3. /\ saved' = saved \cup {t} /\ saved' \subseteq Targets /\ excused' \subseteq Targets
      /\ excused \subseteq excused' \cup {t} /\ Honest(t)'
  BY <1>1, <1>2, SavedKept
<1>4. CacheTypes'
  BY <1>2, <1>3 DEF CacheTypes
<1>5. Touches(w, {t})
  BY <1>1, <1>2, <1>3 DEF Touches
<1> QED BY <1>3, <1>4, <1>5, OthersKept

\* The end of a batch that needs no download.
LEMMA EndPlanKeeps == ASSUME CacheInv, NEW w \in Workers, EndPlan(w) PROVE CacheInv'
<1>1. job[w].pc = "plan" /\ job' = [job EXCEPT ![w] = NoJob]
      /\ UNCHANGED <<content, linked, saved, excused>>
  BY DEF EndPlan, At, Kept
<1> QED BY <1>1, JobEnds, NoFile

\* Pruning looks for what it removes.
LEMMA PruneKeeps == ASSUME CacheInv, NEW w \in Workers, Prune(w) PROVE CacheInv'
<1>1. job[w].pc = "prune" /\ UNCHANGED <<content, linked, saved, excused>>
  BY DEF Prune, At, Kept
<1>2. job[w].pc # "idle" /\ job[w].pc \notin {"idle", "transfer", "touch"}
  BY <1>1
<1>3. job[w].cached = TRUE /\ job[w].publishing = FALSE /\ job[w].todo # << >>
  BY <1>1, <1>2, BatchIs DEF Shaped
<1>4. PICK p \in {"prune metadata", "prune data", "check"} : Goes(w, p)
  BY DEF Prune
<1>5. /\ JobKept(w)' /\ job' \in [Workers -> Jobs \cup {NoJob}]
      /\ \A v \in Workers : v # w => job'[v] = job[v]
  BY <1>1, <1>2, <1>3, <1>4, GoesKept
<1> QED BY <1>1, <1>5, NoFile

\* Metadata is removed before its data.
LEMMA RemoveMetadataKeeps == ASSUME CacheInv, NEW w \in Workers, RemoveMetadata(w) PROVE CacheInv'
<1>1. /\ job[w].pc \in {"prune metadata", "remove metadata"}
      /\ UNCHANGED <<content, linked, saved, excused>>
  BY DEF RemoveMetadata, Kept
<1>2. job[w].pc # "idle" /\ job[w].pc \notin {"idle", "transfer", "touch"}
  BY <1>1
<1>3. /\ job[w].cached = TRUE /\ job[w].publishing \in BOOLEAN
      /\ job[w].publishing = FALSE => job[w].todo # << >>
      /\ job[w].publishing = TRUE => job[w].at \in DOMAIN job[w].group /\ job[w].pc # "prune metadata"
  BY <1>1, <1>2, BatchIs DEF Shaped
<1>4. PICK p \in {"prune data", "remove data"} :
          Goes(w, p) /\ (p = "prune data" => job[w].pc = "prune metadata")
  BY DEF RemoveMetadata, At
<1>5. /\ JobKept(w)' /\ job' \in [Workers -> Jobs \cup {NoJob}]
      /\ \A v \in Workers : v # w => job'[v] = job[v]
  BY <1>1, <1>2, <1>3, <1>4, GoesKept
<1> QED BY <1>1, <1>5, NoFile

\* Data that is removed was nobody's target.
LEMMA RemoveDataKeeps == ASSUME CacheInv, NEW w \in Workers, RemoveData(w) PROVE CacheInv'
<1>1. /\ job[w].pc \in {"prune data", "remove data"} /\ Renewed("data", "none")
      /\ UNCHANGED <<saved, excused>>
  BY DEF RemoveData, Kept
<1>2. job[w].pc # "idle" /\ job[w].pc \notin {"idle", "transfer", "touch"}
  BY <1>1
<1>3. /\ job[w].cached = TRUE /\ job[w].publishing \in BOOLEAN /\ Shaped(w, job[w])
      /\ job[w].publishing = FALSE => job[w].todo # << >>
      /\ job[w].publishing = TRUE => job[w].at \in DOMAIN job[w].group /\ job[w].pc # "prune data"
      /\ job[w] \in Jobs
  BY <1>1, <1>2, BatchIs DEF Shaped
<1>4. job[w].from = w /\ content'[w] = content[w]
  <2>1. job[w].from = w
    BY <1>3 DEF Shaped
  <2>2. "data" \in Paths /\ w \in Paths /\ w # "data" /\ CacheTypes
    BY PathsApart DEF CacheInv
  <2> QED BY <1>1, <2>1, <2>2, RenewedIs
<1>5. CASE job[w].pc = "prune data" /\ Goes(w, "check")
  <2>1. /\ JobKept(w)' /\ job' \in [Workers -> Jobs \cup {NoJob}]
        /\ \A v \in Workers : v # w => job'[v] = job[v]
    BY <1>1, <1>2, <1>3, <1>4, <1>5, GoesKept
  <2> QED BY <1>1, <2>1, WritesData
<1>6. CASE Miss(w)
  <2>1. /\ JobKept(w)' /\ job' \in [Workers -> Jobs \cup {NoJob}]
        /\ \A v \in Workers : v # w => job'[v] = job[v]
    BY <1>1, <1>2, <1>3, <1>4, <1>6, MissKept
  <2> QED BY <1>1, <2>1, WritesData
<1> QED BY <1>5, <1>6 DEF RemoveData, At

\* An entry that is restored was whole when it was checked.
LEMMA CheckEntryKeeps == ASSUME CacheInv, NEW w \in Workers, CheckEntry(w) PROVE CacheInv'
<1>1. job[w].pc = "check" /\ UNCHANGED <<content, linked, saved, excused>>
  BY DEF CheckEntry, At, Kept
<1>2. job[w].pc # "idle" /\ job[w].pc \notin {"idle", "transfer", "touch"}
  BY <1>1
<1>3. /\ job[w].cached = TRUE /\ job[w].publishing \in BOOLEAN /\ Shaped(w, job[w])
      /\ job[w].publishing = FALSE => job[w].todo # << >>
      /\ job[w].publishing = TRUE => job[w].at \in DOMAIN job[w].group
      /\ job[w] \in Jobs /\ job[w].raced \in BOOLEAN
  BY <1>1, <1>2, BatchIs DEF Shaped
<1>4. job[w].from = w
  BY <1>3 DEF Shaped
<1>5. CASE Miss(w)
  <2>1. /\ JobKept(w)' /\ job' \in [Workers -> Jobs \cup {NoJob}]
        /\ \A v \in Workers : v # w => job'[v] = job[v]
    BY <1>1, <1>2, <1>3, <1>5, MissKept
  <2> QED BY <1>1, <2>1, NoFile
<1>6. CASE job' = [job EXCEPT ![w].pc = IF Valid THEN "restore" ELSE "remove metadata",
                              ![w].raced = job[w].raced /\ job[w].publishing]
  <2>1. PICK p : p = IF Valid THEN "restore" ELSE "remove metadata"
    OBVIOUS
  <2>2. p \in {"restore", "remove metadata"} /\ (p = "restore" => content["data"] = "whole")
    BY <2>1 DEF Valid
  <2>3. PICK r \in BOOLEAN : r = (job[w].raced /\ job[w].publishing)
    BY <1>3
  <2> DEFINE k == [job[w] EXCEPT !.pc = p, !.raced = r]
  <2>4. job' = [job EXCEPT ![w] = k]
    BY <1>6, <2>1, <2>3
  <2>5. k \in Jobs
    BY <1>3, <2>2 DEF Jobs
  <2>6. /\ k.pc = p /\ k.todo = job[w].todo /\ k.group = job[w].group
        /\ k.at = job[w].at /\ k.cached = TRUE /\ k.raced = r
        /\ k.publishing = job[w].publishing
        /\ k.from = job[w].from
    BY <1>3 DEF Jobs
  <2> HIDE DEF k
  <2>7. job[w].publishing = TRUE /\ r = FALSE => job[w].raced = FALSE
    BY <1>3, <2>3
  <2>8. /\ JobKept(w)' /\ job' \in [Workers -> Jobs \cup {NoJob}]
        /\ \A v \in Workers : v # w => job'[v] = job[v]
    BY <1>1, <1>2, <1>3, <1>4, <2>2, <2>4, <2>5, <2>6, <2>7, MovedKept
  <2> QED BY <1>1, <1>2, <2>8, NoFile
<1> QED BY <1>5, <1>6 DEF CheckEntry

\* What is restored is whole, if it is there and nobody edited since the check.
LEMMA RestoreTargetKeeps == ASSUME CacheInv, NEW w \in Workers, RestoreTarget(w) PROVE CacheInv'
<1>0. PICK t : t = Current(w)
  OBVIOUS
<1>1. job[w].pc = "restore"
  BY DEF RestoreTarget, At
<1>2. job[w].pc # "idle" /\ job[w].pc \notin {"idle", "transfer", "touch"}
  BY <1>1
<1>3. /\ job[w].cached = TRUE /\ job[w].publishing \in BOOLEAN /\ Shaped(w, job[w])
      /\ job[w].publishing = FALSE => job[w].todo # << >>
      /\ job[w].publishing = TRUE => job[w].at \in DOMAIN job[w].group
      /\ job[w] \in Jobs /\ DataSeen(job[w])
  BY <1>1, <1>2, BatchIs DEF Shaped
<1>4. job[w].from = w /\ t \in Mine(w)
  BY <1>0, <1>2, <1>3, CurrentIs DEF Shaped
<1>5. CASE Exists("data") /\ Published(t, "data") /\ Saved(w, t) /\ Goes(w, "touch")
  <2>1. saved' = saved \cup {t}
    BY <1>5 DEF Saved
  <2>2. content'[w] = content[w]
    <3>1. CacheTypes /\ t \in Paths /\ "data" \in Paths /\ w \in Paths /\ w # t
      BY <1>4, PathsApart DEF CacheInv
    <3> QED BY <1>5, <3>1, PublishedIs
  <2>3. /\ JobKept(w)' /\ job' \in [Workers -> Jobs \cup {NoJob}]
        /\ \A v \in Workers : v # w => job'[v] = job[v]
    BY <1>0, <1>1, <1>2, <1>3, <1>4, <1>5, <2>1, <2>2, GoesKept
  <2>4. job[w].raced = FALSE => content["data"] = "whole"
    BY <1>1, <1>3, <1>5 DEF DataSeen, Exists
  <2> QED BY <1>2, <1>4, <1>5, <2>3, <2>4, WritesTarget
<1>6. CASE Miss(w) /\ UNCHANGED <<content, linked, saved, excused>>
  <2>1. /\ JobKept(w)' /\ job' \in [Workers -> Jobs \cup {NoJob}]
        /\ \A v \in Workers : v # w => job'[v] = job[v]
    BY <1>1, <1>2, <1>3, <1>6, MissKept
  <2> QED BY <1>1, <1>6, <2>1, NoFile
<1> QED BY <1>0, <1>5, <1>6 DEF RestoreTarget

\* The time of the last use is no file of a target.
LEMMA TouchEntryKeeps == ASSUME CacheInv, NEW w \in Workers, TouchEntry(w) PROVE CacheInv'
<1>1. job[w].pc = "touch" /\ NextTarget(w) /\ UNCHANGED <<content, linked, saved, excused>>
  BY DEF TouchEntry, At, Kept
<1>2. job[w].pc # "idle"
  BY <1>1
<1>3. job[w] \in Jobs /\ (job[w].publishing = FALSE => job[w].todo # << >>)
  BY <1>1, <1>2, BatchIs DEF Shaped
<1>4. /\ JobKept(w)' /\ job' \in [Workers -> Jobs \cup {NoJob}]
      /\ \A v \in Workers : v # w => job'[v] = job[v]
  BY <1>1, <1>3, NextKept
<1> QED BY <1>1, <1>4, NoFile

\* What is stored is whole: nothing is linked to the download yet.
LEMMA StoreDataKeeps == ASSUME CacheInv, NEW w \in Workers, StoreData(w) PROVE CacheInv'
<1>1. job[w].pc = "store data" /\ UNCHANGED <<saved, excused>>
  BY DEF StoreData, At, Kept
<1>2. job[w].pc # "idle" /\ job[w].pc \notin {"idle", "transfer", "touch"}
  BY <1>1
<1>3. /\ job[w].cached = TRUE /\ job[w].publishing = TRUE /\ Shaped(w, job[w])
      /\ job[w].at \in DOMAIN job[w].group /\ NotLinkedYet(w, job[w])
  BY <1>1, <1>2, BatchIs DEF Shaped
<1>4. job[w].from = w /\ content[w] = "whole"
  BY <1>1, <1>3 DEF Shaped, NotLinkedYet
<1>5. CASE Published("data", w) /\ Goes(w, "store metadata")
  <2>1. content'["data"] = "whole" /\ content'[w] = content[w]
    <3>1. CacheTypes /\ "data" \in Paths /\ w \in Paths /\ w # "data"
      BY PathsApart DEF CacheInv
    <3> QED BY <1>4, <1>5, <3>1, PublishedIs
  <2>2. /\ JobKept(w)' /\ job' \in [Workers -> Jobs \cup {NoJob}]
        /\ \A v \in Workers : v # w => job'[v] = job[v]
    BY <1>1, <1>2, <1>3, <1>4, <1>5, <2>1, GoesKept
  <2> QED BY <1>1, <1>4, <1>5, <2>2, WritesData
<1>6. CASE Goes(w, "copy") /\ UNCHANGED <<content, linked>>
  <2>1. /\ JobKept(w)' /\ job' \in [Workers -> Jobs \cup {NoJob}]
        /\ \A v \in Workers : v # w => job'[v] = job[v]
    BY <1>1, <1>2, <1>3, <1>6, GoesKept
  <2> QED BY <1>1, <1>6, <2>1, NoFile
<1> QED BY <1>5, <1>6 DEF StoreData

\* Data whose metadata cannot be written is removed.
LEMMA StoreMetadataKeeps == ASSUME CacheInv, NEW w \in Workers, StoreMetadata(w) PROVE CacheInv'
<1>1. job[w].pc = "store metadata" /\ UNCHANGED <<saved, excused>>
  BY DEF StoreMetadata, At, Kept
<1>2. job[w].pc # "idle" /\ job[w].pc \notin {"idle", "transfer", "touch"}
  BY <1>1
<1>3. /\ job[w].cached = TRUE /\ job[w].publishing = TRUE /\ Shaped(w, job[w])
      /\ job[w].at \in DOMAIN job[w].group /\ DataSeen(job[w])
  BY <1>1, <1>2, BatchIs DEF Shaped
<1>4. job[w].from = w
  BY <1>1, <1>3 DEF Shaped
<1>5. CASE Goes(w, "store target") /\ UNCHANGED <<content, linked>>
  <2>1. job[w].raced = FALSE => content'["data"] \in {"none", "whole"}
    BY <1>1, <1>3, <1>5 DEF DataSeen
  <2>2. /\ JobKept(w)' /\ job' \in [Workers -> Jobs \cup {NoJob}]
        /\ \A v \in Workers : v # w => job'[v] = job[v]
    BY <1>1, <1>2, <1>3, <1>5, <2>1, GoesKept
  <2> QED BY <1>1, <1>5, <2>2, NoFile
<1>6. CASE Renewed("data", "none") /\ Goes(w, "copy")
  <2>1. content'[w] = content[w]
    <3>1. CacheTypes /\ "data" \in Paths /\ w \in Paths /\ w # "data"
      BY PathsApart DEF CacheInv
    <3> QED BY <1>6, <3>1, RenewedIs
  <2>2. /\ JobKept(w)' /\ job' \in [Workers -> Jobs \cup {NoJob}]
        /\ \A v \in Workers : v # w => job'[v] = job[v]
    BY <1>1, <1>2, <1>3, <1>4, <1>6, <2>1, GoesKept
  <2> QED BY <1>1, <1>6, <2>2, WritesData
<1> QED BY <1>5, <1>6 DEF StoreMetadata

\* What is taken from the stored data is whole, unless somebody edited meanwhile.
LEMMA StoreTargetKeeps == ASSUME CacheInv, NEW w \in Workers, StoreTarget(w) PROVE CacheInv'
<1>0. PICK t : t = Current(w)
  OBVIOUS
<1>1. job[w].pc = "store target"
  BY DEF StoreTarget, At
<1>2. job[w].pc # "idle" /\ job[w].pc \notin {"idle", "transfer", "touch"}
  BY <1>1
<1>3. /\ job[w].cached = TRUE /\ job[w].publishing = TRUE /\ Shaped(w, job[w])
      /\ job[w].at \in DOMAIN job[w].group
      /\ job[w] \in Jobs /\ DataSeen(job[w])
  BY <1>1, <1>2, BatchIs DEF Shaped
<1>4. job[w].from = w /\ t \in Mine(w)
  BY <1>0, <1>2, <1>3, CurrentIs DEF Shaped
<1>5. CASE Exists("data") /\ Published(t, "data") /\ Saved(w, t) /\ NextTarget(w)
  <2>1. saved' = saved \cup {t}
    BY <1>5 DEF Saved
  <2>2. content'[w] = content[w]
    <3>1. CacheTypes /\ t \in Paths /\ "data" \in Paths /\ w \in Paths /\ w # t
      BY <1>4, PathsApart DEF CacheInv
    <3> QED BY <1>5, <3>1, PublishedIs
  <2>3. /\ JobKept(w)' /\ job' \in [Workers -> Jobs \cup {NoJob}]
        /\ \A v \in Workers : v # w => job'[v] = job[v]
    BY <1>0, <1>1, <1>2, <1>3, <1>4, <1>5, <2>1, <2>2, NextKept
  <2>4. job[w].raced = FALSE => content["data"] = "whole"
    BY <1>1, <1>3, <1>5 DEF DataSeen, Exists
  <2> QED BY <1>2, <1>4, <1>5, <2>3, <2>4, WritesTarget
<1>6. CASE Goes(w, "copy") /\ UNCHANGED <<content, linked, saved, excused>>
  <2>1. /\ JobKept(w)' /\ job' \in [Workers -> Jobs \cup {NoJob}]
        /\ \A v \in Workers : v # w => job'[v] = job[v]
    BY <1>1, <1>2, <1>3, <1>6, GoesKept
  <2> QED BY <1>1, <1>6, <2>1, NoFile
<1> QED BY <1>0, <1>5, <1>6 DEF StoreTarget

\* A step that renews the file of a download.
LEMMA WritesDownload ==
    ASSUME CacheInv, NEW w \in Workers, job[w] \in Jobs,
           NEW what \in {"none", "part", "whole", "edited"}, Renewed(job[w].from, what),
           UNCHANGED <<saved, excused>>,
           job' \in [Workers -> Jobs \cup {NoJob}],
           \A v \in Workers : v # w => job'[v] = job[v], JobKept(w)',
           job[w].from \in Targets => what = "whole" \/ (what = "none" /\ job[w].from \notin saved)
    PROVE  CacheInv'
<1>1. PICK x : x = job[w].from
  OBVIOUS
<1>2. x \in {w} \cup Mine(w) /\ x \in Paths /\ CacheTypes /\ x # "data"
  BY <1>1, FromIs, PathsApart DEF CacheInv
<1>3. /\ content' \in [Paths -> {"none", "part", "whole", "edited"}]
      /\ linked' \in [Paths -> SUBSET Paths]
      /\ \A y, z \in Paths : z \in linked'[y] => y \in linked'[z]
      /\ content'[x] = what
      /\ \A y \in Paths : y # x => content'[y] = content[y]
      /\ \A y \in Paths : linked[y] = {} => linked'[y] = {}
  BY <1>1, <1>2, RenewedIs
<1>4. CacheTypes'
  BY <1>2, <1>3 DEF CacheTypes
<1>5. Touches(w, {x})
  BY <1>1, <1>2, <1>3, PathsApart DEF Touches
<1>6. \A t \in {x} \cap Targets : Honest(t)'
  BY <1>1, <1>3 DEF Honest
<1> QED BY <1>2, <1>4, <1>5, <1>6, OthersKept

\* A finished download is whole, and nothing is linked to it.
LEMMA TransferredKeeps == ASSUME CacheInv, NEW w \in Workers, Transferred(w) PROVE CacheInv'
<1>1. /\ job[w].pc = "transfer" /\ Renewed(job[w].from, "whole")
      /\ job' = [job EXCEPT ![w].pc = "publish", ![w].publishing = TRUE]
      /\ UNCHANGED <<saved, excused>>
  BY DEF Transferred, At, Kept
<1>2. job[w].pc # "idle"
  BY <1>1
<1>3. /\ job[w] \in Jobs /\ Shaped(w, job[w]) /\ job \in [Workers -> Jobs \cup {NoJob}]
  BY <1>1, <1>2, BatchIs
<1> DEFINE k == [job[w] EXCEPT !.pc = "publish", !.publishing = TRUE]
<1>4. job' = [job EXCEPT ![w] = k]
  BY <1>1
<1>5. k \in Jobs
  BY <1>3 DEF Jobs
<1>6. /\ k.pc = "publish" /\ k.todo = job[w].todo /\ k.group = job[w].group
      /\ k.cached = job[w].cached /\ k.publishing = TRUE /\ k.from = job[w].from
  BY <1>3 DEF Jobs
<1> HIDE DEF k
<1>7. job'[w] = k /\ job' \in [Workers -> Jobs \cup {NoJob}]
      /\ \A v \in Workers : v # w => job'[v] = job[v]
  BY <1>3, <1>4, <1>5
<1>8. content'[job[w].from] = "whole" /\ linked'[job[w].from] = {}
  <2>1. job[w].from \in Paths /\ CacheTypes
    BY <1>3, FromIs DEF CacheInv
  <2> QED BY <1>1, <2>1, RenewedIs
<1>9. Shaped(w, k)
  BY <1>3, <1>6 DEF Shaped
<1>10. Shaped(w, job[w])'
  BY <1>7, <1>9 DEF Shaped
<1>11. k.cached = TRUE => k.from = w
  BY <1>9 DEF Shaped
<1>12. Waiting(job[w])' /\ SourceWhole(job[w])' /\ DataSeen(job[w])'
  BY <1>6, <1>7, <1>8 DEF Waiting, SourceWhole, DataSeen
<1>13. NotLinkedYet(w, job[w])'
  BY <1>6, <1>7, <1>8, <1>11 DEF NotLinkedYet
<1>14. JobKept(w)'
  BY <1>10, <1>12, <1>13 DEF JobKept
<1> QED BY <1>1, <1>3, <1>7, <1>14, WritesDownload

\* What a failed download wrote is removed.
LEMMA TransferFailsKeeps == ASSUME CacheInv, NEW w \in Workers, TransferFails(w) PROVE CacheInv'
<1>1. /\ job[w].pc = "transfer" /\ Renewed(job[w].from, "none")
      /\ job' = [job EXCEPT ![w] = NoJob] /\ UNCHANGED <<saved, excused>>
  BY DEF TransferFails, At, Kept
<1>2. job[w].pc # "idle"
  BY <1>1
<1>3. /\ job[w] \in Jobs /\ Shaped(w, job[w]) /\ Waiting(job[w]) /\ job[w].publishing = FALSE
      /\ job[w].group \in Seq(Targets)
  BY <1>1, <1>2, BatchIs DEF Shaped
<1>4. job[w].from \in Targets => job[w].from \notin saved
  <2> SUFFICES ASSUME job[w].from \in Targets PROVE job[w].from \notin saved
    OBVIOUS
  <2>1. job[w].from # w
    BY PathsApart
  <2>2. job[w].group # << >> /\ job[w].from = job[w].group[1]
    BY <1>3, <2>1 DEF Shaped
  <2>3. 1 \in DOMAIN job[w].group
    BY <1>3, <2>2
  <2> QED BY <1>3, <2>2, <2>3 DEF Waiting
<1>5. /\ JobKept(w)' /\ job' \in [Workers -> Jobs \cup {NoJob}]
      /\ \A v \in Workers : v # w => job'[v] = job[v]
  BY <1>1, JobEnds
<1> QED BY <1>1, <1>3, <1>4, <1>5, WritesDownload

\* A target that was downloaded to is whole; the others follow from the cache.
LEMMA PublishGroupKeeps == ASSUME CacheInv, NEW w \in Workers, PublishGroup(w) PROVE CacheInv'
<1>0. PICK t : t = Current(w)
  OBVIOUS
<1>1. /\ job[w].pc = "publish" /\ job[w].at <= Len(job[w].group)
      /\ UNCHANGED <<content, linked>>
  BY DEF PublishGroup, At, Kept
<1>2. job[w].pc # "idle" /\ job[w].pc \notin {"idle", "transfer", "touch"}
  BY <1>1
<1>3. /\ job[w].publishing = TRUE /\ Shaped(w, job[w]) /\ NotLinkedYet(w, job[w])
      /\ SourceWhole(job[w]) /\ job[w] \in Jobs /\ job[w].cached \in BOOLEAN
      /\ job[w].at \in Nat /\ job[w].at # 0 /\ job[w].group \in Seq(Targets)
  BY <1>1, <1>2, BatchIs DEF Shaped
<1>4. job[w].at \in DOMAIN job[w].group
  BY <1>1, <1>3
<1>5. t \in Mine(w) /\ t \in Targets /\ t \in Paths
  BY <1>0, <1>2, <1>3, <1>4, CurrentIs
<1>6. CASE job[w].from = t /\ Saved(w, t) /\ NextTarget(w)
  <2>1. /\ saved' = saved \cup {t} /\ saved' \subseteq Targets /\ excused' \subseteq Targets
        /\ excused \subseteq excused' \cup {t} /\ Honest(t)'
    <3>1. job[w].raced = FALSE => content'[t] = "whole"
      BY <1>1, <1>3, <1>6 DEF SourceWhole
    <3> QED BY <1>2, <1>5, <1>6, <3>1, SavedKept
  <2>2. /\ JobKept(w)' /\ job' \in [Workers -> Jobs \cup {NoJob}]
        /\ \A v \in Workers : v # w => job'[v] = job[v]
    BY <1>0, <1>1, <1>2, <1>3, <1>6, <2>1, NextKept
  <2>3. CacheTypes'
    BY <1>1, <2>1, <2>2 DEF CacheInv, CacheTypes
  <2>4. Touches(w, {t})
    BY <1>1, <2>1, <2>2 DEF Touches
  <2> QED BY <1>5, <2>1, <2>2, <2>3, <2>4, OthersKept
<1>7. CASE /\ Goes(w, IF ~job[w].cached THEN "copy"
                      ELSE IF job[w].at = 1 THEN "store data" ELSE "check")
           /\ UNCHANGED <<saved, excused>>
  <2>1. PICK p \in {"copy", "store data", "check"} :
            /\ Goes(w, p) /\ (p # "copy" => job[w].cached = TRUE)
            /\ p = "store data" => job[w].at = 1
    BY <1>3, <1>7
  <2>2. p = "store data" => content'[w] = "whole" /\ linked'[w] = {}
    BY <1>1, <1>3, <2>1 DEF NotLinkedYet
  <2>3. /\ JobKept(w)' /\ job' \in [Workers -> Jobs \cup {NoJob}]
        /\ \A v \in Workers : v # w => job'[v] = job[v]
    BY <1>1, <1>2, <1>3, <1>4, <1>7, <2>1, <2>2, GoesKept
  <2> QED BY <1>1, <1>7, <2>3, NoFile
<1> QED BY <1>0, <1>6, <1>7 DEF PublishGroup

\* A copy of the download is as the download is.
LEMMA CopySourceKeeps == ASSUME CacheInv, NEW w \in Workers, CopySource(w) PROVE CacheInv'
<1>0. PICK t : t = Current(w)
  OBVIOUS
<1>1. job[w].pc = "copy" /\ NextTarget(w)
  BY DEF CopySource, At
<1>2. job[w].pc # "idle" /\ job[w].pc \notin {"idle", "transfer"}
  BY <1>1
<1>3. /\ job[w].publishing = TRUE /\ Shaped(w, job[w]) /\ SourceWhole(job[w]) /\ job[w] \in Jobs
      /\ job[w].at \in DOMAIN job[w].group
  BY <1>1, <1>2, BatchIs DEF Shaped
<1>4. t \in Mine(w) /\ t \in Paths /\ job[w].from \in {w} \cup Mine(w) /\ job[w].from \in Paths
  BY <1>0, <1>2, <1>3, CurrentIs, FromIs
<1>5. CASE Published(t, job[w].from) /\ Saved(w, t)
  <2>1. saved' = saved \cup {t}
    BY <1>5 DEF Saved
  <2>2. content'[job[w].from] = content[job[w].from]
    <3>1. CacheTypes
      BY DEF CacheInv
    <3> QED BY <1>4, <1>5, <3>1, PublishedIs
  <2>3. /\ JobKept(w)' /\ job' \in [Workers -> Jobs \cup {NoJob}]
        /\ \A v \in Workers : v # w => job'[v] = job[v]
    BY <1>0, <1>1, <1>3, <2>1, <2>2, NextKept
  <2>4. job[w].raced = FALSE => content[job[w].from] = "whole"
    BY <1>3 DEF SourceWhole
  <2> QED BY <1>2, <1>4, <1>5, <2>3, <2>4, WritesTarget
<1>6. CASE UNCHANGED <<content, linked, saved, excused>>
  <2>1. /\ JobKept(w)' /\ job' \in [Workers -> Jobs \cup {NoJob}]
        /\ \A v \in Workers : v # w => job'[v] = job[v]
    BY <1>1, <1>3, <1>6, NextKept
  <2> QED BY <1>1, <1>6, <2>1, NoFile
<1> QED BY <1>0, <1>5, <1>6 DEF CopySource

\* The temporary file goes with the batch.
LEMMA EndGroupKeeps == ASSUME CacheInv, NEW w \in Workers, EndGroup(w) PROVE CacheInv'
<1>1. /\ job[w].pc = "publish" /\ Renewed(w, "none") /\ job' = [job EXCEPT ![w] = NoJob]
      /\ UNCHANGED <<saved, excused>>
  BY DEF EndGroup, At, Kept
<1>2. /\ JobKept(w)' /\ job' \in [Workers -> Jobs \cup {NoJob}]
      /\ \A v \in Workers : v # w => job'[v] = job[v]
  BY <1>1, JobEnds
<1>3. w \in Paths /\ w # "data" /\ CacheTypes /\ {w} \cap Targets = {}
  BY PathsApart DEF CacheInv
<1>4. /\ content' \in [Paths -> {"none", "part", "whole", "edited"}]
      /\ linked' \in [Paths -> SUBSET Paths]
      /\ \A y, z \in Paths : z \in linked'[y] => y \in linked'[z]
      /\ \A y \in Paths : y # w => content'[y] = content[y]
      /\ \A y \in Paths : linked[y] = {} => linked'[y] = {}
  BY <1>1, <1>3, RenewedIs
<1>5. CacheTypes'
  BY <1>1, <1>2, <1>3, <1>4 DEF CacheTypes
<1>6. Touches(w, {w})
  BY <1>1, <1>2, <1>3, <1>4, PathsApart DEF Touches
<1> QED BY <1>2, <1>3, <1>5, <1>6, OthersKept

\* A killed download to a target is excused there.
LEMMA HaltWorkerKeeps == ASSUME CacheInv, NEW w \in Workers, HaltWorker(w) PROVE CacheInv'
<1>1. /\ job[w].pc # "idle" /\ Renewed(w, "none") /\ job' = [job EXCEPT ![w] = NoJob]
      /\ excused' = IF job[w].pc = "transfer" THEN excused \cup ({job[w].from} \cap Targets) ELSE excused
      /\ saved' = saved
  BY DEF HaltWorker, At
<1>2. /\ JobKept(w)' /\ job' \in [Workers -> Jobs \cup {NoJob}]
      /\ \A v \in Workers : v # w => job'[v] = job[v]
  BY <1>1, JobEnds
<1>3. w \in Paths /\ w # "data" /\ CacheTypes /\ {w} \cap Targets = {}
  BY PathsApart DEF CacheInv
<1>4. /\ content' \in [Paths -> {"none", "part", "whole", "edited"}]
      /\ linked' \in [Paths -> SUBSET Paths]
      /\ \A y, z \in Paths : z \in linked'[y] => y \in linked'[z]
      /\ \A y \in Paths : y # w => content'[y] = content[y]
      /\ \A y \in Paths : linked[y] = {} => linked'[y] = {}
  BY <1>1, <1>3, RenewedIs
<1>5. CacheTypes'
  BY <1>1, <1>2, <1>3, <1>4 DEF CacheTypes
<1>6. PICK X : X = {w} \cup (IF job[w].pc = "transfer" THEN {job[w].from} ELSE {})
  OBVIOUS
<1>7. X \subseteq {w, "data"} \cup Mine(w)
  <2>1. job[w] \in Jobs
    BY <1>1, JobIs
  <2> QED BY <1>6, <2>1, FromIs
<1>8. Touches(w, X)
  <2>1. w \in X /\ excused \subseteq excused' /\ "data" \in Paths
    BY <1>1, <1>6, PathsApart
  <2>2. content'["data"] = content["data"]
    BY <1>3, <1>4, <2>1
  <2> QED BY <1>1, <1>2, <1>4, <1>6, <2>1, <2>2, PathsApart DEF Touches
<1>9. \A t \in X \cap Targets : Honest(t)'
  <2> SUFFICES ASSUME NEW t \in X, t \in Targets PROVE t \in excused'
    BY DEF Honest
  <2>1. t # w
    BY PathsApart
  <2> QED BY <1>1, <1>6, <2>1
<1> QED BY <1>2, <1>5, <1>7, <1>8, <1>9, OthersKept

\* An edit is excused at every target that shows it.
LEMMA EditFileKeeps == ASSUME CacheInv, NEW f \in Targets, EditFile(f) PROVE CacheInv'
<1>1. PICK inode : inode = {f} \cup linked[f]
  OBVIOUS
<1>2. /\ content' = [x \in Paths |-> IF x \in inode THEN "edited" ELSE content[x]]
      /\ excused' = excused \cup (inode \cap Targets)
      /\ job' = [w \in Workers |-> IF job[w].pc = "idle" THEN job[w] ELSE [job[w] EXCEPT !.raced = TRUE]]
      /\ UNCHANGED <<linked, saved>>
  BY <1>1 DEF EditFile, At
<1>3. CacheTypes
  BY DEF CacheInv
<1>4. /\ content' \in [Paths -> {"none", "part", "whole", "edited"}]
      /\ \A x \in Paths : content'[x] = content[x] \/ content'[x] = "edited"
      /\ \A x \in Paths : x \notin inode => content'[x] = content[x]
  BY <1>2, <1>3 DEF CacheTypes
<1>5. ASSUME NEW w \in Workers, job[w].pc # "idle"
      PROVE  /\ job'[w] \in Jobs /\ job'[w].raced = TRUE
             /\ job'[w].pc = job[w].pc /\ job'[w].todo = job[w].todo /\ job'[w].group = job[w].group
             /\ job'[w].at = job[w].at /\ job'[w].cached = job[w].cached
             /\ job'[w].publishing = job[w].publishing /\ job'[w].from = job[w].from
  <2>1. job[w] \in Jobs
    BY <1>5, JobIs
  <2>2. job'[w] = [job[w] EXCEPT !.raced = TRUE]
    BY <1>2, <1>5
  <2> QED BY <2>1, <2>2 DEF Jobs
<1>6. ASSUME NEW w \in Workers, job[w].pc = "idle" PROVE job'[w] = job[w] /\ job[w] = NoJob
  <2>1. job[w] = NoJob
    BY <1>6, JobIs
  <2> QED BY <1>2, <1>6, <2>1
<1>7. CacheTypes'
  <2>1. job' = [w \in Workers |-> job'[w]]
    BY <1>2
  <2>2. \A w \in Workers : job'[w] \in Jobs \cup {NoJob}
    BY <1>5, <1>6
  <2>3. job' \in [Workers -> Jobs \cup {NoJob}]
    BY <2>1, <2>2
  <2> QED BY <1>2, <1>3, <1>4, <2>3 DEF CacheTypes
<1>8. ASSUME NEW w \in Workers PROVE JobKept(w)'
  <2>1. CASE job[w].pc = "idle"
    BY <1>6, <2>1 DEF JobKept
  <2>2. CASE job[w].pc # "idle"
    <3>1. /\ job[w] \in Jobs /\ Shaped(w, job[w]) /\ Waiting(job[w]) /\ SourceWhole(job[w])
          /\ NotLinkedYet(w, job[w])
      BY <2>2, BatchIs
    <3>2. Shaped(w, job[w])'
      BY <1>5, <2>2, <3>1 DEF Shaped
    <3>3. Waiting(job[w])'
      <4>1. PICK k : k = job'[w]
        OBVIOUS
      <4>2. /\ k.pc = job[w].pc /\ k.todo = job[w].todo /\ k.group = job[w].group
            /\ k.publishing = job[w].publishing /\ saved' = saved
        BY <1>2, <1>5, <2>2, <4>1
      <4>3. Waiting(k)
        BY <3>1, <4>2 DEF Waiting
      <4>4. Waiting(k)'
        BY <4>2, <4>3 DEF Waiting
      <4> QED BY <4>1, <4>4 DEF Waiting
    <3>4. SourceWhole(job[w])'
      <4>1. job[w].from \in Paths
        BY <3>1, FromIs
      <4> QED BY <1>4, <1>5, <2>2, <3>1, <4>1 DEF SourceWhole
    <3>5. NotLinkedYet(w, job[w])'
      <4>1. w \in Paths /\ f \in Paths /\ w # f
        BY PathsApart
      <4>2. linked[w] = {} => w \notin inode
        BY <1>1, <1>3, <4>1 DEF CacheTypes
      <4> QED BY <1>2, <1>4, <1>5, <2>2, <3>1, <4>1, <4>2 DEF NotLinkedYet
    <3>6. DataSeen(job[w])'
      BY <1>5, <2>2 DEF DataSeen
    <3> QED BY <3>2, <3>3, <3>4, <3>5, <3>6 DEF JobKept
  <2> QED BY <2>1, <2>2
<1>9. ASSUME NEW t \in Targets PROVE Honest(t)'
  <2>1. CASE t \in inode
    BY <1>2, <2>1 DEF Honest
  <2>2. CASE t \notin inode
    <3>1. Honest(t) /\ content'[t] = content[t]
      BY <1>4, <2>2, PathsApart DEF CacheInv
    <3>2. ASSUME NEW v \in Workers, job[v].pc = "transfer", job[v].from = t
          PROVE  job'[v].pc = "transfer" /\ job'[v].from = t
      BY <1>5, <3>2
    <3> QED BY <1>2, <3>1, <3>2 DEF Honest
  <2> QED BY <2>1, <2>2
<1> QED BY <1>7, <1>8, <1>9 DEF CacheInv

\* A file that is deleted between the runs is not reported any more.
LEMMA DeleteFileKeeps == ASSUME CacheInv, NEW f \in Targets, DeleteFile(f) PROVE CacheInv'
<1>1. /\ \A w \in Workers : job[w].pc = "idle"
      /\ Renewed(f, "none") /\ saved' = saved \ {f} /\ UNCHANGED <<job, excused>>
  BY DEF DeleteFile, At
<1>2. CacheTypes /\ f \in Paths
  BY PathsApart DEF CacheInv
<1>3. /\ content' \in [Paths -> {"none", "part", "whole", "edited"}]
      /\ linked' \in [Paths -> SUBSET Paths]
      /\ \A y, z \in Paths : z \in linked'[y] => y \in linked'[z]
      /\ content'[f] = "none"
      /\ \A y \in Paths : y # f => content'[y] = content[y]
  BY <1>1, <1>2, RenewedIs
<1>4. CacheTypes'
  BY <1>1, <1>2, <1>3 DEF CacheTypes
<1>5. ASSUME NEW w \in Workers PROVE JobKept(w)'
  BY <1>1, JobIs DEF JobKept
<1>6. ASSUME NEW t \in Targets PROVE Honest(t)'
  <2>1. Honest(t) /\ t \in Paths
    BY PathsApart DEF CacheInv
  <2> QED BY <1>1, <1>3, <2>1 DEF Honest
<1> QED BY <1>4, <1>5, <1>6 DEF CacheInv

\* What changes no file and no batch changes nothing here.
LEMMA CacheSame ==
    ASSUME CacheInv, UNCHANGED <<content, linked, job, saved, excused>> PROVE CacheInv'
<1>1. CacheTypes'
  BY DEF CacheInv, CacheTypes
<1>2. ASSUME NEW w \in Workers PROVE JobKept(w)'
  <2>1. JobKept(w) /\ job'[w] = job[w]
    BY DEF CacheInv
  <2>2. /\ Shaped(w, job[w])' = Shaped(w, job[w]) /\ Waiting(job[w])' = Waiting(job[w])
        /\ SourceWhole(job[w])' = SourceWhole(job[w]) /\ DataSeen(job[w])' = DataSeen(job[w])
        /\ NotLinkedYet(w, job[w])' = NotLinkedYet(w, job[w])
    BY DEF Shaped, Waiting, SourceWhole, NotLinkedYet, DataSeen
  <2> QED BY <2>1, <2>2 DEF JobKept
<1>3. ASSUME NEW t \in Targets PROVE Honest(t)'
  BY DEF CacheInv, Honest
<1> QED BY <1>1, <1>2, <1>3 DEF CacheInv

\* Before the first batch there are no files.
LEMMA CacheInitially == CacheInit => CacheInv
<1> SUFFICES ASSUME CacheInit PROVE CacheInv
  OBVIOUS
<1>1. CacheTypes
  BY DEF CacheInit, CacheTypes
<1>2. \A w \in Workers : JobKept(w)
  BY DEF CacheInit, JobKept
<1>3. \A t \in Targets : Honest(t)
  BY PathsApart DEF CacheInit, Honest
<1> QED BY <1>1, <1>2, <1>3 DEF CacheInv

\* Every step keeps the invariant.
LEMMA CacheStepKeeps == CacheInv /\ [CacheNext]_cacheVars => CacheInv'
<1> SUFFICES ASSUME CacheInv, [CacheNext]_cacheVars PROVE CacheInv'
  OBVIOUS
<1>1. ASSUME NEW w \in Workers, CacheStep(w) PROVE CacheInv'
  BY <1>1, KeepExistingKeeps, RemoveExistingKeeps, PlanTargetKeeps, BeginDownloadKeeps, EndPlanKeeps,
     PruneKeeps, RemoveMetadataKeeps, RemoveDataKeeps, CheckEntryKeeps, RestoreTargetKeeps,
     TouchEntryKeeps, StoreDataKeeps, StoreMetadataKeeps, StoreTargetKeeps, TransferredKeeps,
     TransferFailsKeeps, PublishGroupKeeps, CopySourceKeeps, EndGroupKeeps DEF CacheStep
<1>2. ASSUME NEW w \in Workers, HaltWorker(w) PROVE CacheInv'
  BY <1>2, HaltWorkerKeeps
<1>3. ASSUME NEW w \in Workers, NEW overwrite \in BOOLEAN, NEW b \in Batches[w],
             StartBatch(w, b, overwrite)
      PROVE  CacheInv'
  BY <1>3, StartBatchKeeps
<1>4. ASSUME NEW t \in Targets, EditFile(t) \/ DeleteFile(t) PROVE CacheInv'
  BY <1>4, EditFileKeeps, DeleteFileKeeps
<1>5. CASE AgeEntry
  BY <1>5, CacheSame DEF AgeEntry
<1>6. CASE UNCHANGED cacheVars
  BY <1>6, CacheSame DEF cacheVars
<1> QED BY <1>1, <1>2, <1>3, <1>4, <1>5, <1>6 DEF CacheNext

\* A target that is reported as saved holds the whole file, for any number of
\* processes, targets and batches, whatever they restore, store, prune and fail
\* at, and whatever is edited (media_cache.go:105-130, media_download.go:250-284).
THEOREM SavedFilesWhole == CacheSpec => []SavedIsWhole
<1>1. CacheInv => SavedIsWhole
  BY DEF CacheInv, CacheTypes, Honest, SavedIsWhole
<1> QED BY CacheInitially, CacheStepKeeps, <1>1, PTL DEF CacheSpec

(***************************************************************************)
(* AccountSync: a directory holds the archives of one account, and an      *)
(* index that says complete is                                             *)
(***************************************************************************)

Syncs == [pc : {"save", "index", "next"}, todo : SUBSET Chats, failed : BOOLEAN,
          ended : BOOLEAN, doc : Documents]

\* The values of the variables.
AccountTypes ==
    /\ login \in Accounts /\ posted \in [Chats -> 0..MaxPosts]
    /\ chat \in [Chats -> Archives] /\ account \in Documents /\ index \in Documents
    /\ sync = NoSync \/ sync \in Syncs

\* What a row that says complete promises of its held.
RowHolds(held, doc, c) ==
    /\ held.backfill = "complete" /\ held.tail = 0
    /\ held.last >= IF c \in doc.resumed THEN held.top ELSE doc.listed[c]

\* A chat that a run has still to do has its row pending; what it has done is
\* covered, or the run has failed.
RowsHonest ==
    \A c \in Chats :
        /\ sync.doc.listed[c] <= posted[c]
        /\ c \in sync.todo => sync.doc.rows[c] = "pending" /\ c \notin sync.doc.resumed
        /\ sync.doc.rows[c] = "complete" => RowHolds(chat[c], sync.doc, c)
        /\ sync.doc.rows[c] \in {"pending", "error"} => c \in sync.todo \/ sync.failed = TRUE

\* The documents of a run: its account is the one logged in, and only its last
\* version says complete.
SyncInv ==
    sync \in Syncs =>
        /\ RowsHonest
        /\ sync.doc.account = login
        /\ sync.pc = "save" => account.account \in {Nobody, login}
        /\ sync.pc \in {"index", "next"} => account.account = login
        /\ sync.pc = "next" => sync.ended = FALSE /\ index.complete = FALSE
        /\ sync.doc.complete = TRUE => sync.ended = TRUE /\ sync.failed = FALSE /\ sync.todo = {}

\* Only an archive that an older version completed has a record after its
\* commit.
TailsComplete == \A c \in Chats : chat[c].tail # 0 => chat[c].backfill = "complete"

AccountInv ==
    /\ AccountTypes /\ SyncInv /\ TailsComplete /\ AccountsNotMixed
    /\ index.complete = TRUE => \A c \in Chats : index.rows[c] # "absent" => RowHolds(chat[c], index, c)

\* An empty archive is well formed.
LEMMA NewArchiveType ==
    /\ NewArchive \in Archives /\ NoDocument \in Documents
    /\ 0 \in 0..MaxPosts /\ NoSync \notin Syncs
  <1>1. 0 \in 0..MaxPosts
    BY AccountConstants
  <1> QED BY <1>1 DEF NewArchive, Archives, NoDocument, Documents, Statuses, NoSync, Syncs

\* What a synchronised chat has.
LEMMA SyncedType ==
    ASSUME NEW a \in Archives, a.tail # 0 => a.backfill = "complete", NEW n \in 0..MaxPosts
    PROVE  /\ SyncedChat(a, n) \in Archives
           /\ SyncedChat(a, n).backfill = "complete" /\ SyncedChat(a, n).tail = 0
           /\ SyncedChat(a, n).last = IF a.backfill = "active" THEN SyncedChat(a, n).top ELSE n
           /\ SyncedChat(a, n).owners = a.owners
<1>1. /\ a.backfill \in {"none", "active", "complete"} /\ a.top \in 0..MaxPosts
      /\ a.tail \in 0..1 /\ 0 \in 0..1
  BY DEF Archives
<1>2. CASE a.backfill = "none"
  BY <1>1, <1>2 DEF SyncedChat, Archives
<1>3. CASE a.backfill = "active"
  BY <1>1, <1>3 DEF SyncedChat, Archives
<1>4. CASE a.backfill = "complete"
  <2>1. Recovered(a) \in Archives /\ Recovered(a).tail = 0
    BY <1>1 DEF Recovered, Archives
  <2> QED BY <1>1, <1>4, <2>1 DEF SyncedChat, Archives, Recovered
<1> QED BY <1>1, <1>2, <1>3, <1>4

\* What an error leaves.
LEMMA FailedType ==
    ASSUME NEW a \in Archives, a.tail # 0 => a.backfill = "complete", NEW n \in 0..MaxPosts,
           NEW f \in FailedChat(a, n)
    PROVE  /\ f \in Archives /\ f.owners = a.owners
           /\ f.tail # 0 => f.backfill = "complete"
<1>1. /\ a.backfill \in {"none", "active", "complete"} /\ a.top \in 0..MaxPosts
      /\ a.tail \in 0..1 /\ 0 \in 0..1
  BY DEF Archives
<1>2. CASE f = a \/ f = SyncedChat(a, n)
  BY <1>2, SyncedType
<1>3. CASE a.backfill = "none" /\ f = [a EXCEPT !.backfill = "active", !.top = n]
  BY <1>1, <1>3 DEF Archives
<1>4. CASE a.backfill = "complete" /\ f = Recovered(a)
  BY <1>1, <1>4 DEF Recovered, Archives
<1> QED BY <1>1, <1>2, <1>3, <1>4 DEF FailedChat

\* The invariant of account sync holds at first.
LEMMA AccountInitially == AccountInit => AccountInv
<1> SUFFICES ASSUME AccountInit PROVE AccountInv
  OBVIOUS
<1> DEFINE Old(tail) == [NewArchive EXCEPT !.backfill = "complete", !.top = 1, !.last = 1,
                             !.tail = tail, !.marker = TRUE, !.owners = {login}]
           Bound == [NoDocument EXCEPT !.account = login]
<1>1. login \in Accounts /\ posted = [c \in Chats |-> 1] /\ sync = NoSync /\ index = account
  BY DEF AccountInit
<1>2. CASE chat = [c \in Chats |-> NewArchive] /\ account = NoDocument
  <2>1. \A c \in Chats : chat[c].tail = 0 /\ chat[c].owners = {}
    BY <1>2 DEF NewArchive
  <2>2. index.complete = FALSE
    BY <1>1, <1>2 DEF NoDocument
  <2>3. posted \in [Chats -> 0..MaxPosts]
    BY <1>1, AccountConstants
  <2> QED BY <1>1, <1>2, <2>1, <2>2, <2>3, NewArchiveType
          DEF AccountInv, AccountTypes, SyncInv, TailsComplete, AccountsNotMixed
<1>3. ASSUME NEW tail \in 0..1, chat = [c \in Chats |-> Old(tail)], account = Bound
      PROVE  AccountInv
  <2>1. 1 \in 0..MaxPosts
    BY AccountConstants
  <2>2. /\ Old(tail) \in Archives /\ Old(tail).backfill = "complete"
        /\ Old(tail).owners = {login}
    BY <1>1, <2>1, NewArchiveType DEF NewArchive, Archives
  <2>3. Bound \in Documents /\ Bound.account = login /\ Bound.complete = FALSE
    BY <1>1, NewArchiveType DEF NoDocument, Documents
  <2>4. posted \in [Chats -> 0..MaxPosts]
    BY <1>1, <2>1
  <2> HIDE DEF Old, Bound
  <2>5. \A c \in Chats : chat[c] = Old(tail)
    BY <1>3
  <2> QED BY <1>1, <1>3, <2>2, <2>3, <2>4, <2>5, NewArchiveType
          DEF AccountInv, AccountTypes, SyncInv, TailsComplete, AccountsNotMixed
<1> QED BY <1>2, <1>3 DEF AccountInit

(***************************************************************************)
(* Every step keeps the invariant                                          *)
(***************************************************************************)

\* A run that is over promises nothing.
LEMMA SyncEnds ==
    ASSUME AccountInv, sync' = NoSync, UNCHANGED <<posted, chat, account, index>>, login' \in Accounts
    PROVE  AccountInv'
<1>1. AccountTypes' /\ SyncInv'
  BY NewArchiveType DEF AccountInv, AccountTypes, SyncInv
<1>2. TailsComplete' /\ AccountsNotMixed'
  BY DEF AccountInv, TailsComplete, AccountsNotMixed
<1> QED BY <1>1, <1>2 DEF AccountInv, RowHolds

\* A run that starts checks the account of the archives it finds.
LEMMA StartSyncStep ==
    ASSUME AccountInv, NEW e \in Accounts \cup {Nobody}, NEW dialogs \in SUBSET Chats,
           StartSync(e, dialogs)
    PROVE  AccountInv'
<1> DEFINE doc == [NoDocument EXCEPT !.account = login,
                      !.rows = [c \in Chats |-> IF c \in dialogs THEN "pending" ELSE "absent"],
                      !.listed = posted]
<1>1. /\ doc \in Documents /\ doc.account = login /\ doc.complete = FALSE /\ doc.listed = posted
      /\ doc.resumed = {}
      /\ \A c \in Chats : doc.rows[c] = IF c \in dialogs THEN "pending" ELSE "absent"
  BY NewArchiveType DEF NoDocument, Documents, Statuses, AccountInv, AccountTypes
<1>2. /\ sync' = [pc |-> "save", todo |-> dialogs, failed |-> FALSE, ended |-> FALSE, doc |-> doc]
      /\ UNCHANGED <<login, posted, chat, account, index>>
  BY DEF StartSync
<1>3. account.account \in {Nobody, login}
  BY DEF StartSync, Admits
<1> HIDE DEF doc
<1>4. sync' \in Syncs
  BY <1>1, <1>2 DEF Syncs
<1>5. AccountTypes'
  BY <1>2, <1>4 DEF AccountInv, AccountTypes
<1>6. RowsHonest'
  <2> SUFFICES ASSUME NEW c \in Chats
               PROVE  /\ doc.listed[c] <= posted[c]
                      /\ c \in dialogs => doc.rows[c] = "pending" /\ c \notin doc.resumed
                      /\ doc.rows[c] = "complete" => FALSE
                      /\ doc.rows[c] \in {"pending", "error"} => c \in dialogs
    BY <1>2 DEF RowsHonest
  <2>1. posted[c] \in Nat
    BY DEF AccountInv, AccountTypes
  <2> QED BY <1>1, <2>1
<1>7. SyncInv'
  BY <1>1, <1>2, <1>3, <1>6 DEF SyncInv
<1>8. TailsComplete' /\ AccountsNotMixed'
  BY <1>2 DEF AccountInv, TailsComplete, AccountsNotMixed
<1> QED BY <1>2, <1>5, <1>7, <1>8 DEF AccountInv, RowHolds

\* account.json is replaced.
LEMMA SaveAccountStep == ASSUME AccountInv, SaveAccount PROVE AccountInv'
<1>1. sync \in Syncs /\ sync.pc = "save" /\ sync.doc \in Documents
  BY DEF AccountInv, AccountTypes, SaveAccount, NoSync, Syncs
<1>2. /\ account' = sync.doc /\ UNCHANGED <<login, posted, chat, index>>
      /\ sync' = [sync EXCEPT !.pc = "index"]
  BY DEF SaveAccount
<1>3. /\ sync' \in Syncs /\ sync'.pc = "index" /\ sync'.todo = sync.todo /\ sync'.doc = sync.doc
      /\ sync'.failed = sync.failed /\ sync'.ended = sync.ended
  BY <1>1, <1>2 DEF Syncs
<1>4. AccountTypes'
  BY <1>1, <1>2, <1>3 DEF AccountInv, AccountTypes
<1>5. /\ RowsHonest /\ sync.doc.account = login /\ account.account \in {Nobody, login}
      /\ sync.doc.complete = TRUE => sync.ended = TRUE /\ sync.failed = FALSE /\ sync.todo = {}
  BY <1>1 DEF AccountInv, SyncInv
<1>6. SyncInv'
  BY <1>2, <1>3, <1>5 DEF SyncInv, RowsHonest, RowHolds
<1>7. AccountsNotMixed'
  <2> SUFFICES ASSUME NEW c \in Chats, chat[c].owners # {} PROVE chat[c].owners = {login}
    BY <1>2, <1>5 DEF AccountsNotMixed
  <2>1. chat[c].owners = {account.account} /\ chat[c].owners \subseteq Accounts
    BY DEF AccountInv, AccountsNotMixed, AccountTypes, Archives
  <2> QED BY <1>5, <2>1, AccountConstants
<1>8. TailsComplete'
  BY <1>2 DEF AccountInv, TailsComplete
<1> QED BY <1>2, <1>4, <1>6, <1>7, <1>8 DEF AccountInv, RowHolds

\* The index is replaced; what it calls complete is covered.
LEMMA SaveIndexStep == ASSUME AccountInv, SaveIndex PROVE AccountInv'
<1>1. sync \in Syncs /\ sync.pc = "index" /\ sync.doc \in Documents
  BY DEF AccountInv, AccountTypes, SaveIndex, NoSync, Syncs
<1>2. index' = sync.doc /\ UNCHANGED <<login, posted, chat, account>>
  BY DEF SaveIndex
<1>3. /\ RowsHonest /\ sync.doc.account = login /\ account.account = login
      /\ sync.doc.complete = TRUE => sync.ended = TRUE /\ sync.failed = FALSE /\ sync.todo = {}
  BY <1>1 DEF AccountInv, SyncInv
<1>4. index'.complete = TRUE => \A c \in Chats : index'.rows[c] # "absent" => RowHolds(chat'[c], index', c)
  <2> SUFFICES ASSUME sync.doc.complete = TRUE, NEW c \in Chats, sync.doc.rows[c] # "absent"
               PROVE  RowHolds(chat[c], sync.doc, c)
    BY <1>2 DEF RowHolds
  <2>1. sync.doc.rows[c] \in {"pending", "complete", "error"}
    BY <1>1 DEF Documents, Statuses
  <2>2. sync.doc.rows[c] = "complete"
    BY <1>3, <2>1 DEF RowsHonest
  <2> QED BY <1>3, <2>2 DEF RowsHonest
<1>5. AccountTypes' /\ SyncInv'
  <2>1. CASE sync' = NoSync
    BY <1>1, <1>2, <2>1, NewArchiveType DEF AccountInv, AccountTypes, SyncInv
  <2>2. CASE sync' = [sync EXCEPT !.pc = "next"] /\ sync.ended = FALSE
    <3>1. /\ sync' \in Syncs /\ sync'.pc = "next" /\ sync'.todo = sync.todo
          /\ sync'.doc = sync.doc /\ sync'.failed = sync.failed /\ sync'.ended = sync.ended
      BY <1>1, <2>2 DEF Syncs
    <3>2. sync.doc.complete = FALSE
      BY <1>1, <1>3, <2>2 DEF Documents
    <3>3. RowsHonest'
      BY <1>2, <1>3, <3>1 DEF RowsHonest, RowHolds
    <3> QED
      BY <1>1, <1>2, <1>3, <2>2, <3>1, <3>2, <3>3 DEF AccountInv, AccountTypes, SyncInv
  <2> QED BY <1>1, <2>1, <2>2 DEF SaveIndex, Syncs
<1>6. TailsComplete' /\ AccountsNotMixed'
  BY <1>2 DEF AccountInv, TailsComplete, AccountsNotMixed
<1> QED BY <1>4, <1>5, <1>6 DEF AccountInv

\* One chat of a run: its archive is synchronised, or its row says error.
LEMMA SyncChatStep == ASSUME AccountInv, NEW c \in Chats, SyncChat(c) PROVE AccountInv'
<1>1. /\ sync \in Syncs /\ sync.pc = "next" /\ c \in sync.todo
      /\ UNCHANGED <<login, posted, account, index>>
  BY DEF AccountInv, AccountTypes, SyncChat, NoSync, Syncs
<1>2. /\ RowsHonest /\ sync.doc.account = login /\ account.account = login
      /\ sync.ended = FALSE /\ index.complete = FALSE /\ sync.doc.complete = FALSE
      /\ sync.doc \in Documents
  BY <1>1 DEF AccountInv, SyncInv, Syncs, Documents
<1>3. /\ chat \in [Chats -> Archives] /\ chat[c] \in Archives
      /\ chat[c].tail # 0 => chat[c].backfill = "complete"
      /\ posted[c] \in 0..MaxPosts /\ login \in Accounts
      /\ chat[c].owners \cup {login} = {login}
  BY <1>2 DEF AccountInv, AccountTypes, TailsComplete, AccountsNotMixed
<1>4. PICK a \in Archives, status \in {"complete", "error"} :
          /\ chat' = [chat EXCEPT ![c] = Touched(a)] /\ Row(c, status)
          /\ a.owners = chat[c].owners
          /\ a.tail # 0 => a.backfill = "complete"
          /\ status = "complete" => a = SyncedChat(chat[c], posted[c])
  <2>1. LET s == SyncedChat(chat[c], posted[c])
        IN  s \in Archives /\ s.owners = chat[c].owners /\ s.tail = 0
    BY <1>3, SyncedType
  <2>2. \A f \in FailedChat(chat[c], posted[c]) :
            f \in Archives /\ f.owners = chat[c].owners /\ (f.tail # 0 => f.backfill = "complete")
    BY <1>3, FailedType
  <2> QED BY <2>1, <2>2 DEF SyncChat
<1> DEFINE resumed == IF chat[c].backfill = "active" THEN sync.doc.resumed \cup {c}
                      ELSE sync.doc.resumed
           failed  == sync.failed \/ status = "error"
<1>5. sync' = [sync EXCEPT !.pc = "save", !.todo = @ \ {c}, !.failed = @ \/ status = "error",
                  !.doc.rows[c] = status,
                  !.doc.resumed = IF chat[c].backfill = "active" THEN @ \cup {c} ELSE @]
  BY <1>4 DEF Row
<1>6. /\ sync' \in Syncs /\ sync'.pc = "save" /\ sync'.todo = sync.todo \ {c}
      /\ sync'.ended = sync.ended /\ sync'.failed = failed
      /\ sync'.doc = [sync.doc EXCEPT !.rows[c] = status, !.resumed = resumed]
  <2>1. /\ sync'.pc = "save" /\ sync'.todo = sync.todo \ {c}
        /\ sync'.ended = sync.ended /\ sync'.failed = failed
        /\ sync'.doc = [sync.doc EXCEPT !.rows[c] = status, !.resumed = resumed]
        /\ sync' = [pc |-> sync'.pc, todo |-> sync'.todo, failed |-> sync'.failed,
                    ended |-> sync'.ended, doc |-> sync'.doc]
    BY <1>1, <1>5 DEF Syncs
  <2>2. failed \in BOOLEAN
    BY <1>1 DEF Syncs
  <2>3. sync'.doc \in Documents
    <3>1. [sync.doc.rows EXCEPT ![c] = status] \in [Chats -> Statuses]
      BY <1>2 DEF Documents, Statuses
    <3>2. resumed \in SUBSET Chats
      BY <1>2 DEF Documents
    <3>3. sync'.doc = [sync.doc EXCEPT !.rows = [sync.doc.rows EXCEPT ![c] = status],
                           !.resumed = resumed]
      BY <1>2, <2>1 DEF Documents
    <3> HIDE DEF resumed
    <3> QED BY <1>2, <3>1, <3>2, <3>3 DEF Documents
  <2> HIDE DEF failed, resumed
  <2> QED BY <1>1, <2>1, <2>2, <2>3 DEF Syncs
<1>7. /\ sync'.doc.account = login /\ sync'.doc.complete = FALSE /\ sync'.doc.resumed = resumed
      /\ sync'.doc.listed = sync.doc.listed
      /\ \A d \in Chats : sync'.doc.rows[d] = IF d = c THEN status ELSE sync.doc.rows[d]
  BY <1>2, <1>6 DEF Documents
<1>8. /\ chat' \in [Chats -> Archives] /\ chat'[c] = [a EXCEPT !.owners = {login}]
      /\ \A d \in Chats \ {c} : chat'[d] = chat[d]
  <2>1. [a EXCEPT !.owners = {login}] \in Archives /\ Touched(a) = [a EXCEPT !.owners = {login}]
    BY <1>3, <1>4 DEF Archives, Touched
  <2> QED BY <1>3, <1>4, <2>1
<1>9. /\ chat'[c].owners = {login} /\ chat'[c].backfill = a.backfill /\ chat'[c].tail = a.tail
      /\ chat'[c].last = a.last /\ chat'[c].top = a.top
  BY <1>8 DEF Archives
<1>10. AccountTypes'
  BY <1>1, <1>6, <1>8 DEF AccountInv, AccountTypes
<1>11. TailsComplete' /\ AccountsNotMixed'
  BY <1>1, <1>2, <1>4, <1>8, <1>9 DEF AccountInv, TailsComplete, AccountsNotMixed
<1>12. RowsHonest'
  <2> SUFFICES ASSUME NEW d \in Chats
               PROVE  /\ sync'.doc.listed[d] <= posted[d]
                      /\ d \in sync'.todo =>
                             sync'.doc.rows[d] = "pending" /\ d \notin sync'.doc.resumed
                      /\ sync'.doc.rows[d] = "complete" => RowHolds(chat'[d], sync'.doc, d)
                      /\ sync'.doc.rows[d] \in {"pending", "error"} =>
                             d \in sync'.todo \/ sync'.failed = TRUE
    BY <1>1 DEF RowsHonest, RowHolds
  <2>1. CASE d # c
    <3>1. d \in resumed <=> d \in sync.doc.resumed
      BY <2>1
    <3>2. RowHolds(chat[d], sync.doc, d) => RowHolds(chat'[d], sync'.doc, d)
      BY <1>7, <1>8, <2>1, <3>1 DEF RowHolds
    <3>3. sync.failed = TRUE => failed = TRUE
      OBVIOUS
    <3> QED BY <1>2, <1>6, <1>7, <2>1, <3>1, <3>2, <3>3 DEF RowsHonest
  <2>2. CASE d = c
    <3>1. c \notin sync.doc.resumed /\ sync.doc.listed[c] <= posted[c]
      BY <1>1, <1>2 DEF RowsHonest
    <3>2. status = "error" => failed = TRUE
      OBVIOUS
    <3>3. status = "complete" => RowHolds(chat'[c], sync'.doc, c)
      <4> SUFFICES ASSUME status = "complete" PROVE RowHolds(chat'[c], sync'.doc, c)
        OBVIOUS
      <4>1. /\ a.backfill = "complete" /\ a.tail = 0
            /\ a.last = IF chat[c].backfill = "active" THEN a.top ELSE posted[c]
        BY <1>3, <1>4, SyncedType
      <4>2. c \in resumed <=> chat[c].backfill = "active"
        BY <3>1
      <4>3. a.top \in Nat /\ a.last \in Nat
        BY DEF Archives
      <4>4. a.last >= IF c \in resumed THEN a.top ELSE sync.doc.listed[c]
        BY <3>1, <4>1, <4>2, <4>3
      <4> QED BY <1>7, <1>9, <4>1, <4>4 DEF RowHolds
    <3> QED BY <1>6, <1>7, <2>2, <3>1, <3>2, <3>3
  <2> QED BY <2>1, <2>2
<1>13. SyncInv'
  BY <1>1, <1>2, <1>6, <1>7, <1>12 DEF SyncInv
<1> QED BY <1>1, <1>2, <1>10, <1>11, <1>13 DEF AccountInv

\* A cancelled run leaves what it saved.
LEMMA CancelSyncStep == ASSUME AccountInv, CancelSync PROVE AccountInv'
<1>1. /\ sync \in Syncs /\ sync.pc = "next"
      /\ sync' = [sync EXCEPT !.todo = {}, !.failed = TRUE]
      /\ UNCHANGED <<login, posted, chat, account, index>>
  BY DEF AccountInv, AccountTypes, CancelSync, NoSync, Syncs
<1>2. /\ sync' \in Syncs /\ sync'.pc = "next" /\ sync'.todo = {} /\ sync'.failed = TRUE
      /\ sync'.doc = sync.doc /\ sync'.ended = sync.ended
  BY <1>1 DEF Syncs
<1>3. /\ RowsHonest /\ sync.doc.account = login /\ account.account = login
      /\ sync.ended = FALSE /\ index.complete = FALSE /\ sync.doc.complete # TRUE
  BY <1>1 DEF AccountInv, SyncInv
<1>4. RowsHonest'
  BY <1>1, <1>2, <1>3 DEF RowsHonest, RowHolds
<1>5. SyncInv' /\ AccountTypes'
  BY <1>1, <1>2, <1>3, <1>4 DEF SyncInv, AccountInv, AccountTypes
<1>6. TailsComplete' /\ AccountsNotMixed'
  BY <1>1 DEF AccountInv, TailsComplete, AccountsNotMixed
<1> QED BY <1>1, <1>5, <1>6 DEF AccountInv, RowHolds

\* A run that ends leaves what it saved.
LEMMA FinishSyncStep == ASSUME AccountInv, FinishSync PROVE AccountInv'
<1>1. /\ sync \in Syncs /\ sync.pc = "next" /\ sync.todo = {}
      /\ sync' = [sync EXCEPT !.pc = "save", !.ended = TRUE, !.doc.complete = ~sync.failed]
      /\ UNCHANGED <<login, posted, chat, account, index>>
  BY DEF AccountInv, AccountTypes, FinishSync, NoSync, Syncs
<1>2. sync.doc \in Documents /\ sync.failed \in BOOLEAN
  BY <1>1 DEF Syncs
<1>3. /\ sync'.doc = [sync.doc EXCEPT !.complete = ~sync.failed]
      /\ sync'.pc = "save" /\ sync'.todo = {} /\ sync'.failed = sync.failed /\ sync'.ended = TRUE
      /\ sync' = [pc |-> sync'.pc, todo |-> sync'.todo, failed |-> sync'.failed,
                  ended |-> sync'.ended, doc |-> sync'.doc]
  BY <1>1 DEF Syncs
<1>4. /\ sync'.doc \in Documents /\ sync'.doc.account = sync.doc.account
      /\ sync'.doc.rows = sync.doc.rows /\ sync'.doc.listed = sync.doc.listed
      /\ sync'.doc.resumed = sync.doc.resumed
  BY <1>2, <1>3 DEF Documents
<1>5. sync'.doc.complete = TRUE => sync'.failed = FALSE
  BY <1>2, <1>3 DEF Documents
<1>6. sync' \in Syncs
  BY <1>2, <1>3, <1>4 DEF Syncs
<1>7. RowsHonest /\ sync.doc.account = login /\ account.account = login
  BY <1>1 DEF AccountInv, SyncInv
<1>8. RowsHonest'
  BY <1>1, <1>3, <1>4, <1>7 DEF RowsHonest, RowHolds
<1>9. SyncInv' /\ AccountTypes'
  BY <1>1, <1>3, <1>4, <1>5, <1>6, <1>7, <1>8 DEF SyncInv, AccountInv, AccountTypes
<1>10. TailsComplete' /\ AccountsNotMixed'
  BY <1>1 DEF AccountInv, TailsComplete, AccountsNotMixed
<1> QED BY <1>1, <1>9, <1>10 DEF AccountInv, RowHolds

\* A message posted meanwhile lies above every boundary.
LEMMA PostStep == ASSUME AccountInv, NEW c \in Chats, Post(c) PROVE AccountInv'
<1>1. UNCHANGED <<login, chat, account, index, sync>> /\ posted' = [posted EXCEPT ![c] = @ + 1]
  BY DEF Post
<1>2. posted \in [Chats -> 0..MaxPosts] /\ posted[c] + 1 \in 0..MaxPosts
  BY AccountConstants DEF Post, AccountInv, AccountTypes
<1>3. posted' \in [Chats -> 0..MaxPosts] /\ \A d \in Chats : posted'[d] >= posted[d]
  BY <1>1, <1>2
<1>4. AccountTypes'
  BY <1>1, <1>3 DEF AccountInv, AccountTypes
<1>5. SyncInv'
  <2> SUFFICES ASSUME sync \in Syncs, RowsHonest PROVE RowsHonest'
    BY <1>1 DEF AccountInv, SyncInv
  <2>1. ASSUME NEW d \in Chats PROVE sync.doc.listed[d] <= posted'[d]
    <3>1. sync.doc.listed[d] \in Nat /\ posted[d] \in Nat /\ posted'[d] \in Nat
      BY <1>2, <1>3 DEF Syncs, Documents
    <3> QED BY <1>3, <3>1 DEF RowsHonest
  <2> QED BY <1>1, <2>1 DEF RowsHonest, RowHolds
<1>6. TailsComplete' /\ AccountsNotMixed'
  BY <1>1 DEF AccountInv, TailsComplete, AccountsNotMixed
<1> QED BY <1>1, <1>4, <1>5, <1>6 DEF AccountInv, RowHolds

\* Every step keeps the invariant of account sync.
LEMMA AccountStep == AccountInv /\ [AccountNext]_accountVars => AccountInv'
<1> SUFFICES ASSUME AccountInv, [AccountNext]_accountVars PROVE AccountInv'
  OBVIOUS
<1>1. CrashSync => AccountInv'
  BY SyncEnds DEF CrashSync, AccountInv, AccountTypes
<1>2. ASSUME NEW a \in Accounts, Relogin(a) PROVE AccountInv'
  <2>1. sync = NoSync
    BY <1>2 DEF Relogin, AccountInv, AccountTypes, Syncs
  <2> QED BY <1>2, <2>1, SyncEnds DEF Relogin
<1>3. UNCHANGED accountVars => AccountInv'
  BY DEF accountVars, AccountInv, AccountTypes, SyncInv, RowsHonest, RowHolds, TailsComplete,
         AccountsNotMixed
<1> QED
  BY <1>1, <1>2, <1>3, StartSyncStep, SaveAccountStep, SaveIndexStep, SyncChatStep,
     CancelSyncStep, FinishSyncStep, PostStep
     DEF AccountNext

\* Every behaviour keeps the invariant of account sync.
LEMMA AccountInvariance == AccountSpec => []AccountInv
BY AccountInitially, AccountStep, PTL DEF AccountSpec

(***************************************************************************)
(* The theorems                                                            *)
(***************************************************************************)

\* Whoever logs in between runs and whatever is interrupted, a directory holds
\* the archives of the account its account.json names
\* (docs/collection-integrity.md:21).
THEOREM OneAccount == AccountSpec => []AccountsNotMixed
<1>1. AccountInv => AccountsNotMixed
  BY DEF AccountInv
<1> QED BY <1>1, AccountInvariance, PTL

\* An index that says complete lists archives that are complete and have what
\* was posted when the run listed the dialogs (README.md:113).
THEOREM CompleteMeansCovered == AccountSpec => []CompleteIsCovered
<1>1. AccountInv => CompleteIsCovered
  <2>1. AccountInv => index.complete \in BOOLEAN
    BY DEF AccountInv, AccountTypes, Documents
  <2> QED BY <2>1 DEF AccountInv, CompleteIsCovered, RowHolds
<1> QED BY <1>1, AccountInvariance, PTL


(***************************************************************************)
(* The transcription server                                                *)
(***************************************************************************)

\* One request at a time holds the mutex, and each statement under it knows what
\* the server of the runner is.
HolderKnows ==
    /\ \A r, s \in Requests : request[r] # "idle" /\ request[s] # "idle" => r = s
    /\ \A r \in Requests :
           /\ request[r] = "start" => cmd = NoServer
           /\ request[r] = "wait"  => cmd # NoServer
           /\ request[r] = "infer" => cmd \in verified
    /\ Unlocked => cmd = NoServer \/ cmd \in verified

ServerInv ==
    /\ ServerTypeOK /\ HolderKnows
    /\ running \subseteq {cmd}
    /\ closed => running = {} /\ Unlocked

\* A runner without a server runs none.
LEMMA NoneRuns == ASSUME ServerInv, cmd = NoServer PROVE running = {}
  <1>1. NoServer \notin Servers
    BY ServerConstants DEF NoServer, Servers
  <1> QED BY <1>1 DEF ServerInv, ServerTypeOK

\* Before the first request there is no server.
LEMMA ServerInitially == ServerInit => ServerInv
<1> SUFFICES ASSUME ServerInit PROVE ServerInv
  OBVIOUS
<1>1. ServerTypeOK
  <2>1. 0 \in 0..MaxStarts
    BY ServerConstants
  <2> QED BY <2>1 DEF ServerInit, ServerTypeOK
<1>2. running = {} /\ cmd = NoServer /\ \A r \in Requests : request[r] = "idle"
  BY DEF ServerInit
<1> QED BY <1>1, <1>2 DEF ServerInv, HolderKnows, Unlocked

\* Every step keeps the types of the server.
LEMMA ServerTypeStep == ServerTypeOK /\ [ServerNext]_serverVars => ServerTypeOK'
<1> SUFFICES ASSUME ServerTypeOK, [ServerNext]_serverVars PROVE ServerTypeOK'
  OBVIOUS
<1> DEFINE Does1 == \E r \in Requests, what \in {"idle", "start", "wait", "infer"} : Does(r, what)
<1>1. running' \subseteq Servers /\ cmd' \in Servers \cup {NoServer} /\ starts' \in 0..MaxStarts
  <2>1. ASSUME NEW r \in Requests, StartServer(r)
        PROVE  starts' \in Servers /\ starts' \in 0..MaxStarts /\ cmd' = starts'
               /\ running' = running \cup {starts'}
    BY <2>1, ServerConstants DEF StartServer, Servers, ServerTypeOK
  <2> QED
    BY <2>1 DEF ServerTypeOK, ServerNext, serverVars, BeginRequest, StartFails, StopProcess,
           ServerReady, ServerNotReady, EndRequest, ServerExits, CloseRunner
<1>2. verified' \subseteq Servers
  <2>1. ASSUME NEW r \in Requests, ServerReady(r) PROVE verified' \subseteq Servers
    BY <2>1 DEF ServerReady, ServerTypeOK
  <2> QED
    BY <2>1 DEF ServerTypeOK, ServerNext, serverVars, BeginRequest, StartServer, StartFails,
           ServerNotReady, EndRequest, ServerExits, CloseRunner
<1>3. request' \in [Requests -> {"idle", "start", "wait", "infer"}]
  <2>1. ASSUME Does1 PROVE request' \in [Requests -> {"idle", "start", "wait", "infer"}]
    BY <2>1 DEF Does, ServerTypeOK
  <2>2. Does1 \/ UNCHANGED request
    BY DEF ServerNext, serverVars, BeginRequest, StartServer, StartFails,
           ServerReady, ServerNotReady, EndRequest, ServerExits, CloseRunner
  <2> QED BY <2>1, <2>2 DEF ServerTypeOK
<1>4. closed' \in BOOLEAN
  BY DEF ServerTypeOK, ServerNext, serverVars, BeginRequest, StartServer, StartFails,
         ServerReady, ServerNotReady, EndRequest, ServerExits, CloseRunner
<1> QED BY <1>1, <1>2, <1>3, <1>4 DEF ServerTypeOK

\* Every step keeps the invariant of the server.
LEMMA ServerStep == ServerInv /\ [ServerNext]_serverVars => ServerInv'
<1> SUFFICES ASSUME ServerInv, [ServerNext]_serverVars PROVE ServerInv'
  OBVIOUS
<1>0. ServerTypeOK' /\ request \in [Requests -> {"idle", "start", "wait", "infer"}]
      /\ running \subseteq {cmd}
  BY ServerTypeStep DEF ServerInv, ServerTypeOK
<1> USE DEF ServerInv, HolderKnows, Unlocked
<1>1. ASSUME NEW r \in Requests, BeginRequest(r) PROVE ServerInv'
  BY <1>0, <1>1 DEF BeginRequest, Does
<1>2. ASSUME NEW r \in Requests, StartServer(r) PROVE ServerInv'
  <2>1. running = {} /\ starts' \in Servers /\ starts' # NoServer
    BY <1>2, NoneRuns, ServerConstants DEF StartServer, ServerTypeOK, Servers, NoServer
  <2>2. closed' => FALSE
    BY <1>2 DEF StartServer
  <2> QED BY <1>0, <1>2, <2>1, <2>2 DEF StartServer, Does
<1>3. ASSUME NEW r \in Requests, StartFails(r) PROVE ServerInv'
  BY <1>0, <1>3 DEF StartFails, Does
<1>4. ASSUME NEW r \in Requests, ServerReady(r) PROVE ServerInv'
  BY <1>0, <1>4 DEF ServerReady, Does
<1>5. ASSUME NEW r \in Requests, ServerNotReady(r) PROVE ServerInv'
  BY <1>0, <1>5 DEF ServerNotReady, StopProcess, Does
<1>6. ASSUME NEW r \in Requests, EndRequest(r) PROVE ServerInv'
  BY <1>0, <1>6 DEF EndRequest, Does
<1>7. ASSUME NEW s \in Servers, ServerExits(s) PROVE ServerInv'
  BY <1>0, <1>7 DEF ServerExits
<1>8. CASE CloseRunner
  BY <1>0, <1>8 DEF CloseRunner, StopProcess
<1>9. CASE UNCHANGED serverVars
  BY <1>0, <1>9 DEF serverVars
<1> QED BY <1>1, <1>2, <1>3, <1>4, <1>5, <1>6, <1>7, <1>8, <1>9 DEF ServerNext

\* Whatever fails, dies or is closed: the runner never loses sight of a process,
\* none outlives the session, and only a verified server gets a file
\* (whisper_server.go:786-870).
THEOREM ServerVerified == ServerSpec => []OneVerifiedServer
<1>1. ServerInv => OneVerifiedServer
  BY DEF ServerInv, HolderKnows, OneVerifiedServer
<1> QED BY <1>1, ServerInitially, ServerStep, PTL DEF ServerSpec

(***************************************************************************)
(* The pacing of calls                                                     *)
(***************************************************************************)

\* The next free slot lies behind every slot and every wait in use.
PacingInv ==
    /\ clock \in Nat /\ nextRPCAt \in Nat
    /\ rpc \in [Callers -> [stage : {"none", "slot", "sent", "waiting"}, at : Nat, attempt : Nat]]
    /\ \A c \in Callers : rpc[c].stage # "none" => nextRPCAt >= rpc[c].at + Spacing

\* Before the first call every slot is free.
LEMMA PacingInitially == PacingInit => PacingInv
BY DEF PacingInit, PacingInv, NoCall

\* The later of two times is not before either.
LEMMA LaterOfBoth ==
    ASSUME NEW a \in Nat, NEW b \in Nat
    PROVE  LaterOf(a, b) \in Nat /\ LaterOf(a, b) >= a /\ LaterOf(a, b) >= b
BY DEF LaterOf

\* A call that gets a slot gets one behind all others.
LEMMA ReserveStep ==
    ASSUME PacingInv, NEW c \in Callers, NEW attempt \in Nat, Reserve(c, attempt), UNCHANGED clock
    PROVE  /\ PacingInv'
           /\ rpc'[c].at >= nextRPCAt
           /\ \A d \in Callers \ {c} : rpc'[d] = rpc[d]
<1> DEFINE slot == LaterOf(nextRPCAt, clock)
<1>1. slot \in Nat /\ slot >= nextRPCAt /\ Spacing \in Nat
  BY LaterOfBoth, PacingConstants DEF PacingInv
<1>2. /\ rpc' = [rpc EXCEPT ![c] = [stage |-> "slot", at |-> slot, attempt |-> attempt]]
      /\ nextRPCAt' = slot + Spacing
  BY DEF Reserve
<1> HIDE DEF slot
<1>3. rpc' \in [Callers -> [stage : {"none", "slot", "sent", "waiting"}, at : Nat, attempt : Nat]]
  BY <1>1, <1>2 DEF PacingInv
<1>4. rpc'[c].at = slot /\ \A d \in Callers \ {c} : rpc'[d] = rpc[d]
  BY <1>2 DEF PacingInv
<1>5. nextRPCAt' \in Nat /\ nextRPCAt' >= nextRPCAt /\ nextRPCAt' >= slot + Spacing
  BY <1>1, <1>2 DEF PacingInv
<1>6. ASSUME NEW d \in Callers, rpc'[d].stage # "none" PROVE nextRPCAt' >= rpc'[d].at + Spacing
  <2>1. CASE d = c
    BY <1>4, <1>5, <2>1
  <2>2. CASE d # c
    <3>1. rpc[d].at \in Nat /\ nextRPCAt \in Nat /\ nextRPCAt >= rpc[d].at + Spacing
      BY <1>4, <1>6, <2>2 DEF PacingInv
    <3> QED BY <1>1, <1>4, <1>5, <2>2, <3>1
  <2> QED BY <2>1, <2>2
<1> QED BY <1>1, <1>3, <1>4, <1>5, <1>6 DEF PacingInv

\* A wait only pushes the next slot back.
LEMMA FloodStep ==
    ASSUME PacingInv, NEW wait \in Waits, NoteFloodWait(wait)
    PROVE  /\ nextRPCAt' \in Nat /\ nextRPCAt' >= nextRPCAt
           /\ clock + wait \in Nat /\ nextRPCAt' >= clock + wait + Spacing
<1>1. wait \in Nat /\ Spacing \in Nat /\ clock \in Nat /\ nextRPCAt \in Nat
  BY PacingConstants DEF PacingInv
<1>2. clock + wait + Spacing \in Nat /\ clock + wait \in Nat
  BY <1>1
<1> QED BY <1>1, <1>2, LaterOfBoth DEF NoteFloodWait

\* Every step keeps the invariant of the pacing.
LEMMA PacingStep == PacingInv /\ [PacingNext]_pacingVars => PacingInv'
<1> SUFFICES ASSUME PacingInv, [PacingNext]_pacingVars PROVE PacingInv'
  OBVIOUS
<1>0. /\ clock \in Nat /\ nextRPCAt \in Nat /\ Spacing \in Nat
      /\ rpc \in [Callers -> [stage : {"none", "slot", "sent", "waiting"}, at : Nat, attempt : Nat]]
      /\ \A c \in Callers : rpc[c].stage # "none" => nextRPCAt >= rpc[c].at + Spacing
  BY PacingConstants DEF PacingInv
<1>1. ASSUME NEW c \in Callers, BeginCall(c) PROVE PacingInv'
  BY <1>1, ReserveStep DEF BeginCall
<1>2. ASSUME NEW c \in Callers, SendCall(c) PROVE PacingInv'
  <2>1. rpc' \in [Callers -> [stage : {"none", "slot", "sent", "waiting"}, at : Nat, attempt : Nat]]
    BY <1>0, <1>2 DEF SendCall
  <2>2. \A d \in Callers : rpc'[d].at = rpc[d].at /\ (rpc'[d].stage # "none" => rpc[d].stage # "none")
    BY <1>0, <1>2 DEF SendCall
  <2> QED BY <1>0, <1>2, <2>1, <2>2 DEF SendCall, PacingInv
<1>3. ASSUME NEW c \in Callers, EndCall(c) PROVE PacingInv'
  BY <1>0, <1>3 DEF EndCall, NoCall, PacingInv
<1>4. ASSUME NEW c \in Callers, NEW wait \in Waits, CallFloods(c, wait) PROVE PacingInv'
  <2>1. /\ nextRPCAt' \in Nat /\ nextRPCAt' >= nextRPCAt
        /\ clock + wait \in Nat /\ nextRPCAt' >= clock + wait + Spacing
    BY <1>4, FloodStep DEF CallFloods
  <2>2. rpc' = [rpc EXCEPT ![c].stage = "waiting", ![c].at = clock + wait]
    BY <1>4 DEF CallFloods
  <2>3. rpc' \in [Callers -> [stage : {"none", "slot", "sent", "waiting"}, at : Nat, attempt : Nat]]
    BY <1>0, <2>1, <2>2
  <2>4. rpc'[c].at = clock + wait /\ \A d \in Callers \ {c} : rpc'[d] = rpc[d]
    BY <1>0, <2>2
  <2>5. ASSUME NEW d \in Callers, rpc'[d].stage # "none" PROVE nextRPCAt' >= rpc'[d].at + Spacing
    <3>1. CASE d = c
      BY <2>1, <2>4, <3>1
    <3>2. CASE d # c
      <4>1. rpc[d].at \in Nat /\ nextRPCAt >= rpc[d].at + Spacing
        BY <1>0, <2>4, <2>5, <3>2
      <4> QED BY <1>0, <2>1, <2>4, <3>2, <4>1
    <3> QED BY <3>1, <3>2
  <2> QED BY <1>0, <1>4, <2>1, <2>3, <2>5 DEF CallFloods, PacingInv
<1>5. ASSUME NEW c \in Callers, Retry(c) PROVE PacingInv'
  <2>1. rpc[c].attempt + 1 \in Nat
    BY <1>0
  <2> QED BY <1>5, <2>1, ReserveStep DEF Retry
<1>6. ASSUME NEW wait \in Waits, TransferFloods(wait) PROVE PacingInv'
  <2>1. nextRPCAt' \in Nat /\ nextRPCAt' >= nextRPCAt
    BY <1>6, FloodStep DEF TransferFloods
  <2>2. \A d \in Callers : rpc[d].stage # "none" => nextRPCAt' >= rpc[d].at + Spacing
    <3> SUFFICES ASSUME NEW d \in Callers, rpc[d].stage # "none"
                 PROVE  nextRPCAt' >= rpc[d].at + Spacing
      OBVIOUS
    <3>1. rpc[d].at \in Nat /\ nextRPCAt >= rpc[d].at + Spacing
      BY <1>0
    <3> QED BY <1>0, <2>1, <3>1
  <2> QED BY <1>0, <1>6, <2>1, <2>2 DEF TransferFloods, PacingInv
<1>7. CASE PacingTick \/ UNCHANGED pacingVars
  BY <1>0, <1>7 DEF PacingTick, pacingVars, PacingInv
<1> QED BY <1>1, <1>2, <1>3, <1>4, <1>5, <1>6, <1>7 DEF PacingNext

\* Slots keep their distance, and no call gets one inside the FLOOD_WAIT of
\* another (client.go:1775-1793, 1840-1860).
THEOREM CallsPaced == PacingSpec => SlotsPaced
<1> DEFINE Paced ==
        \A c \in Callers : Reserves(c) => \A d \in Callers \ {c} :
            /\ rpc[d].stage \in {"slot", "sent"} => rpc'[c].at >= rpc[d].at + Spacing
            /\ rpc[d].stage = "waiting" => rpc'[c].at >= rpc[d].at + Spacing
<1>1. PacingInv /\ [PacingNext]_pacingVars => [Paced]_pacingVars
  <2> SUFFICES ASSUME PacingInv, PacingNext, NEW c \in Callers, Reserves(c),
                      NEW d \in Callers \ {c}, rpc[d].stage # "none"
               PROVE  rpc'[c].at >= rpc[d].at + Spacing
    OBVIOUS
  <2>0. rpc \in [Callers -> [stage : {"none", "slot", "sent", "waiting"}, at : Nat, attempt : Nat]]
    BY DEF PacingInv
  <2>1. ASSUME NEW e \in Callers, NEW attempt \in Nat, Reserve(e, attempt), UNCHANGED clock
        PROVE  rpc'[c].at >= rpc[d].at + Spacing
    <3>1. e = c
      <4>1. e # c => rpc'[c] = rpc[c]
        BY <2>1, ReserveStep
      <4> QED BY <4>1 DEF Reserves
    <3>2. rpc'[c].at >= nextRPCAt /\ rpc'[c].at \in Nat
      BY <2>1, <3>1, ReserveStep DEF PacingInv
    <3>3. rpc[d].at \in Nat /\ nextRPCAt \in Nat /\ nextRPCAt >= rpc[d].at + Spacing
      BY <2>0 DEF PacingInv
    <3> QED BY <3>2, <3>3, PacingConstants
  <2>2. ASSUME NEW e \in Callers, Retry(e) PROVE rpc'[c].at >= rpc[d].at + Spacing
    BY <2>0, <2>1, <2>2, rpc[e].attempt + 1 \in Nat DEF Retry
  <2>3. ASSUME NEW e \in Callers, BeginCall(e) PROVE rpc'[c].at >= rpc[d].at + Spacing
    BY <2>1, <2>3 DEF BeginCall
  <2>4. ASSUME NEW e \in Callers, SendCall(e) \/ EndCall(e) PROVE rpc'[c].stage # "slot" \/ rpc[c].stage = "slot"
    BY <2>0, <2>4 DEF SendCall, EndCall, NoCall
  <2>5. ASSUME NEW e \in Callers, NEW wait \in Waits, CallFloods(e, wait)
        PROVE  rpc'[c].stage # "slot" \/ rpc[c].stage = "slot"
    BY <2>0, <2>5 DEF CallFloods
  <2> QED
    BY <2>2, <2>3, <2>4, <2>5 DEF PacingNext, Reserves, TransferFloods, PacingTick
<1> QED BY <1>1, PacingInitially, PacingStep, PTL DEF PacingSpec, SlotsPaced

(***************************************************************************)
(* The transcript of a long recording                                      *)
(***************************************************************************)

Segments == [start : Nat, end : Nat]

\* The scan for the first speech has left none behind, the one for the last
\* speech none before; bounds are those of the speech, and relative to the cut
\* after it.
TranscriptInv ==
    /\ length \in Nat /\ speech \subseteq Stretch(length) /\ step \in Steps
    /\ at \in Nat /\ first \in Nat /\ last \in Int /\ trim \in Nat
    /\ answer \in Seq(Segments)
    /\ step = "silent" => speech = {}
    /\ step = "start" => at = 0
    /\ step = "first" => \A s \in speech : at <= s.start
    /\ step = "last" => \A s \in speech : s.end <= at
    /\ step \in {"last", "bounds"} => speech # {} /\ first = Start(speech)
    /\ step = "bounds" => last = End(speech)
    /\ step \in {"decode", "validate", "recover", "accepted"} =>
           speech # {} /\ trim <= Start(speech) /\ trim + last = End(speech)
    /\ step = "recover" => WellFormed(answer, Duration)
    /\ step = "accepted" => WellFormed(answer, Duration) /\ Covered(answer, Duration, last)

\* The constants are numbers, and windows overlap by a speech at least.
LEMMA TranscriptNumbers ==
    /\ Lengths \subseteq Nat
    /\ LongMedia \in Nat /\ LeadIn \in Nat /\ Window \in Nat /\ Tolerance \in Nat /\ Context \in Nat
    /\ MinSpeech \in Nat /\ MinSpeech # 0 /\ Overlap \in Nat
    /\ MinSpeech <= Overlap /\ Overlap < Window
BY TranscriptConstants

\* A set of numbers has a least one.
LEMMA MinIs ==
    ASSUME NEW S, S \subseteq Nat, S # {}
    PROVE  Min(S) \in S /\ \A e \in S : Min(S) <= e
<1>1. PICK d \in S : \A e \in S : ~(<<e, d>> \in OpToRel(<, Nat))
  BY NatLessThanWellFounded, WFMin
<1>2. \A e \in S : d <= e
  <2> SUFFICES ASSUME NEW e \in S PROVE d <= e
    OBVIOUS
  <2>1. e \in Nat /\ d \in Nat /\ <<e, d>> \notin OpToRel(<, Nat)
    BY <1>1
  <2>2. ~(e < d)
    BY <2>1 DEF OpToRel
  <2>3. e \in Nat /\ d \in Nat
    BY <2>1
  <2> QED BY <2>2, <2>3
<1> QED BY <1>2 DEF Min

\* A bounded one has a greatest.
LEMMA MaxIs ==
    ASSUME NEW n \in Nat, NEW S, S \subseteq 0..n, S # {}
    PROVE  Max(S) \in S /\ \A e \in S : e <= Max(S)
<1> DEFINE Bounds == {k \in 0..n : \A e \in S : e <= k}
<1>1. Bounds \subseteq Nat /\ n \in Bounds
  OBVIOUS
<1>2. Bounds # {}
  BY <1>1
<1>3. Min(Bounds) \in Bounds /\ \A b \in Bounds : Min(Bounds) <= b
  BY <1>1, <1>2, MinIs
<1>4. PICK k \in Bounds : \A b \in Bounds : k <= b
  BY <1>3
<1>5. k \in S
  <2> SUFFICES ASSUME k \notin S PROVE FALSE
    OBVIOUS
  <2>1. \A e \in S : e \in Nat /\ e <= k /\ e # k
    OBVIOUS
  <2>2. k \in Nat /\ k <= n
    OBVIOUS
  <2>3. \A e \in S : e <= k - 1
    BY <2>1, <2>2
  <2>4. k - 1 \in 0..n
    <3>1. PICK e \in S : TRUE
      OBVIOUS
    <3> QED BY <2>1, <2>2, <3>1
  <2>5. k - 1 \in Bounds
    BY <2>3, <2>4
  <2>6. k <= k - 1
    BY <1>4, <2>5
  <2> QED BY <2>2, <2>6
<1>6. \A e \in S : k >= e
  OBVIOUS
<1> HIDE DEF Bounds
<1>7. Max(S) \in S /\ \A e \in S : Max(S) >= e
  BY <1>5, <1>6 DEF Max
<1>8. S \subseteq Nat
  OBVIOUS
<1> QED BY <1>7, <1>8

\* Stretches of speech lie in the recording.
LEMMA StretchIs ==
    ASSUME length \in Nat, speech \subseteq Stretch(length)
    PROVE  \A s \in speech : /\ s = [start |-> s.start, end |-> s.end]
                             /\ s.start \in Nat /\ s.end \in Nat /\ s.end <= length
                             /\ s.start + MinSpeech <= s.end
  <1> SUFFICES ASSUME NEW s \in speech
               PROVE  /\ s = [start |-> s.start, end |-> s.end]
                      /\ s.start \in Nat /\ s.end \in Nat /\ s.end <= length
                      /\ s.start + MinSpeech <= s.end
    OBVIOUS
  <1>1. s \in [start : 0..length, end : 0..length] /\ s.end - s.start >= MinSpeech
    BY DEF Stretch
  <1>2. s.start \in 0..length /\ s.end \in 0..length /\ s = [start |-> s.start, end |-> s.end]
    BY <1>1
  <1> QED BY <1>1, <1>2, TranscriptNumbers

\* Speech has a first start and a last end.
LEMMA BoundsOfSpeech ==
    ASSUME length \in Nat, NEW S, S # {},
           \A s \in S : s.start \in Nat /\ s.end \in Nat /\ s.end <= length
    PROVE  /\ \E s \in S : s.start = Start(S)
           /\ \E s \in S : s.end = End(S)
           /\ \A s \in S : Start(S) <= s.start /\ s.end <= End(S)
           /\ Start(S) \in Nat /\ End(S) \in Nat
<1> DEFINE begins == {s.start : s \in S}
           ends   == {s.end : s \in S}
<1>1. begins \subseteq Nat /\ begins # {} /\ ends \subseteq 0..length /\ ends # {}
  OBVIOUS
<1>2. Start(S) \in begins /\ \A e \in begins : Start(S) <= e
  BY <1>1, MinIs DEF Start
<1>3. End(S) \in ends /\ \A e \in ends : e <= End(S)
  BY <1>1, MaxIs DEF End
<1> QED BY <1>2, <1>3

\* What a probe finds is speech, cut at the borders of the interval; what is long
\* enough in it is found.
LEMMA ProbeIs ==
    ASSUME NEW o, NEW e
    PROVE  /\ \A q \in Probe(o, e) : \E s \in speech :
                  /\ q.start = LargerOf(s.start, o) /\ q.end = SmallerOf(s.end, e)
                  /\ SmallerOf(s.end, e) - LargerOf(s.start, o) >= MinSpeech
           /\ \A s \in speech :
                  SmallerOf(s.end, e) - LargerOf(s.start, o) >= MinSpeech =>
                      [start |-> LargerOf(s.start, o), end |-> SmallerOf(s.end, e)] \in Probe(o, e)
BY DEF Probe

\* A probe of an interval with all of the speech finds all of it.
LEMMA ProbeWhole ==
    ASSUME length \in Nat, speech \subseteq Stretch(length), NEW o \in Nat, NEW e \in Nat,
           \A s \in speech : o <= s.start /\ s.end <= e
    PROVE  Probe(o, e) = speech
<1>1. \A s \in speech : LargerOf(s.start, o) = s.start /\ SmallerOf(s.end, e) = s.end
  BY StretchIs DEF LargerOf, SmallerOf
<1>2. \A s \in speech : s.end - s.start >= MinSpeech /\ s = [start |-> s.start, end |-> s.end]
  BY StretchIs, TranscriptNumbers
<1> QED BY <1>1, <1>2 DEF Probe

\* The first window in which speech is found holds the start of the first speech.
LEMMA FirstFound ==
    ASSUME length \in Nat, speech \subseteq Stretch(length), at \in Nat,
           \A s \in speech : at <= s.start, NEW e \in Nat, e <= length,
           Probe(at, e) # {}
    PROVE  /\ speech # {} /\ Start(Probe(at, e)) = Start(speech)
           /\ End(Probe(at, e)) \in Nat
<1>1. \A s \in speech : /\ s.start \in Nat /\ s.end \in Nat /\ s.end <= length
                        /\ s.start + MinSpeech <= s.end
  BY StretchIs
<1>2. \A s \in speech : LargerOf(s.start, at) = s.start
  BY <1>1 DEF LargerOf
<1>3. \A s \in speech : /\ SmallerOf(s.end, e) \in Nat
                        /\ SmallerOf(s.end, e) <= e /\ SmallerOf(s.end, e) <= s.end
                        /\ SmallerOf(s.end, e) \in {s.end, e}
  BY <1>1 DEF SmallerOf
<1>4. \A q \in Probe(at, e) : \E s \in speech :
          q.start = s.start /\ q.end = SmallerOf(s.end, e) /\ s.start + MinSpeech <= e
  <2> SUFFICES ASSUME NEW q \in Probe(at, e)
               PROVE  \E s \in speech : q.start = s.start /\ q.end = SmallerOf(s.end, e)
                                        /\ s.start + MinSpeech <= e
    OBVIOUS
  <2>1. PICK s \in speech : /\ q.start = LargerOf(s.start, at) /\ q.end = SmallerOf(s.end, e)
                            /\ SmallerOf(s.end, e) - LargerOf(s.start, at) >= MinSpeech
    BY ProbeIs
  <2>2. SmallerOf(s.end, e) - s.start >= MinSpeech
    BY <1>2, <2>1
  <2>3. s.start + MinSpeech <= e
    BY <1>1, <1>3, <2>2, TranscriptNumbers
  <2> QED BY <1>2, <2>1, <2>3
<1>5. \A q \in Probe(at, e) : q.start \in Nat /\ q.end \in Nat /\ q.end <= length
  BY <1>1, <1>3, <1>4
<1>6. PICK q \in Probe(at, e) : q.start = Start(Probe(at, e))
  BY <1>5, BoundsOfSpeech
<1>7. PICK s1 \in speech : q.start = s1.start /\ s1.start + MinSpeech <= e
  BY <1>4
<1>8. PICK s0 \in speech : s0.start = Start(speech)
  BY <1>1, <1>7, BoundsOfSpeech
<1>9. s0.start <= s1.start
  BY <1>1, <1>7, <1>8, BoundsOfSpeech
<1>10. SmallerOf(s0.end, e) - LargerOf(s0.start, at) >= MinSpeech
  <2>1. s0.start + MinSpeech <= e /\ s0.start + MinSpeech <= s0.end
    BY <1>1, <1>7, <1>9, TranscriptNumbers
  <2>2. s0.start + MinSpeech <= SmallerOf(s0.end, e)
    BY <1>3, <2>1
  <2> QED BY <1>1, <1>2, <1>3, <2>2, TranscriptNumbers
<1>11. PICK r \in Probe(at, e) : r.start = s0.start
  BY <1>2, <1>10, ProbeIs
<1>12. q.start <= r.start
  BY <1>5, <1>6, <1>11, BoundsOfSpeech
<1>13. q.start = s0.start
  BY <1>1, <1>7, <1>9, <1>11, <1>12
<1> QED BY <1>5, <1>6, <1>7, <1>8, <1>13, BoundsOfSpeech

\* A window without speech has none that begins before the next window.
LEMMA NoneBefore ==
    ASSUME length \in Nat, speech \subseteq Stretch(length), at \in Nat,
           \A s \in speech : at <= s.start, Probe(at, at + Window) = {}
    PROVE  \A s \in speech : at + Window - Overlap <= s.start
<1> SUFFICES ASSUME NEW s \in speech, ~(at + Window - Overlap <= s.start) PROVE FALSE
  OBVIOUS
<1>1. /\ s.start \in Nat /\ s.end \in Nat /\ s.start + MinSpeech <= s.end /\ at <= s.start
  BY StretchIs
<1>2. s.start + MinSpeech <= at + Window
  BY <1>1, TranscriptNumbers
<1>3. LargerOf(s.start, at) = s.start
  BY <1>1 DEF LargerOf
<1>4. /\ SmallerOf(s.end, at + Window) \in Nat
      /\ s.start + MinSpeech <= SmallerOf(s.end, at + Window)
  BY <1>1, <1>2, TranscriptNumbers DEF SmallerOf
<1>5. SmallerOf(s.end, at + Window) - LargerOf(s.start, at) >= MinSpeech
  BY <1>1, <1>3, <1>4, TranscriptNumbers
<1> QED BY <1>5, ProbeIs

\* The last window in which speech is found holds the end of the last speech.
LEMMA LastFound ==
    ASSUME length \in Nat, speech \subseteq Stretch(length), at \in Nat,
           \A s \in speech : s.end <= at, NEW o \in Nat, Probe(o, at) # {}
    PROVE  End(Probe(o, at)) = End(speech)
<1>1. \A s \in speech : /\ s.start \in Nat /\ s.end \in Nat /\ s.end <= length
                        /\ s.start + MinSpeech <= s.end
  BY StretchIs
<1>2. \A s \in speech : SmallerOf(s.end, at) = s.end
  BY <1>1 DEF SmallerOf
<1>3. \A s \in speech : /\ LargerOf(s.start, o) \in Nat
                        /\ o <= LargerOf(s.start, o) /\ s.start <= LargerOf(s.start, o)
                        /\ LargerOf(s.start, o) \in {s.start, o}
  BY <1>1 DEF LargerOf
<1>4. \A q \in Probe(o, at) : \E s \in speech :
          q.end = s.end /\ q.start = LargerOf(s.start, o) /\ o + MinSpeech <= s.end
  <2> SUFFICES ASSUME NEW q \in Probe(o, at)
               PROVE  \E s \in speech : q.end = s.end /\ q.start = LargerOf(s.start, o)
                                        /\ o + MinSpeech <= s.end
    OBVIOUS
  <2>1. PICK s \in speech : /\ q.start = LargerOf(s.start, o) /\ q.end = SmallerOf(s.end, at)
                            /\ SmallerOf(s.end, at) - LargerOf(s.start, o) >= MinSpeech
    BY ProbeIs
  <2>2. s.end - LargerOf(s.start, o) >= MinSpeech
    BY <1>2, <2>1
  <2>3. o + MinSpeech <= s.end
    BY <1>1, <1>3, <2>2, TranscriptNumbers
  <2> QED BY <1>2, <2>1, <2>3
<1>5. \A q \in Probe(o, at) : q.start \in Nat /\ q.end \in Nat /\ q.end <= length
  BY <1>1, <1>3, <1>4
<1>6. PICK q \in Probe(o, at) : q.end = End(Probe(o, at))
  BY <1>5, BoundsOfSpeech
<1>7. PICK s1 \in speech : q.end = s1.end /\ o + MinSpeech <= s1.end
  BY <1>4
<1>8. PICK s0 \in speech : s0.end = End(speech)
  BY <1>1, <1>7, BoundsOfSpeech
<1>9. s1.end <= s0.end
  BY <1>1, <1>7, <1>8, BoundsOfSpeech
<1>10. SmallerOf(s0.end, at) - LargerOf(s0.start, o) >= MinSpeech
  <2>1. o + MinSpeech <= s0.end /\ s0.start + MinSpeech <= s0.end
    BY <1>1, <1>7, <1>9, TranscriptNumbers
  <2>2. LargerOf(s0.start, o) + MinSpeech <= s0.end
    BY <1>3, <2>1
  <2> QED BY <1>1, <1>2, <1>3, <2>2, TranscriptNumbers
<1>11. PICK r \in Probe(o, at) : r.end = s0.end
  BY <1>2, <1>10, ProbeIs
<1>12. r.end <= q.end
  BY <1>5, <1>6, <1>11, BoundsOfSpeech
<1>13. q.end = s0.end
  BY <1>1, <1>7, <1>9, <1>11, <1>12
<1> QED BY <1>6, <1>8, <1>13

\* A window without speech has none that ends after the window before it.
LEMMA NoneAfter ==
    ASSUME length \in Nat, speech \subseteq Stretch(length), at \in Nat,
           \A s \in speech : s.end <= at, NEW o \in Nat, Probe(o, at) = {}
    PROVE  \A s \in speech : s.end <= o + Overlap
<1> SUFFICES ASSUME NEW s \in speech, ~(s.end <= o + Overlap) PROVE FALSE
  OBVIOUS
<1>1. /\ s.start \in Nat /\ s.end \in Nat /\ s.start + MinSpeech <= s.end /\ s.end <= at
  BY StretchIs
<1>2. o + MinSpeech <= s.end
  BY <1>1, TranscriptNumbers
<1>3. SmallerOf(s.end, at) = s.end
  BY <1>1 DEF SmallerOf
<1>4. LargerOf(s.start, o) \in Nat /\ LargerOf(s.start, o) + MinSpeech <= s.end
  BY <1>1, <1>2, TranscriptNumbers DEF LargerOf
<1>5. SmallerOf(s.end, at) - LargerOf(s.start, o) >= MinSpeech
  BY <1>1, <1>3, <1>4, TranscriptNumbers
<1> QED BY <1>5, ProbeIs

\* An answer is a sequence of segments.
LEMMA AnswerType ==
    ASSUME NEW d, NEW a \in Answers(d)
    PROVE  a \in Seq(Segments)
<1>1. PICK n \in 0..2 : a \in [1..n -> [start : 0..d, end : 0..d + 1]]
  BY DEF Answers
<1>2. n \in Nat /\ a \in [1..n -> Segments]
  BY <1>1 DEF Segments
<1> QED BY <1>2

\* How far an answer reaches is a number.
LEMMA ReachIs ==
    ASSUME NEW a \in Seq(Segments), a # << >>, NEW d \in Int
    PROVE  Reach(a, d) \in Int
<1>1. Len(a) \in 1..Len(a) /\ Len(a) \in Nat
  <2>1. Len(a) \in Nat
    OBVIOUS
  <2>2. Len(a) # 0
    OBVIOUS
  <2> QED BY <2>1, <2>2
<1>2. Last(a) = a[Len(a)] /\ a[Len(a)] \in Segments
  BY <1>1 DEF Last
<1>3. Last(a).end \in Nat
  BY <1>2 DEF Segments
<1> QED BY <1>3 DEF Reach, SmallerOf

\* The terminal segments begin with one of the answer's.
LEMMA TailIs ==
    ASSUME answer \in Seq(Segments), answer # << >>, Duration \in Int
    PROVE  TailStart \in DOMAIN answer
<1> DEFINE Border == Reach(answer, Duration) - Context
           Late(k) == \A i \in (k + 1)..Len(answer) : answer[i - 1].start >= Border
           Tails == {k \in DOMAIN answer : Late(k)}
<1>1. Len(answer) \in Nat /\ Len(answer) # 0 /\ DOMAIN answer = 1..Len(answer)
  OBVIOUS
<1>2. Len(answer) \in DOMAIN answer /\ (Len(answer) + 1)..Len(answer) = {}
  BY <1>1
<1>3. Len(answer) \in Tails /\ Tails \subseteq Nat
  BY <1>1, <1>2
<1>4. Tails # {}
  BY <1>3
<1>5. Min(Tails) \in Tails /\ \A k \in Tails : Min(Tails) <= k
  BY <1>3, <1>4, MinIs
<1>6. PICK k \in Tails : \A j \in Tails : k <= j
  BY <1>5
<1>7. k > 1 => ~(answer[k - 1].start >= Border)
  <2> SUFFICES ASSUME k > 1, answer[k - 1].start >= Border PROVE FALSE
    OBVIOUS
  <2>1. k \in Nat /\ k \in 1..Len(answer) /\ Late(k)
    BY <1>1
  <2>2. k - 1 \in DOMAIN answer
    BY <1>1, <2>1
  <2>3. \A i \in ((k - 1) + 1)..Len(answer) : i = k \/ i \in (k + 1)..Len(answer)
    BY <1>1, <2>1
  <2>4. Late(k - 1)
    BY <2>1, <2>3
  <2>5. k - 1 \in Tails
    BY <2>2, <2>4
  <2>6. k <= k - 1
    BY <1>6, <2>5
  <2> QED BY <2>1, <2>6
<1>8. k > 1 => answer[k - 1].start < Border
  <2> SUFFICES ASSUME k > 1 PROVE answer[k - 1].start < Border
    OBVIOUS
  <2>1. k \in Nat /\ k \in 1..Len(answer)
    BY <1>1
  <2>2. k - 1 \in DOMAIN answer
    BY <1>1, <2>1
  <2>3. answer[k - 1] \in Segments
    BY <2>2
  <2>4. answer[k - 1].start \in Int
    BY <2>3 DEF Segments
  <2>5. Border \in Int
    <3>1. Reach(answer, Duration) \in Int
      BY ReachIs
    <3> QED BY <3>1, TranscriptNumbers
  <2> QED BY <1>7, <2>4, <2>5
<1>9. \E t \in DOMAIN answer :
          /\ \A i \in (t + 1)..Len(answer) : answer[i - 1].start >= Border
          /\ t > 1 => answer[t - 1].start < Border
  BY <1>6, <1>8
<1> HIDE DEF Tails, Late
<1> QED BY <1>9 DEF TailStart

\* Before the recording is looked at nothing is known.
LEMMA TranscriptInitially == TranscriptInit => TranscriptInv
<1> SUFFICES ASSUME TranscriptInit PROVE TranscriptInv
  OBVIOUS
<1>1. length \in Nat
  BY TranscriptNumbers DEF TranscriptInit
<1>2. speech \subseteq Stretch(length)
  <2>1. speech \in Speeches(length)
    BY DEF TranscriptInit
  <2> QED BY <2>1 DEF Speeches
<1>3. answer \in Seq(Segments)
  BY DEF TranscriptInit
<1> QED BY <1>1, <1>2, <1>3 DEF TranscriptInit, TranscriptInv, Steps

\* Where the recording is probed whole, its speech is found whole.
LEMMA RouteKeeps == TranscriptInv /\ Route => TranscriptInv'
<1> SUFFICES ASSUME TranscriptInv, Route PROVE TranscriptInv'
  OBVIOUS
<1>1. /\ length \in Nat /\ speech \subseteq Stretch(length) /\ at \in Nat
      /\ first \in Nat /\ last \in Int /\ trim \in Nat /\ answer \in Seq(Segments) /\ step = "start"
      /\ at = 0
  BY DEF TranscriptInv, Route
<1>2. UNCHANGED <<length, speech, at, trim, answer>>
  BY DEF Route
<1>3. \A s \in speech : s.start \in Nat /\ s.end \in Nat /\ s.end <= length /\ 0 <= s.start
  BY <1>1, StretchIs
<1>4. Probe(0, length) = speech
  BY <1>1, <1>3, ProbeWhole
<1>5. CASE step' = "first" /\ UNCHANGED <<first, last>>
  <2>1. \A s \in speech : at <= s.start
    BY <1>1, <1>3
  <2> QED BY <2>1, <1>1, <1>2, <1>3, <1>5 DEF TranscriptInv, Steps
<1>6. CASE speech = {} /\ step' = "silent" /\ UNCHANGED <<first, last>>
  BY <1>1, <1>2, <1>6 DEF TranscriptInv, Steps
<1>7. CASE /\ speech # {} /\ first' = Start(speech) /\ last' = End(speech)
           /\ step' \in {"bounds", "short"}
  <2>1. Start(speech) \in Nat /\ End(speech) \in Nat
    BY <1>1, <1>3, <1>7, BoundsOfSpeech
  <2> QED BY <1>1, <1>2, <1>7, <2>1 DEF TranscriptInv, Steps, Start, End
<1> QED BY <1>4, <1>5, <1>6, <1>7 DEF Route

\* The scan for the first speech passes none.
LEMMA ScanFirstKeeps == TranscriptInv /\ ScanFirst => TranscriptInv'
<1> SUFFICES ASSUME TranscriptInv, ScanFirst PROVE TranscriptInv'
  OBVIOUS
<1> DEFINE end == SmallerOf(at + Window, length)
           segments == Probe(at, end)
<1>1. /\ length \in Nat /\ speech \subseteq Stretch(length) /\ at \in Nat
      /\ first \in Nat /\ last \in Int /\ trim \in Nat /\ answer \in Seq(Segments) /\ step = "first"
      /\ \A s \in speech : at <= s.start
  BY DEF TranscriptInv, ScanFirst
<1>2. UNCHANGED <<length, speech, trim, answer>>
  BY DEF ScanFirst
<1>3. \A s \in speech : s.start \in Nat /\ s.end \in Nat /\ s.end <= length
  BY <1>1, StretchIs
<1>4. end \in Nat /\ end <= length /\ (end = length \/ end = at + Window)
  BY <1>1, TranscriptNumbers DEF SmallerOf
<1>5. end = length => segments = speech
  BY <1>1, <1>3, ProbeWhole
<1> HIDE DEF end
<1>6. CASE /\ segments # {}
           /\ first' = Start(segments) /\ last' = End(segments)
           /\ step' = IF end = length THEN "bounds" ELSE "last"
           /\ at' = length
  <2>1. speech # {} /\ Start(segments) = Start(speech) /\ End(segments) \in Nat
    BY <1>1, <1>4, <1>6, FirstFound
  <2>2. Start(speech) \in Nat
    BY <1>1, <1>3, <2>1, BoundsOfSpeech
  <2> HIDE DEF segments
  <2>3. step' = "bounds" => last' = End(speech)
    BY <1>5, <1>6
  <2>4. /\ step' \in {"bounds", "last"} /\ first' = Start(speech) /\ first' \in Nat /\ last' \in Int
        /\ at' \in Nat /\ at' = length
    BY <1>1, <1>6, <2>1, <2>2
  <2>5. Start(speech)' = Start(speech) /\ End(speech)' = End(speech)
    BY <1>2 DEF Start, End
  <2> QED BY <1>1, <1>2, <1>3, <2>1, <2>3, <2>4, <2>5 DEF TranscriptInv, Steps
<1>7. CASE segments = {} /\ end = length /\ step' = "silent" /\ UNCHANGED <<at, first, last>>
  <2>1. speech = {}
    BY <1>5, <1>7
  <2> QED BY <1>1, <1>2, <1>7, <2>1 DEF TranscriptInv, Steps
<1>8. CASE /\ segments = {} /\ end < length /\ at' = at + Window - Overlap
           /\ UNCHANGED <<step, first, last>>
  <2>1. end = at + Window
    BY <1>1, <1>4, <1>8
  <2>2. \A s \in speech : at + Window - Overlap <= s.start
    BY <1>1, <1>8, <2>1, NoneBefore
  <2>3. at' \in Nat
    BY <1>1, <1>8, TranscriptNumbers
  <2> HIDE DEF segments
  <2> QED BY <1>1, <1>2, <1>8, <2>2, <2>3 DEF TranscriptInv, Steps
<1> QED BY <1>6, <1>7, <1>8 DEF ScanFirst, end

\* The scan for the last speech passes none.
LEMMA ScanLastKeeps == TranscriptInv /\ ScanLast => TranscriptInv'
<1> SUFFICES ASSUME TranscriptInv, ScanLast PROVE TranscriptInv'
  OBVIOUS
<1> DEFINE offset == LargerOf(0, at - Window)
           segments == Probe(offset, at)
<1>1. /\ length \in Nat /\ speech \subseteq Stretch(length) /\ at \in Nat
      /\ first \in Nat /\ last \in Int /\ trim \in Nat /\ answer \in Seq(Segments) /\ step = "last"
      /\ \A s \in speech : s.end <= at
      /\ speech # {} /\ first = Start(speech)
  BY DEF TranscriptInv, ScanLast
<1>2. UNCHANGED <<length, speech, first, trim, answer>>
  BY DEF ScanLast
<1>3. \A s \in speech : s.start \in Nat /\ s.end \in Nat /\ s.end <= length
  BY <1>1, StretchIs
<1>4. offset \in Nat
  BY <1>1, TranscriptNumbers DEF LargerOf
<1>5. Start(speech)' = Start(speech) /\ End(speech)' = End(speech)
  BY <1>2 DEF Start, End
<1>6. End(speech) \in Nat
  BY <1>1, <1>3, BoundsOfSpeech
<1> HIDE DEF offset
<1>7. CASE segments # {} /\ last' = End(segments) /\ step' = "bounds" /\ UNCHANGED at
  <2>1. End(segments) = End(speech)
    BY <1>1, <1>4, <1>7, LastFound
  <2> HIDE DEF segments
  <2> QED BY <1>1, <1>2, <1>5, <1>6, <1>7, <2>1 DEF TranscriptInv, Steps
<1>8. CASE step' = "rejected" /\ UNCHANGED <<last, at>>
  BY <1>1, <1>2, <1>8 DEF TranscriptInv, Steps
<1>9. CASE segments = {} /\ at' = offset + Overlap /\ UNCHANGED <<last, step>>
  <2>1. \A s \in speech : s.end <= offset + Overlap
    BY <1>1, <1>4, <1>9, NoneAfter
  <2>2. at' \in Nat
    BY <1>4, <1>9, TranscriptNumbers
  <2> HIDE DEF segments
  <2> QED BY <1>1, <1>2, <1>5, <1>9, <2>1, <2>2 DEF TranscriptInv, Steps
<1> QED BY <1>7, <1>8, <1>9 DEF ScanLast, offset

\* The cut leaves the first speech in.
LEMMA TrimKeeps == TranscriptInv /\ Trim => TranscriptInv'
<1> SUFFICES ASSUME TranscriptInv, Trim PROVE TranscriptInv'
  OBVIOUS
<1>1. /\ length \in Nat /\ speech \subseteq Stretch(length) /\ at \in Nat
      /\ first \in Nat /\ last \in Int /\ trim \in Nat /\ answer \in Seq(Segments) /\ step = "bounds"
      /\ speech # {} /\ first = Start(speech) /\ last = End(speech)
  BY DEF TranscriptInv, Trim
<1>2. UNCHANGED <<length, speech, at, first, answer>>
  BY DEF Trim
<1>3. trim' = LargerOf(0, first - LeadIn) /\ last' = last - trim'
  BY DEF Trim
<1>4. trim' \in Nat /\ trim' <= first
  BY <1>1, <1>3, TranscriptNumbers DEF LargerOf
<1>5. last' \in Int /\ trim' + last' = last
  BY <1>1, <1>3, <1>4
<1>6. Start(speech)' = Start(speech) /\ End(speech)' = End(speech)
  BY <1>2 DEF Start, End
<1>7. step' \in {"rejected", "decode"}
  BY DEF Trim
<1> QED BY <1>1, <1>2, <1>4, <1>5, <1>6, <1>7 DEF TranscriptInv, Steps

\* The answer of the server is a sequence of segments.
LEMMA DecodeKeeps == TranscriptInv /\ Decode => TranscriptInv'
<1> SUFFICES ASSUME TranscriptInv, Decode PROVE TranscriptInv'
  OBVIOUS
<1>1. /\ length \in Nat /\ speech \subseteq Stretch(length) /\ at \in Nat
      /\ first \in Nat /\ last \in Int /\ trim \in Nat
      /\ speech # {} /\ trim <= Start(speech) /\ trim + last = End(speech)
  BY DEF TranscriptInv, Decode
<1>2. UNCHANGED <<length, speech, at, first, last, trim>> /\ step' = "validate"
  BY DEF Decode
<1>3. answer' \in Seq(Segments)
  BY AnswerType DEF Decode
<1>4. Start(speech)' = Start(speech) /\ End(speech)' = End(speech)
  BY <1>2 DEF Start, End
<1> QED BY <1>1, <1>2, <1>3, <1>4 DEF TranscriptInv, Steps

\* What is accepted at once is well formed and covers the speech.
LEMMA ValidateKeeps == TranscriptInv /\ Validate => TranscriptInv'
<1> SUFFICES ASSUME TranscriptInv, Validate PROVE TranscriptInv'
  OBVIOUS
<1>1. /\ length \in Nat /\ speech \subseteq Stretch(length) /\ at \in Nat
      /\ first \in Nat /\ last \in Int /\ trim \in Nat /\ answer \in Seq(Segments)
      /\ speech # {} /\ trim <= Start(speech) /\ trim + last = End(speech)
  BY DEF TranscriptInv, Validate
<1>2. UNCHANGED <<length, speech, at, first, last, trim, answer>>
  BY DEF Validate
<1>3. Start(speech)' = Start(speech) /\ End(speech)' = End(speech)
  BY <1>2 DEF Start, End
<1>4. /\ WellFormed(answer, Duration)' = WellFormed(answer, Duration)
      /\ Covered(answer, Duration, last)' = Covered(answer, Duration, last)
  BY <1>2 DEF WellFormed, Covered, Gap, Reach, Duration
<1>5. /\ step' \in {"rejected", "accepted", "recover"}
      /\ step' # "rejected" => WellFormed(answer, Duration)
      /\ step' = "accepted" => Covered(answer, Duration, last)
  BY DEF Validate
<1> QED BY <1>1, <1>2, <1>3, <1>4, <1>5 DEF TranscriptInv, Steps

\* A recovered answer is the head of the first and the tail of the second.
LEMMA RecoverKeeps == TranscriptInv /\ RecoverTail => TranscriptInv'
<1> SUFFICES ASSUME TranscriptInv, RecoverTail PROVE TranscriptInv'
  OBVIOUS
<1> DEFINE offset == answer[TailStart].start
           end    == SmallerOf(Duration, last + 1)
           Moved(tail) == [i \in DOMAIN tail |->
                              [start |-> offset + tail[i].start,
                               end |-> offset + SmallerOf(tail[i].end, end - offset)]]
<1>1. /\ length \in Nat /\ speech \subseteq Stretch(length) /\ at \in Nat
      /\ first \in Nat /\ last \in Int /\ trim \in Nat /\ answer \in Seq(Segments)
      /\ speech # {} /\ trim <= Start(speech) /\ trim + last = End(speech)
      /\ WellFormed(answer, Duration)
  BY DEF TranscriptInv, RecoverTail
<1>2. UNCHANGED <<length, speech, at, first, last, trim>>
  BY DEF RecoverTail, Ends
<1>3. Start(speech)' = Start(speech) /\ End(speech)' = End(speech)
  BY <1>2 DEF Start, End
<1>4. Duration \in Int /\ answer # << >>
  BY <1>1 DEF Duration, WellFormed
<1>5. TailStart \in DOMAIN answer
  BY <1>1, <1>4, TailIs
<1>6. answer[TailStart] \in Segments
  BY <1>1, <1>5
<1>7. offset \in Nat
  BY <1>6 DEF Segments
<1>8. end \in Int
  BY <1>1, <1>4 DEF SmallerOf
<1>9. CASE step' = "rejected" /\ UNCHANGED answer
  BY <1>1, <1>2, <1>3, <1>9 DEF TranscriptInv, Steps
<1>10. CASE /\ end > offset
            /\ \E tail \in Answers(end - offset) :
                  /\ answer' = SubSeq(answer, 1, TailStart - 1) \o Moved(tail)
                  /\ step' = IF WellFormed(answer', Duration) /\ Covered(answer', Duration, last)
                             THEN "accepted" ELSE "rejected"
  <2>1. PICK tail \in Answers(end - offset) :
                  /\ answer' = SubSeq(answer, 1, TailStart - 1) \o Moved(tail)
                  /\ step' = IF WellFormed(answer', Duration) /\ Covered(answer', Duration, last)
                             THEN "accepted" ELSE "rejected"
    BY <1>10
  <2>2. tail \in Seq(Segments) /\ end - offset \in Nat
    <3>1. tail \in Seq(Segments)
      BY AnswerType
    <3>2. end - offset \in Nat
      BY <1>7, <1>8, <1>10
    <3> QED BY <3>1, <3>2
  <2>3. Moved(tail) \in Seq(Segments)
    <3>1. Len(tail) \in Nat /\ DOMAIN tail = 1..Len(tail)
      BY <2>2
    <3>2. ASSUME NEW i \in DOMAIN tail
          PROVE  [start |-> offset + tail[i].start,
                  end |-> offset + SmallerOf(tail[i].end, end - offset)] \in Segments
      <4>1. tail[i] \in Segments
        BY <2>2
      <4>2. tail[i].start \in Nat /\ tail[i].end \in Nat
        BY <4>1 DEF Segments
      <4>3. SmallerOf(tail[i].end, end - offset) \in Nat
        BY <2>2, <4>2 DEF SmallerOf
      <4>4. offset + tail[i].start \in Nat /\ offset + SmallerOf(tail[i].end, end - offset) \in Nat
        BY <1>7, <4>2, <4>3
      <4> HIDE DEF offset, end
      <4> QED BY <4>4 DEF Segments
    <3>3. Moved(tail) \in [1..Len(tail) -> Segments]
      BY <3>1, <3>2
    <3> HIDE DEF Moved
    <3> QED BY <3>1, <3>3
  <2>4. SubSeq(answer, 1, TailStart - 1) \in Seq(Segments)
    <3>1. DOMAIN answer = 1..Len(answer) /\ Len(answer) \in Nat
      BY <1>1
    <3>2. TailStart \in Nat /\ TailStart <= Len(answer) /\ 1 <= TailStart
      BY <1>5, <3>1
    <3>3. \A i \in 1..(TailStart - 1) : i \in DOMAIN answer
      BY <3>1, <3>2
    <3>4. TailStart - 1 \in Nat
      BY <3>2
    <3> HIDE DEF Duration
    <3> QED BY <1>1, <3>3, <3>4, <3>1
  <2> HIDE DEF Moved
  <2>5. answer' \in Seq(Segments)
    BY <2>1, <2>3, <2>4
  <2>6. /\ WellFormed(answer, Duration)' = WellFormed(answer', Duration)
        /\ Covered(answer, Duration, last)' = Covered(answer', Duration, last)
    BY <1>2 DEF WellFormed, Covered, Gap, Reach, Duration
  <2>7. /\ step' \in {"rejected", "accepted"}
        /\ step' = "accepted" => WellFormed(answer', Duration) /\ Covered(answer', Duration, last)
    BY <2>1
  <2> QED BY <1>1, <1>2, <1>3, <2>5, <2>6, <2>7 DEF TranscriptInv, Steps
<1>11. \/ step' = "rejected" /\ UNCHANGED answer
       \/ /\ end > offset
          /\ \E tail \in Answers(end - offset) :
                /\ answer' = SubSeq(answer, 1, TailStart - 1) \o Moved(tail)
                /\ step' = IF WellFormed(answer', Duration) /\ Covered(answer', Duration, last)
                           THEN "accepted" ELSE "rejected"
  BY DEF RecoverTail, Ends
<1> QED BY <1>9, <1>10, <1>11

\* The invariant is inductive.
LEMMA TranscriptInvariance == TranscriptSpec => []TranscriptInv
<1>1. TranscriptInv /\ [TranscriptNext]_transcriptVars => TranscriptInv'
  <2> SUFFICES ASSUME TranscriptInv, [TranscriptNext]_transcriptVars PROVE TranscriptInv'
    OBVIOUS
  <2>1. CASE TranscriptNext
    BY <2>1, RouteKeeps, ScanFirstKeeps, ScanLastKeeps, TrimKeeps, DecodeKeeps, ValidateKeeps,
       RecoverKeeps DEF TranscriptNext
  <2>2. CASE UNCHANGED transcriptVars
    BY <2>2 DEF TranscriptInv, transcriptVars, Start, End, WellFormed, Covered, Gap, Reach, Duration
  <2> QED BY <2>1, <2>2
<1> QED BY TranscriptInitially, <1>1, PTL DEF TranscriptSpec

\* A recording is taken for silent only if it is; an accepted transcript was
\* decoded from all of the speech, and reaches to within the tolerance of its
\* end (whisper_server.go:333-336): for every recording, window and overlap.
THEOREM SpeechCovered == TranscriptSpec => []SpeechIsCovered
<1>1. TranscriptInv => SpeechIsCovered
  <2> SUFFICES ASSUME TranscriptInv, step = "accepted", speech # {}
               PROVE  /\ trim <= Start(speech)
                      /\ trim + Reach(answer, Duration) >= End(speech) - Tolerance
    BY DEF TranscriptInv, SpeechIsCovered
  <2>1. /\ length \in Nat /\ trim \in Nat /\ last \in Int /\ answer \in Seq(Segments)
        /\ trim <= Start(speech) /\ trim + last = End(speech)
        /\ WellFormed(answer, Duration) /\ Covered(answer, Duration, last)
    BY DEF TranscriptInv
  <2>2. Duration \in Int /\ answer # << >>
    BY <2>1 DEF Duration, WellFormed
  <2>3. Reach(answer, Duration) \in Int
    BY <2>1, <2>2, ReachIs
  <2>4. LargerOf(0, last - Reach(answer, Duration)) <= Tolerance
    BY <2>1 DEF Covered, Gap
  <2>5. last - Reach(answer, Duration) <= Tolerance
    BY <2>1, <2>3, <2>4, TranscriptNumbers DEF LargerOf
  <2> QED BY <2>1, <2>3, <2>5, TranscriptNumbers
<1> QED BY TranscriptInvariance, <1>1, PTL
(***************************************************************************)
(* Loops in a decoded text                                                 *)
(***************************************************************************)

\* A text of tokens with a gap behind each, and one before them.
TextWellFormed(t) == t.tokens \in Seq(Tokens) /\ DOMAIN t.gaps = 0..Len(t.tokens)

\* The text has the tokens and the neighbours of the decoded.
TextInv == TextWellFormed(text) /\ TokensKept

\* A block is no longer than the text has room for.
LEMMA RoomIs ==
    ASSUME NEW a \in Nat, NEW s \in Nat, s # 0, NEW n \in Nat, n <= a \div s
    PROVE  n * s <= a
<1>1. /\ a \div s \in Nat /\ (a \div s) * s <= a
  OBVIOUS
<1>2. n * s <= (a \div s) * s
  OBVIOUS
<1>3. n * s \in Nat /\ (a \div s) * s \in Nat
  OBVIOUS
<1> QED BY <1>1, <1>2, <1>3

\* The start of the next block.
LEMMA NextBlock ==
    ASSUME NEW n \in Nat, NEW s \in Nat
    PROVE  (n + 1) * s = n * s + s /\ n * s \in Nat
OBVIOUS

\* A block comes before a later one.
LEMMA BlocksOrdered ==
    ASSUME NEW i \in Nat, NEW n \in Nat, i < n, NEW s \in Nat
    PROVE  i * s + s <= n * s /\ i * s \in Nat /\ n * s \in Nat
<1>1. (i + 1) * s <= n * s
  OBVIOUS
<1>2. (i + 1) * s = i * s + s /\ i * s \in Nat /\ n * s \in Nat
  BY NextBlock
<1> QED BY <1>1, <1>2

Block(t, start, size, n) == SubSeq(t, start + n * size, start + (n + 1) * size - 1)
Room(t, start, size) == (Len(t) - start + 1) \div size

\* The choice of Repeats exists: a number of blocks that are equal and fit.
LEMMA RepeatsIs ==
    ASSUME NEW t \in Seq(Tokens), NEW start \in DOMAIN t, NEW size \in Nat, size # 0,
           start + 2 * size - 1 <= Len(t)
    PROVE  /\ Repeats(t, start, size) \in Nat /\ 1 <= Repeats(t, start, size)
           /\ Repeats(t, start, size) <= Room(t, start, size)
           /\ \A i \in 1..(Repeats(t, start, size) - 1) :
                  Block(t, start, size, i) = Block(t, start, size, 0)
<1> DEFINE room == Room(t, start, size)
           fits == 1..room
           Same(n) == \A i \in 1..(n - 1) : Block(t, start, size, i) = Block(t, start, size, 0)
           D == {n \in fits : Same(n)}
<1>1. start \in Nat /\ 1 <= start /\ start <= Len(t) /\ Len(t) \in Nat
  OBVIOUS
<1>2. Len(t) - start + 1 \in Nat /\ size <= Len(t) - start + 1
  BY <1>1
<1>3. room \in Nat /\ 1 <= room
  <2>1. ASSUME NEW a \in Nat, size <= a PROVE a \div size \in Nat /\ 1 <= a \div size
    BY <2>1
  <2> QED BY <1>2, <2>1 DEF Room
<1> HIDE DEF room
<1>4. 1 \in D /\ D \subseteq 0..room
  BY <1>3
<1>5. D # {}
  BY <1>4
<1>6. Max(D) \in D /\ \A e \in D : e <= Max(D)
  BY <1>3, <1>4, <1>5, MaxIs
<1>7. PICK m \in D : \A e \in D : e <= m
  BY <1>6
<1>8. m \in Nat /\ 1 <= m /\ m <= room /\ Same(m)
  BY <1>3, <1>7
<1>9. m + 1 \in fits => Block(t, start, size, m) # Block(t, start, size, 0)
  <2> SUFFICES ASSUME m + 1 \in fits, Block(t, start, size, m) = Block(t, start, size, 0)
               PROVE  FALSE
    OBVIOUS
  <2>1. \A i \in 1..((m + 1) - 1) : i \in 1..(m - 1) \/ i = m
    BY <1>8
  <2>2. Same(m + 1)
    BY <1>8, <2>1
  <2>3. m + 1 \in D
    BY <2>2
  <2> QED BY <1>7, <1>8, <2>3
<1>10. \E n \in fits :
           /\ \A i \in 1..(n - 1) : Block(t, start, size, i) = Block(t, start, size, 0)
           /\ n + 1 \in fits => Block(t, start, size, n) # Block(t, start, size, 0)
  BY <1>7, <1>8, <1>9
<1>11. Repeats(t, start, size) =
           CHOOSE n \in fits :
               /\ \A i \in 1..(n - 1) : Block(t, start, size, i) = Block(t, start, size, 0)
               /\ n + 1 \in fits => Block(t, start, size, n) # Block(t, start, size, 0)
  BY DEF Repeats, Block, Room, room
<1> HIDE DEF fits
<1>12. /\ Repeats(t, start, size) \in fits
       /\ \A i \in 1..(Repeats(t, start, size) - 1) :
              Block(t, start, size, i) = Block(t, start, size, 0)
  BY <1>10, <1>11
<1> QED BY <1>3, <1>12 DEF fits, room

\* w tokens are i blocks of that size.
Blocks(w, i, size) == w = i * size

\* The same token stands at both positions.
SameAt(t, p, q) == t[p] = t[q]

\* Every token of a repeated block is one of the first.
LEMMA SameTokens ==
    ASSUME NEW t \in Seq(Tokens), NEW start \in Nat, NEW size \in Nat, NEW i \in Nat,
           NEW w \in Nat, NEW o \in 0..(size - 1), Blocks(w, i, size), 1 <= start, size # 0,
           start + w + size - 1 <= Len(t), start + size - 1 <= Len(t),
           Block(t, start, size, i) = Block(t, start, size, 0)
    PROVE  SameAt(t, start + w + o, start + o)
<1> DEFINE a == start + w
<1>1. (i + 1) * size = w + size /\ i * size = w
  BY NextBlock DEF Blocks
<1>2. 0 * size = 0 /\ (0 + 1) * size = size
  OBVIOUS
<1>3. a \in Nat /\ 1 <= a /\ o \in Nat /\ o + 1 <= size
  BY <1>1
<1>4. Block(t, start, size, i) = SubSeq(t, a, a + size - 1)
  <2>1. start + (i + 1) * size - 1 = a + size - 1 /\ start + i * size = a
    BY <1>1
  <2> QED BY <2>1 DEF Block
<1>5. Block(t, start, size, 0) = SubSeq(t, start, start + size - 1)
  <2>1. start + 0 * size = start /\ start + (0 + 1) * size - 1 = start + size - 1
    BY <1>2
  <2> QED BY <2>1 DEF Block
<1>6. a + size - 1 <= Len(t)
  OBVIOUS
<1>7. Len(t) \in Nat
  OBVIOUS
<1> HIDE DEF a
<1>8. ASSUME NEW b \in Nat, 1 <= b, b + size - 1 <= Len(t)
      PROVE  SubSeq(t, b, b + size - 1)[o + 1] = t[b + o]
  <2>1. (b + size - 1) - b + 1 = size
    BY <1>3
  <2>2. o + 1 \in 1..size
    BY <1>3
  <2>3. \A i2 \in b..(b + size - 1) : i2 \in 1..Len(t)
    BY <1>7, <1>8
  <2>4. SubSeq(t, b, b + size - 1) = [k \in 1..((b + size - 1) - b + 1) |-> t[b + k - 1]]
    BY <1>7, <1>8
  <2>5. SubSeq(t, b, b + size - 1)[o + 1] = t[b + (o + 1) - 1]
    BY <2>1, <2>2, <2>4
  <2>6. b + (o + 1) - 1 = b + o
    BY <1>3
  <2> QED BY <2>5, <2>6
<1>9. SubSeq(t, a, a + size - 1)[o + 1] = t[a + o]
  BY <1>3, <1>6, <1>8
<1>10. SubSeq(t, start, start + size - 1)[o + 1] = t[start + o]
  BY <1>8
<1>11. t[a + o] = t[start + o]
  BY <1>4, <1>5, <1>9, <1>10
<1> QED BY <1>11 DEF a, SameAt

\* A cycle is a number of equal blocks in the text.
LEMMA CycleIs ==
    ASSUME NEW t \in Seq(Tokens), NEW c \in Cycles(t)
    PROVE  /\ c.start \in Nat /\ 1 <= c.start /\ c.size \in Nat /\ c.size # 0
           /\ c.repeats \in Nat /\ 1 <= c.repeats
           /\ Span(c) \in Nat /\ Span(c) = c.repeats * c.size
           /\ c.start + Span(c) - 1 <= Len(t)
           /\ c.start <= Len(t) /\ c.size <= MaxBlock /\ c.repeats <= Len(t)
           /\ \A i \in 1..(c.repeats - 1) : Block(t, c.start, c.size, i) = Block(t, c.start, c.size, 0)
<1>1. PICK p \in (DOMAIN t) \X (1..MaxBlock) :
          /\ p[1] + 2 * p[2] - 1 <= Len(t)
          /\ c = [start |-> p[1], size |-> p[2], repeats |-> Repeats(t, p[1], p[2])]
  BY DEF Cycles
<1>2. PICK start \in DOMAIN t, size \in 1..MaxBlock : start = p[1] /\ size = p[2]
  BY <1>1
<1>3. c.start = start /\ c.size = size /\ c.repeats = Repeats(t, start, size)
  BY <1>1, <1>2
<1>4. /\ start \in Nat /\ 1 <= start /\ start <= Len(t) /\ size \in Nat /\ size # 0
      /\ size <= MaxBlock /\ Len(t) \in Nat
  BY RepetitionConstants
<1>5. start + 2 * size - 1 <= Len(t)
  BY <1>1, <1>2
<1>6. PICK n : n = Repeats(t, start, size)
  OBVIOUS
<1>7. /\ n \in Nat /\ 1 <= n /\ n <= Room(t, start, size)
      /\ \A i \in 1..(n - 1) : Block(t, start, size, i) = Block(t, start, size, 0)
  BY <1>4, <1>5, <1>6, RepeatsIs
<1>8. Len(t) - start + 1 \in Nat
  BY <1>4
<1>9. n * size <= Len(t) - start + 1
  BY <1>4, <1>7, <1>8, RoomIs DEF Room
<1>10. Span(c) = n * size /\ n * size \in Nat
  <2>1. Span(c) = size * n
    BY <1>3, <1>6 DEF Span
  <2> QED BY <1>4, <1>7, <2>1
<1>11. n <= n * size
  BY <1>4, <1>7
<1>12. start + Span(c) - 1 <= Len(t) /\ n <= Len(t)
  BY <1>4, <1>7, <1>9, <1>10, <1>11
<1> QED BY <1>3, <1>4, <1>6, <1>7, <1>10, <1>12

\* A text with cycles has a strongest.
LEMMA StrongestIs ==
    ASSUME NEW t \in Seq(Tokens), Cycles(t) # {}
    PROVE  Strongest(t) \in Cycles(t)
<1> DEFINE R == {c.repeats : c \in Cycles(t)}
<1>1. Len(t) \in Nat /\ MaxBlock \in Nat
  BY RepetitionConstants
<1>2. R \subseteq 0..Len(t) /\ R # {}
  <2>1. ASSUME NEW c \in Cycles(t) PROVE c.repeats \in 0..Len(t)
    BY <1>1, CycleIs
  <2> QED BY <2>1
<1>3. PICK r \in R : \A e \in R : e <= r
  <2>1. Max(R) \in R /\ \A e \in R : e <= Max(R)
    BY <1>1, <1>2, MaxIs
  <2> QED BY <2>1
<1> DEFINE C1 == {c \in Cycles(t) : c.repeats = r}
           S  == {Span(c) : c \in C1}
<1>4. S \subseteq 0..Len(t) /\ S # {}
  <2>1. ASSUME NEW c \in C1 PROVE Span(c) \in 0..Len(t)
    <3>1. Span(c) \in Nat /\ c.start \in Nat /\ 1 <= c.start /\ c.start + Span(c) - 1 <= Len(t)
      BY CycleIs
    <3> QED BY <1>1, <3>1
  <2> QED BY <1>3, <2>1
<1>5. PICK m \in S : \A e \in S : e <= m
  <2>1. Max(S) \in S /\ \A e \in S : e <= Max(S)
    BY <1>1, <1>4, MaxIs
  <2> QED BY <2>1
<1> DEFINE C2 == {c \in C1 : Span(c) = m}
           A  == {c.start : c \in C2}
<1>6. A \subseteq Nat /\ A # {}
  BY <1>5, CycleIs
<1>7. PICK a \in A : \A e \in A : a <= e
  <2>1. Min(A) \in A /\ \A e \in A : Min(A) <= e
    BY <1>6, MinIs
  <2> QED BY <2>1
<1> DEFINE C3 == {c \in C2 : c.start = a}
           B  == {c.size : c \in C3}
<1>8. B \subseteq Nat /\ B # {}
  BY <1>7, CycleIs
<1>9. PICK b \in B : \A e \in B : b <= e
  <2>1. Min(B) \in B /\ \A e \in B : Min(B) <= e
    BY <1>8, MinIs
  <2> QED BY <2>1
<1>10. PICK c \in Cycles(t) : c.repeats = r /\ Span(c) = m /\ c.start = a /\ c.size = b
  BY <1>9
<1>11. ASSUME NEW d \in Cycles(t) PROVE Beats(c, d)
  <2>1. /\ d.repeats \in Nat /\ d.start \in Nat /\ d.size \in Nat /\ Span(d) \in Nat
        /\ c.repeats \in Nat /\ c.start \in Nat /\ c.size \in Nat /\ Span(c) \in Nat
    BY CycleIs
  <2>2. d.repeats <= c.repeats
    BY <1>3, <1>10
  <2>3. CASE d.repeats # c.repeats
    BY <2>1, <2>2, <2>3 DEF Beats
  <2>4. CASE d.repeats = c.repeats
    <3>1. d \in C1
      BY <1>10, <2>4
    <3>2. Span(d) <= Span(c)
      BY <1>5, <1>10, <3>1
    <3>3. CASE Span(d) # Span(c)
      BY <2>1, <2>4, <3>2, <3>3 DEF Beats
    <3>4. CASE Span(d) = Span(c)
      <4>1. d \in C2
        BY <1>10, <3>1, <3>4
      <4>2. c.start <= d.start
        BY <1>7, <1>10, <4>1
      <4>3. CASE d.start # c.start
        BY <2>1, <2>4, <3>4, <4>2, <4>3 DEF Beats
      <4>4. CASE d.start = c.start
        <5>1. d \in C3
          BY <1>10, <4>1, <4>4
        <5>2. c.size <= d.size
          BY <1>9, <1>10, <5>1
        <5> QED BY <2>1, <2>4, <3>4, <4>4, <5>2 DEF Beats
      <4> QED BY <4>3, <4>4
    <3> QED BY <3>3, <3>4
  <2> QED BY <2>3, <2>4
<1> QED BY <1>10, <1>11 DEF Strongest

\* A number of blocks is no shorter than one.
LEMMA OneOfMany ==
    ASSUME NEW n \in Nat, 1 <= n, NEW s \in Nat
    PROVE  s <= n * s /\ n * s \in Nat
<1>1. PICK m \in Nat : n = m + 1
  OBVIOUS
<1>2. (m + 1) * s = m * s + s /\ m * s \in Nat
  BY NextBlock
<1> QED BY <1>1, <1>2

\* Two texts one after the other.
LEMMA Joined ==
    ASSUME NEW r \in Seq(Tokens), NEW s \in Seq(Tokens)
    PROVE  /\ r \o s \in Seq(Tokens) /\ Len(r \o s) = Len(r) + Len(s)
           /\ \A i \in 1..Len(r) : (r \o s)[i] = r[i]
           /\ \A i \in (Len(r) + 1)..(Len(r) + Len(s)) : (r \o s)[i] = s[i - Len(r)]
OBVIOUS

\* u is t without the d tokens after position a.
Taken(t, a, d, u) == u = SubSeq(t, 1, a) \o SubSeq(t, a + d + 1, Len(t))

\* Every one of those tokens stands among the ones up to a as well.
Repeated(t, a, d) == \A p \in (a + 1)..(a + d) : \E q \in 1..a : t[p] = t[q]

\* What is left when the tokens between two positions are taken out.
LEMMA TakenOut ==
    ASSUME NEW t \in Seq(Tokens), NEW a \in Nat, NEW d \in Nat, a + d <= Len(t),
           NEW u, Taken(t, a, d, u)
    PROVE  /\ u \in Seq(Tokens) /\ Len(u) = Len(t) - d
           /\ \A i \in 1..a : u[i] = t[i]
           /\ \A i \in (a + 1)..(Len(t) - d) : u[i] = t[i + d]
<1> DEFINE z == a + d + 1
           s1 == SubSeq(t, 1, a)
           s2 == SubSeq(t, z, Len(t))
<1>1. /\ z \in Nat /\ 1 <= z /\ z <= Len(t) + 1 /\ a + d = z - 1
      /\ Len(t) \in Nat /\ a <= Len(t)
  OBVIOUS
<1>2. u = s1 \o s2
  BY DEF Taken
<1> HIDE DEF z
<1>3. /\ s1 \in Seq(Tokens) /\ Len(s1) = a /\ \A i \in 1..a : s1[i] = t[i]
  BY <1>1
<1>4. s2 \in Seq(Tokens)
  <2>1. \A i \in z..Len(t) : i \in 1..Len(t)
    BY <1>1
  <2> QED BY <1>1, <2>1
<1>5. Len(s2) = Len(t) - z + 1
  BY <1>1
<1>6. \A i \in 1..(Len(t) - z + 1) : s2[i] = t[z + i - 1]
  BY <1>1
<1> HIDE DEF s1, s2
<1>7. u \in Seq(Tokens) /\ Len(u) = a + (Len(t) - z + 1)
  <2>1. s1 \in Seq(Tokens) /\ s2 \in Seq(Tokens)
    BY <1>3, <1>4
  <2>2. s1 \o s2 \in Seq(Tokens) /\ Len(s1 \o s2) = Len(s1) + Len(s2)
    BY <2>1, Joined
  <2>3. Len(s1) + Len(s2) = a + (Len(t) - z + 1)
    BY <1>3, <1>5
  <2> QED BY <1>2, <2>2, <2>3
<1>8. Len(t) - d = a + (Len(t) - z + 1)
  BY <1>1
<1>9. ASSUME NEW i \in 1..a PROVE u[i] = t[i]
  <2>1. (s1 \o s2)[i] = s1[i]
    BY <1>3, <1>4, Joined
  <2> QED BY <1>2, <1>3, <2>1
<1>10. ASSUME NEW i \in (a + 1)..(Len(t) - d) PROVE u[i] = t[i + d]
  <2>1. i \in Nat /\ i - a \in 1..(Len(t) - z + 1) /\ i > a
    BY <1>1, <1>8
  <2>2. (s1 \o s2)[i] = s2[i - a]
    <3>1. i \in (Len(s1) + 1)..(Len(s1) + Len(s2))
      BY <1>3, <1>5, <1>8
    <3> QED BY <1>3, <1>4, <3>1, Joined
  <2>3. z + (i - a) - 1 = i + d
    BY <1>1, <2>1
  <2>4. s2[i - a] = t[z + (i - a) - 1]
    BY <1>6, <2>1
  <2> QED BY <1>2, <2>2, <2>3, <2>4
<1> QED BY <1>7, <1>8, <1>9, <1>10

\* The same tokens, and no new neighbours.
AsSpoken(t, u) == {u[i] : i \in DOMAIN u} = {t[i] : i \in DOMAIN t} /\ Pairs(u) \subseteq Pairs(t)

\* Tokens that repeat others may be taken out: if every one taken stands elsewhere
\* in what is left, and the last before the gap equals the last of the gap, no word
\* and no pair is lost or made.
LEMMA RepetitionTaken ==
    ASSUME NEW t \in Seq(Tokens), NEW a \in Nat, NEW d \in Nat, 1 <= a, a + d <= Len(t),
           NEW u, Taken(t, a, d, u), Repeated(t, a, d), t[a] = t[a + d]
    PROVE  u \in Seq(Tokens) /\ Len(u) = Len(t) - d /\ AsSpoken(t, u)
<1>1. /\ u \in Seq(Tokens) /\ Len(u) = Len(t) - d
      /\ \A i \in 1..a : u[i] = t[i]
      /\ \A i \in (a + 1)..(Len(t) - d) : u[i] = t[i + d]
  BY TakenOut
<1>2. Len(t) \in Nat /\ DOMAIN t = 1..Len(t) /\ DOMAIN u = 1..(Len(t) - d) /\ a <= Len(t) - d
  BY <1>1
<1>3. ASSUME NEW i \in DOMAIN u PROVE \E j \in DOMAIN t : u[i] = t[j]
  <2>1. CASE i <= a
    <3>1. i \in 1..a /\ i \in 1..Len(t)
      BY <1>2, <2>1
    <3> QED BY <1>1, <1>2, <3>1
  <2>2. CASE i > a
    <3>1. i \in (a + 1)..(Len(t) - d) /\ i + d \in 1..Len(t)
      BY <1>2, <2>2
    <3> QED BY <1>1, <1>2, <3>1
  <2>3. i <= a \/ i > a
    BY <1>2
  <2> QED BY <2>1, <2>2, <2>3
<1>4. ASSUME NEW j \in DOMAIN t PROVE \E i \in DOMAIN u : t[j] = u[i]
  <2>1. \A q \in 1..a : q \in DOMAIN u /\ t[q] = u[q]
    BY <1>1, <1>2
  <2>2. CASE j <= a
    <3>1. j \in 1..a
      BY <1>2, <2>2
    <3> QED BY <2>1, <3>1
  <2>3. CASE j > a /\ j <= a + d
    <3>1. j \in (a + 1)..(a + d)
      BY <1>2, <2>3
    <3> QED BY <2>1, <3>1 DEF Repeated
  <2>4. CASE j > a + d
    <3>1. j - d \in (a + 1)..(Len(t) - d) /\ j - d \in 1..(Len(t) - d) /\ (j - d) + d = j
      BY <1>2, <2>4
    <3>2. u[j - d] = t[(j - d) + d]
      BY <1>1, <3>1
    <3>3. u[j - d] = t[j]
      BY <3>1, <3>2
    <3> QED BY <1>2, <3>1, <3>3
  <2>5. j <= a \/ (j > a /\ j <= a + d) \/ j > a + d
    BY <1>2
  <2> QED BY <2>2, <2>3, <2>4, <2>5
<1>5. ASSUME NEW i \in 1..(Len(u) - 1) PROVE <<u[i], u[i + 1]>> \in Pairs(t)
  <2>1. /\ i \in Nat /\ 1 <= i /\ i + 1 \in Nat /\ i + 1 <= Len(t) - d
    BY <1>1, <1>2
  <2>2. \A k \in 1..(Len(t) - 1) : <<t[k], t[k + 1]>> \in Pairs(t)
    BY DEF Pairs
  <2>3. CASE i + 1 <= a
    <3>1. i \in 1..a /\ i + 1 \in 1..a /\ i \in 1..(Len(t) - 1)
      BY <1>2, <2>1, <2>3
    <3>2. u[i] = t[i] /\ u[i + 1] = t[i + 1]
      BY <1>1, <3>1
    <3> QED BY <2>2, <3>1, <3>2
  <2>4. CASE i = a
    <3>1. i \in 1..a /\ i + 1 \in (a + 1)..(Len(t) - d) /\ a + d \in 1..(Len(t) - 1)
          /\ (i + 1) + d = (a + d) + 1
      BY <1>2, <2>1, <2>4
    <3>2. u[i] = t[i]
      BY <1>1, <3>1
    <3>3. u[i] = t[a + d]
      BY <2>4, <3>2
    <3>4. u[i + 1] = t[(i + 1) + d]
      BY <1>1, <3>1
    <3>5. u[i + 1] = t[(a + d) + 1]
      BY <3>1, <3>4
    <3> QED BY <2>2, <3>1, <3>3, <3>5
  <2>5. CASE i > a
    <3>1. i \in (a + 1)..(Len(t) - d) /\ i + 1 \in (a + 1)..(Len(t) - d)
          /\ i + d \in 1..(Len(t) - 1) /\ (i + 1) + d = (i + d) + 1
      BY <1>2, <2>1, <2>5
    <3>2. u[i] = t[i + d] /\ u[i + 1] = t[(i + 1) + d]
      BY <1>1, <3>1
    <3>3. u[i + 1] = t[(i + d) + 1]
      BY <3>1, <3>2
    <3> QED BY <2>2, <3>1, <3>2, <3>3
  <2>6. i + 1 <= a \/ i = a \/ i > a
    BY <2>1
  <2> QED BY <2>3, <2>4, <2>5, <2>6
<1>6. {u[i] : i \in DOMAIN u} = {t[i] : i \in DOMAIN t}
  BY <1>3, <1>4
<1>7. Pairs(u) \subseteq Pairs(t)
  <2> DEFINE P == Pairs(t)
  <2> HIDE DEF P
  <2>1. \A i \in 1..(Len(u) - 1) : <<u[i], u[i + 1]>> \in P
    BY <1>5 DEF P
  <2>2. Pairs(u) \subseteq P
    BY <2>1 DEF Pairs
  <2> QED BY <2>2 DEF P
<1> QED BY <1>1, <1>6, <1>7 DEF AsSpoken

\* The p-th token lies in one of the first n blocks.
InBlock(p, n, s) ==
    \E i \in Nat, w \in Nat, o \in 0..(s - 1) : i < n /\ Blocks(w, i, s) /\ p = w + o

\* A position in the blocks of a cycle lies in one of them.
LEMMA BlockOf ==
    ASSUME NEW n \in Nat, NEW s \in Nat, NEW z \in Nat, NEW p \in Nat,
           Blocks(z, n, s), s # 0, p < z
    PROVE  InBlock(p, n, s)
<1> DEFINE K == {k \in Nat : p < (k + 1) * s}
<1>1. n # 0
  <2>1. 0 * s = 0
    OBVIOUS
  <2>2. n = 0 => z = 0
    BY <2>1 DEF Blocks
  <2> QED BY <2>2
<1>2. PICK m \in Nat : n = m + 1
  BY <1>1
<1>3. m \in K /\ K \subseteq Nat
  <2>1. z = (m + 1) * s
    BY <1>2 DEF Blocks
  <2> QED BY <2>1
<1>4. K # {}
  BY <1>3
<1>5. PICK k \in K : \A e \in K : k <= e
  <2>1. Min(K) \in K /\ \A e \in K : Min(K) <= e
    BY <1>3, <1>4, MinIs
  <2> QED BY <2>1
<1>6. k \in Nat /\ k <= m /\ p < (k + 1) * s
  BY <1>3, <1>5
<1>7. (k + 1) * s = k * s + s /\ k * s \in Nat
  BY <1>6, NextBlock
<1>8. k * s <= p
  <2>1. CASE k = 0
    <3>1. 0 * s = 0
      OBVIOUS
    <3> QED BY <2>1, <3>1
  <2>2. CASE k # 0
    <3>1. PICK j \in Nat : k = j + 1
      BY <1>6, <2>2
    <3>2. j \notin K
      <4>1. ~(k <= j)
        BY <3>1
      <4> QED BY <1>5, <4>1
    <3>3. ~(p < (j + 1) * s)
      BY <3>2
    <3>4. ~(p < k * s)
      BY <3>1, <3>3
    <3> QED BY <1>7, <3>4
  <2> QED BY <2>1, <2>2
<1>9. p < k * s + s
  BY <1>6, <1>7
<1>10. p - k * s \in 0..(s - 1) /\ p = k * s + (p - k * s)
  BY <1>7, <1>8, <1>9
<1>11. k < n
  BY <1>2, <1>6
<1>12. PICK w \in Nat : w = k * s /\ Blocks(w, k, s)
  BY <1>7 DEF Blocks
<1> QED BY <1>6, <1>10, <1>11, <1>12 DEF InBlock

\* All blocks of a cycle but the first may be taken out.
LEMMA BlocksTaken ==
    ASSUME NEW t \in Seq(Tokens), NEW c \in Cycles(t),
           NEW u, Taken(t, c.start + c.size - 1, Span(c) - c.size, u)
    PROVE  u \in Seq(Tokens) /\ Len(u) = Len(t) - (Span(c) - c.size) /\ AsSpoken(t, u)
<1>1. PICK b \in Nat, s \in Nat, n \in Nat : b = c.start /\ s = c.size /\ n = c.repeats
  BY CycleIs
<1>2. /\ 1 <= b /\ s # 0 /\ 1 <= n
      /\ Span(c) = n * s /\ b + n * s - 1 <= Len(t)
      /\ \A i \in 1..(n - 1) : Block(t, b, s, i) = Block(t, b, s, 0)
  BY <1>1, CycleIs
<1>3. s <= n * s /\ n * s \in Nat
  BY <1>2, OneOfMany
<1>4. PICK m \in Nat : m = n * s
  BY <1>3
<1>5. PICK a \in Nat, d \in Nat : a = b + s - 1 /\ d = m - s
  BY <1>2, <1>3, <1>4
<1>6. /\ 1 <= a /\ a + d = b + m - 1 /\ a + d <= Len(t) /\ a + d + 1 = b + m
      /\ Len(t) \in Nat
  BY <1>2, <1>3, <1>4, <1>5
<1>7. ASSUME NEW i \in Nat, i < n, NEW w \in Nat, Blocks(w, i, s), NEW o \in 0..(s - 1)
      PROVE  t[b + w + o] = t[b + o]
  <2>1. w + s <= m
    <3>1. i * s + s <= n * s
      BY <1>7, BlocksOrdered
    <3>2. w = i * s
      BY <1>7 DEF Blocks
    <3> QED BY <1>4, <3>1, <3>2
  <2>2. b + w + s - 1 <= Len(t)
    BY <1>4, <1>6, <2>1
  <2>3. b + s - 1 <= Len(t)
    BY <1>5, <1>6
  <2>4. Block(t, b, s, i) = Block(t, b, s, 0)
    <3>1. CASE i = 0
      BY <3>1
    <3>2. CASE i # 0
      <4>1. i \in 1..(n - 1)
        BY <1>7, <3>2
      <4> QED BY <1>2, <4>1
    <3> QED BY <3>1, <3>2
  <2>5. 1 <= b /\ s # 0
    BY <1>2
  <2>6. SameAt(t, b + w + o, b + o)
    BY <1>7, <2>2, <2>3, <2>4, <2>5, SameTokens
  <2> QED BY <2>6 DEF SameAt
<1>8. ASSUME NEW p \in (a + 1)..(a + d) PROVE \E q \in 1..a : t[p] = t[q]
  <2>1. PICK e \in Nat : e = p - b /\ e < m
    BY <1>2, <1>5, <1>6
  <2>2. PICK i \in Nat, w \in Nat, o \in 0..(s - 1) : i < n /\ Blocks(w, i, s) /\ e = w + o
    <3>1. s # 0 /\ e < m
      BY <1>2, <2>1
    <3>2. Blocks(m, n, s)
      BY <1>4 DEF Blocks
    <3>3. InBlock(e, n, s)
      BY <3>1, <3>2, BlockOf
    <3> QED BY <3>3 DEF InBlock
  <2>3. t[b + w + o] = t[b + o]
    BY <1>7, <2>2
  <2>5. p = b + w + o /\ b + o \in 1..a
    <3>1. e = w + o /\ e = p - b
      BY <2>1, <2>2
    <3> QED BY <1>2, <1>5, <3>1
  <2> QED BY <2>3, <2>5
<1>9. t[a] = t[a + d]
  <2>1. PICK j \in Nat : n = j + 1
    BY <1>2
  <2>2. j < n /\ s - 1 \in 0..(s - 1)
    BY <1>2, <2>1
  <2>4. (j + 1) * s = j * s + s /\ j * s \in Nat
    BY NextBlock
  <2>7. PICK w \in Nat : w = j * s /\ Blocks(w, j, s)
    BY <2>4 DEF Blocks
  <2>3. t[b + w + (s - 1)] = t[b + (s - 1)]
    BY <1>7, <2>2, <2>7
  <2>5. m = w + s
    BY <1>4, <2>1, <2>4, <2>7
  <2>6. b + w + (s - 1) = a + d /\ b + (s - 1) = a
    BY <1>5, <1>6, <2>4, <2>5
  <2> QED BY <2>3, <2>6
<1>10. c.start + c.size - 1 = a /\ Span(c) - c.size = d
  BY <1>1, <1>2, <1>4, <1>5, <1>6
<1>11. Taken(t, a, d, u)
  BY <1>10
<1>12. Repeated(t, a, d)
  BY <1>8 DEF Repeated
<1>13. u \in Seq(Tokens) /\ Len(u) = Len(t) - d /\ AsSpoken(t, u)
  <2>1. 1 <= a /\ a + d <= Len(t)
    BY <1>6
  <2> QED BY <1>9, <1>11, <1>12, <2>1, RepetitionTaken
<1> QED BY <1>10, <1>13

\* A cut takes tokens that repeat the first block of the cycle.
LEMMA CutKeeps ==
    ASSUME NEW t \in Seq(Tokens), t = text.tokens, NEW c \in Cycles(t),
           NEW u, u = Cut(c).tokens
    PROVE  u \in Seq(Tokens) /\ DOMAIN Cut(c).gaps = 0..Len(u) /\ AsSpoken(t, u)
<1>1. PICK a \in Nat, d \in Nat : a = c.start + c.size - 1 /\ d = Span(c) - c.size
  <2>1. /\ c.start \in Nat /\ 1 <= c.start /\ c.size \in Nat /\ c.repeats \in Nat
        /\ 1 <= c.repeats /\ Span(c) = c.repeats * c.size
    BY CycleIs
  <2>2. c.size <= c.repeats * c.size /\ c.repeats * c.size \in Nat
    BY <2>1, OneOfMany
  <2> QED BY <2>1, <2>2
<1>2. Taken(t, a, d, u) /\ DOMAIN Cut(c).gaps = 0..(Len(t) - d)
  BY <1>1 DEF Cut, Without, Taken
<1>3. Taken(t, c.start + c.size - 1, Span(c) - c.size, u)
  BY <1>1, <1>2
<1>4. u \in Seq(Tokens) /\ Len(u) = Len(t) - d /\ AsSpoken(t, u)
  BY <1>1, <1>3, BlocksTaken
<1> QED BY <1>2, <1>4

\* A line that repeats the one before it is dropped without a token lost.
LEMMA DropKeeps ==
    ASSUME NEW t \in Seq(Tokens), t = text.tokens, DOMAIN text.gaps = 0..Len(t),
           NEW e \in Breaks(text), RepeatsLine(text, e), NEW u, u = UpTo(text, e).tokens
    PROVE  /\ u \in Seq(Tokens) /\ DOMAIN UpTo(text, e).gaps = 0..Len(u)
           /\ AsSpoken(t, u)
<1>1. PICK a \in 0..Len(t) : a = e[1]
  BY DEF Breaks
<1>2. a \in Nat /\ a <= Len(t) /\ Len(t) \in Nat
  BY <1>1
<1>3. u = SubSeq(t, 1, a)
  BY <1>1 DEF UpTo
<1>4. u \in Seq(Tokens) /\ Len(u) = a
  BY <1>2, <1>3
<1>5. DOMAIN UpTo(text, e).gaps = 0..Len(u)
  BY <1>1, <1>4 DEF UpTo
<1>6. PICK y \in 0..a : SubSeq(t, a + 1, Len(t)) = SubSeq(t, y + 1, a)
  <2>1. PICK y \in {0} \cup {c[1] : c \in {c \in Breaks(text) : Before(c, e)}} :
            SubSeq(t, a + 1, Len(t)) = SubSeq(t, y + 1, a)
    BY <1>1 DEF RepeatsLine
  <2>2. CASE y = 0
    <3>1. y \in 0..a
      BY <1>2, <2>2
    <3> QED BY <2>1, <3>1
  <2>3. CASE y # 0
    <3>1. PICK c \in Breaks(text) : y = c[1] /\ Before(c, e)
      BY <2>1, <2>3
    <3>2. c[1] \in 0..Len(t)
      BY DEF Breaks
    <3>3. y \in 0..a
      BY <1>1, <1>2, <3>1, <3>2 DEF Before
    <3> QED BY <2>1, <3>3
  <2> QED BY <2>2, <2>3
<1>7. PICK n \in Nat : n = Len(t) - a
  <2>1. Len(t) - a \in Nat
    BY <1>2
  <2> QED BY <2>1
<1>8. a + n = Len(t) /\ y + n = a /\ y \in Nat
  <2>1. Len(SubSeq(t, a + 1, Len(t))) = Len(t) - a
    BY <1>2
  <2>2. Len(SubSeq(t, y + 1, a)) = a - y
    BY <1>2
  <2>3. Len(t) - a = a - y
    BY <1>6, <2>1, <2>2
  <2> QED BY <1>2, <1>7, <2>3
<1>9. CASE n = 0
  <2>1. a = Len(t) /\ u = t
    BY <1>2, <1>3, <1>7, <1>9
  <2> QED BY <1>5, <2>1 DEF AsSpoken
<1>10. CASE n # 0
  <2>1. 1 <= n /\ 1 <= a
    BY <1>8, <1>10
  <2>2. ASSUME NEW z \in Nat, z + n <= Len(t), NEW o \in 1..n
        PROVE  SubSeq(t, z + 1, z + n)[o] = t[z + o]
    BY <1>2, <2>2
  <2>3. SubSeq(t, a + 1, a + n) = SubSeq(t, y + 1, y + n)
    BY <1>6, <1>8
  <2>4. ASSUME NEW o \in 1..n PROVE t[a + o] = t[y + o]
    <3>1. SubSeq(t, a + 1, a + n)[o] = t[a + o]
      BY <1>8, <2>2
    <3>2. SubSeq(t, y + 1, y + n)[o] = t[y + o]
      BY <1>2, <1>8, <2>2
    <3> QED BY <2>3, <3>1, <3>2
  <2>5. ASSUME NEW p \in (a + 1)..(a + n) PROVE \E q \in 1..a : t[p] = t[q]
    <3>1. p - a \in 1..n /\ a + (p - a) = p /\ y + (p - a) \in 1..a
      BY <1>2, <1>8
    <3>2. t[a + (p - a)] = t[y + (p - a)]
      BY <2>4, <3>1
    <3> QED BY <3>1, <3>2
  <2>6. t[a] = t[a + n]
    <3>1. t[a + n] = t[y + n]
      BY <2>1, <2>4
    <3> QED BY <1>8, <3>1
  <2>7. Taken(t, a, n, u)
    <3>1. SubSeq(t, a + n + 1, Len(t)) = << >>
      BY <1>2, <1>8
    <3>2. \A r \in Seq(Tokens) : r \o << >> = r
      OBVIOUS
    <3> QED BY <1>3, <1>4, <3>1, <3>2 DEF Taken
  <2>8. Repeated(t, a, n)
    BY <2>5 DEF Repeated
  <2>9. a + n <= Len(t)
    BY <1>2, <1>8
  <2>10. AsSpoken(t, u)
    BY <1>2, <2>1, <2>6, <2>7, <2>8, <2>9, RepetitionTaken
  <2> QED BY <1>4, <1>5, <2>10
<1> QED BY <1>9, <1>10

\* A step that leaves the tokens and makes no pair keeps them.
LEMMA TextStep ==
    ASSUME TextInv, [RepetitionNext]_repetitionVars
    PROVE  TextInv'
<1>1. text.tokens \in Seq(Tokens) /\ DOMAIN text.gaps = 0..Len(text.tokens)
  BY DEF TextInv, TextWellFormed
<1>2. decoded' = decoded
  BY DEF RepetitionNext, repetitionVars, DropLine, LinesDone, CollapseLoop, AcceptText
<1>3. TextWellFormed(text') /\ AsSpoken(text.tokens, text'.tokens)
  <2>1. CASE DropLine
    <3>1. PICK e \in Breaks(text) : RepeatsLine(text, e) /\ text' = UpTo(text, e)
      BY <2>1 DEF DropLine
    <3>2. PICK t \in Seq(Tokens) : t = text.tokens
      BY <1>1
    <3>3. PICK u : u = UpTo(text, e).tokens
      OBVIOUS
    <3>4. u \in Seq(Tokens) /\ DOMAIN UpTo(text, e).gaps = 0..Len(u) /\ AsSpoken(t, u)
      BY <1>1, <3>1, <3>2, <3>3, DropKeeps
    <3>5. u = text'.tokens /\ DOMAIN text'.gaps = 0..Len(u)
      BY <3>1, <3>3, <3>4
    <3> QED BY <3>2, <3>4, <3>5 DEF TextWellFormed
  <2>2. CASE text' = text
    BY <1>1, <2>2 DEF AsSpoken, TextWellFormed
  <2>3. CASE CollapseLoop
    <3>1. Extreme(text.tokens) /\ text' = Cut(Strongest(text.tokens))
      BY <2>3 DEF CollapseLoop
    <3>2. PICK t \in Seq(Tokens) : t = text.tokens
      BY <1>1
    <3>3. PICK c \in Cycles(t) : c = Strongest(t)
      BY <3>1, <3>2, StrongestIs DEF Extreme
    <3>4. PICK u : u = Cut(c).tokens
      OBVIOUS
    <3>5. u \in Seq(Tokens) /\ DOMAIN Cut(c).gaps = 0..Len(u) /\ AsSpoken(t, u)
      BY <3>2, <3>4, CutKeeps
    <3>6. u = text'.tokens /\ DOMAIN text'.gaps = 0..Len(u)
      <4>1. text' = Cut(c)
        BY <3>1, <3>2, <3>3
      <4> HIDE DEF Cut
      <4> QED BY <3>4, <3>5, <4>1
    <3> QED BY <3>2, <3>5, <3>6 DEF TextWellFormed
  <2>4. DropLine \/ CollapseLoop \/ text' = text
    BY DEF RepetitionNext, repetitionVars, LinesDone, AcceptText
  <2> QED BY <2>1, <2>2, <2>3, <2>4
<1> QED BY <1>2, <1>3 DEF TextInv, TextWellFormed, TokensKept, AsSpoken, TokensOf

\* Whatever lines are dropped and loops cut, in whatever order, every token that was
\* spoken is left and no two tokens follow each other that did not before
\* (whisper_server.go:1155-1158); the words of other scripts between them may be lost.
THEOREM TokensAreKept == LoopsSpec => []TokensKept
<1>1. RepetitionInit => TextInv
  <2> SUFFICES ASSUME RepetitionInit PROVE TextInv
    OBVIOUS
  <2>1. PICK n \in 0..MaxTokens : \E s \in [1..n -> Tokens], g \in GapsOf(n) :
            text = [tokens |-> s, gaps |-> g] /\ decoded = text
    BY DEF RepetitionInit
  <2>2. PICK s \in [1..n -> Tokens], g \in GapsOf(n) :
            text = [tokens |-> s, gaps |-> g] /\ decoded = text
    BY <2>1
  <2>3. n \in Nat
    BY RepetitionConstants
  <2>4. s \in Seq(Tokens) /\ Len(s) = n
    BY <2>1, <2>3
  <2>5. DOMAIN g = 0..n
    BY DEF GapsOf
  <2>6. text.tokens = s /\ text.gaps = g
    BY <2>2
  <2> QED BY <2>2, <2>4, <2>5, <2>6 DEF TextInv, TextWellFormed, TokensKept
<1>2. TextInv /\ [RepetitionNext]_repetitionVars => TextInv'
  BY TextStep
<1>3. TextInv => TokensKept
  BY DEF TextInv
<1> QED BY <1>1, <1>2, <1>3, PTL DEF LoopsSpec

(***************************************************************************)
(* Agent view: an update leaves what a rebuild would, as long as the       *)
(* archive only grew                                                       *)
(***************************************************************************)

\* Only a revision repeats a message that is already in the archive.
FirstOfItsMessage ==
    \A i \in DOMAIN archive :
        ~archive[i].revision => \A j \in 1..i - 1 : archive[j].id # archive[i].id

\* What the view shows is what the first n lines of the archive make of it.
DaysShow(n)   == \A r \in Line : days[r] = IF r \in Latest(n) THEN 1 ELSE 0
RecentShow(n) == recent = Newest(Latest(n))

\* The archive stands still while a view is written.
ViewAlone ==
    /\ view # "idle" => ~pending
    /\ fresh => view = "idle" /\ ~pending

\* A rebuild begins with no manifest, and writes the whole view before it.
Rebuilding ==
    /\ view \in {"write", "record"} => manifest = NoManifest
    /\ view = "record" => DaysShow(Len(archive)) /\ RecentShow(Len(archive))

\* An update begins with a manifest that ends where a line does, and adds no
\* revision.
Updating ==
    view \in {"append", "index", "extend"} =>
        /\ manifest.is = "whole" /\ AtBoundary(manifest.size)
        /\ \A i \in Gained : ~archive[i].revision

\* A manifest that nothing spoiled stands for the first lines of the archive, and
\* so do the files; those that the update at hand has written, for all lines.
Remembered ==
    ~tainted /\ manifest.is = "whole" =>
        \E n \in 0..Len(archive) :
           /\ manifest.size = SizeTo(n) /\ manifest.recent = Newest(Latest(n))
           /\ DaysShow(IF view \in {"index", "extend"} THEN Len(archive) ELSE n)
           /\ RecentShow(IF view = "extend" THEN Len(archive) ELSE n)

ViewInv ==
    /\ ViewTypeOK /\ FirstOfItsMessage /\ ViewAlone
    /\ Rebuilding /\ Updating /\ Remembered /\ UpdateIsRebuild

\* The lines of the archive.
LEMMA LinesAre ==
    ASSUME ViewTypeOK
    PROVE  /\ archive \in Seq(Line) /\ Len(archive) \in Nat /\ DOMAIN archive = 1..Len(archive)
           /\ \A i \in 1..Len(archive) : archive[i] \in Line /\ archive[i].id \in MessageIDs
<1>1. archive \in Seq(Line)
  BY DEF ViewTypeOK
<1>2. \A i \in DOMAIN archive : archive[i] \in Line
  BY <1>1
<1> QED BY <1>1, <1>2 DEF Line

\* Counting lines.
LEMMA LinesCount ==
    ASSUME ViewTypeOK, NEW lines, lines \subseteq 1..Len(archive)
    PROVE  /\ IsFiniteSet(lines) /\ Cardinality(lines) \in Nat
           /\ Cardinality(lines) <= Len(archive)
<1>1. Len(archive) \in Nat
  BY LinesAre
<1>2. IsFiniteSet(1..Len(archive)) /\ Cardinality(1..Len(archive)) = Len(archive)
  BY <1>1, FS_Interval
<1>3. IsFiniteSet(lines) /\ Cardinality(lines) <= Cardinality(1..Len(archive))
  BY <1>2, FS_Subset
<1> QED BY <1>2, <1>3, FS_CardinalityType

\* More lines are a larger file.
LEMMA SizesRise ==
    ASSUME ViewTypeOK
    PROVE  /\ \A n \in 0..Len(archive) : SizeTo(n) \in Nat
           /\ \A n, m \in 0..Len(archive) : n < m => SizeTo(n) < SizeTo(m)
<1> DEFINE Long(n) == {i \in 1..n : archive[i].v = 2}
<1>1. Len(archive) \in Nat
  BY LinesAre
<1>2. ASSUME NEW n \in 0..Len(archive)
      PROVE  IsFiniteSet(Long(n)) /\ Cardinality(Long(n)) \in Nat
  <2>1. Long(n) \subseteq 1..Len(archive)
    BY <1>1
  <2> HIDE DEF Long
  <2> QED BY <2>1, LinesCount
<1>3. ASSUME NEW n \in 0..Len(archive), NEW m \in 0..Len(archive), n < m
      PROVE  SizeTo(n) < SizeTo(m)
  <2>1. Long(n) \subseteq Long(m)
    BY <1>1, <1>3
  <2>2. SizeTo(n) = n + Cardinality(Long(n)) /\ SizeTo(m) = m + Cardinality(Long(m))
    BY DEF SizeTo
  <2> HIDE DEF Long
  <2>3. Cardinality(Long(n)) <= Cardinality(Long(m))
    BY <1>2, <2>1, FS_Subset
  <2> QED BY <1>1, <1>2, <1>3, <2>2, <2>3
<1>4. ASSUME NEW n \in 0..Len(archive) PROVE SizeTo(n) \in Nat
  <2>1. SizeTo(n) = n + Cardinality(Long(n))
    BY DEF SizeTo
  <2> HIDE DEF Long
  <2> QED BY <1>1, <1>2, <2>1
<1> QED BY <1>3, <1>4

\* A size tells how many lines it stands for.
LEMMA SizeTells ==
    ASSUME ViewTypeOK, NEW n \in 0..Len(archive)
    PROVE  /\ \A m \in 0..Len(archive) : SizeTo(m) = SizeTo(n) => m = n
           /\ LinesBefore(SizeTo(n)) = n
<1>1. Len(archive) \in Nat
  BY LinesAre
<1>2. ASSUME NEW m \in 0..Len(archive), SizeTo(m) = SizeTo(n) PROVE m = n
  <2>1. ~(m < n) /\ ~(n < m)
    BY <1>2, SizesRise
  <2> QED BY <1>1, <2>1
<1>3. \E m \in 0..Len(archive) : SizeTo(m) = SizeTo(n)
  OBVIOUS
<1> QED BY <1>2, <1>3 DEF LinesBefore

\* What the first n lines show is some of the lines.
LEMMA LatestIs ==
    ASSUME ViewTypeOK, NEW n \in 0..Len(archive)
    PROVE  Latest(n) \subseteq Line /\ IsFiniteSet(Latest(n))
<1> DEFINE final == {i \in Visible \cap 1..n : \A j \in i + 1..n : archive[j].id # archive[i].id}
<1>1. final \subseteq 1..Len(archive) /\ Latest(n) = {archive[i] : i \in final}
  BY LinesAre DEF Latest
<1> HIDE DEF final
<1>2. IsFiniteSet(final)
  BY <1>1, LinesCount
<1> DEFINE lines == {archive[i] : i \in final}
           line  == [i \in final |-> archive[i]]
<1>3. line \in Surjection(final, lines)
  <2>1. line \in [final -> lines] /\ \A r \in lines : \E i \in final : line[i] = r
    OBVIOUS
  <2> QED BY <2>1 DEF Surjection
<1> HIDE DEF lines, line
<1>4. IsFiniteSet(lines)
  BY <1>2, <1>3, FS_Surjection
<1>5. lines \subseteq Line
  BY <1>1, LinesAre DEF lines
<1> QED BY <1>1, <1>4, <1>5 DEF lines

\* Lines that are no revisions show, besides what the lines before them show.
LEMMA LatestGrows ==
    ASSUME ViewTypeOK, FirstOfItsMessage, NEW n \in 0..Len(archive),
           \A i \in Visible \cap n + 1..Len(archive) : ~archive[i].revision
    PROVE  /\ Latest(Len(archive)) =
                  Latest(n) \cup {archive[i] : i \in Visible \cap n + 1..Len(archive)}
           /\ \A i \in Visible \cap n + 1..Len(archive) : archive[i] \notin Latest(n)
           /\ \A i, k \in Visible \cap n + 1..Len(archive) : archive[i] = archive[k] => i = k
<1> DEFINE m == Len(archive)
           new == Visible \cap n + 1..m
           final(k) == {i \in Visible \cap 1..k : \A j \in i + 1..k : archive[j].id # archive[i].id}
<1>1. /\ m \in Nat /\ n \in Nat /\ n <= m
      /\ DOMAIN archive = 1..m /\ Visible \subseteq 1..m
  BY LinesAre DEF Visible
<1>2. \A i \in new : i \in 1..m /\ i \in Visible /\ n < i /\ i \notin 1..n
  BY <1>1
<1>3. ASSUME NEW i \in new, NEW j \in 1..i - 1 PROVE archive[j].id # archive[i].id
  BY <1>1, <1>2 DEF FirstOfItsMessage
<1>4. ASSUME NEW i \in 1..m, NEW j \in new, i < j PROVE archive[i].id # archive[j].id
  BY <1>1, <1>2, <1>3, <1>4
<1>5. ASSUME NEW i \in Visible, NEW j \in 1..m, archive[i].id = archive[j].id PROVE j \in Visible
  BY <1>1, <1>5 DEF Visible
<1>6. final(m) = final(n) \cup new
  <2>1. ASSUME NEW i \in final(m), i \notin new PROVE i \in final(n)
    BY <1>1, <2>1
  <2>2. ASSUME NEW i \in final(n) PROVE i \in final(m)
    <3> SUFFICES ASSUME NEW j \in i + 1..m, archive[j].id = archive[i].id PROVE FALSE
      BY <1>1
    <3>1. i \in Visible /\ i \in 1..n /\ j \in 1..m /\ i < j
      BY <1>1
    <3>2. j \in Visible
      BY <1>5, <3>1
    <3>3. CASE j <= n
      <4>1. j \in i + 1..n
        BY <1>1, <3>1, <3>3
      <4> QED BY <4>1
    <3>4. CASE ~(j <= n)
      <4>1. j \in new /\ i \in 1..m
        BY <1>1, <3>1, <3>2, <3>4
      <4> QED BY <1>4, <3>1, <4>1
    <3> QED BY <3>3, <3>4
  <2>3. ASSUME NEW i \in new PROVE i \in final(m)
    <3> SUFFICES ASSUME NEW j \in i + 1..m, archive[j].id = archive[i].id PROVE FALSE
      BY <1>1, <1>2
    <3>1. i \in Visible /\ i \in 1..m /\ j \in 1..m /\ i < j /\ n < i
      BY <1>1, <1>2
    <3>2. j \in Visible
      BY <1>5, <3>1
    <3>3. j \in new
      BY <1>1, <3>1, <3>2
    <3> QED BY <1>4, <3>1, <3>3
  <2> HIDE DEF final, new
  <2> QED BY <2>1, <2>2, <2>3
<1>7. Latest(m) = {archive[i] : i \in final(m)} /\ Latest(n) = {archive[i] : i \in final(n)}
  BY DEF Latest
<1>8. Latest(m) = Latest(n) \cup {archive[i] : i \in new}
  <2> HIDE DEF final, new
  <2> QED BY <1>6, <1>7
<1>9. ASSUME NEW i \in new PROVE archive[i] \notin Latest(n)
  <2> SUFFICES ASSUME NEW k \in final(n), archive[i] = archive[k] PROVE FALSE
    BY <1>7
  <2>1. k \in 1..m /\ k < i
    BY <1>1, <1>2
  <2> QED BY <1>4, <2>1
<1>10. ASSUME NEW i \in new, NEW k \in new, archive[i] = archive[k] PROVE i = k
  <2>1. i \in 1..m /\ k \in 1..m
    BY <1>2
  <2>2. ~(i < k) /\ ~(k < i)
    BY <1>4, <1>10, <2>1
  <2> QED BY <2>1, <2>2
<1> QED BY <1>8, <1>9, <1>10

\* An update makes the day files show all lines.
LEMMA DaysGrow ==
    ASSUME ViewTypeOK, FirstOfItsMessage, NEW n \in 0..Len(archive), DaysShow(n),
           \A i \in Visible \cap n + 1..Len(archive) : ~archive[i].revision,
           NEW r \in Line
    PROVE  WithLines(Visible \cap n + 1..Len(archive))[r] =
                IF r \in Latest(Len(archive)) THEN 1 ELSE 0
<1> DEFINE new == Visible \cap n + 1..Len(archive)
           here == {i \in new : archive[i] = r}
<1>1. /\ Latest(Len(archive)) = Latest(n) \cup {archive[i] : i \in new}
      /\ \A i \in new : archive[i] \notin Latest(n)
      /\ \A i, k \in new : archive[i] = archive[k] => i = k
  BY LatestGrows
<1>2. WithLines(new)[r] = days[r] + Cardinality(here)
  BY DEF WithLines
<1>3. days[r] = IF r \in Latest(n) THEN 1 ELSE 0
  BY DEF DaysShow
<1>4. CASE here = {}
  <2>1. Cardinality(here) = 0
    BY <1>4, FS_EmptySet
  <2>2. r \in Latest(Len(archive)) <=> r \in Latest(n)
    BY <1>1, <1>4
  <2> HIDE DEF here
  <2> QED BY <1>2, <1>3, <2>1, <2>2
<1>5. CASE here # {}
  <2>1. PICK i \in here : TRUE
    BY <1>5
  <2>2. here = {i} /\ r \notin Latest(n) /\ r \in Latest(Len(archive))
    BY <1>1, <2>1
  <2>3. Cardinality(here) = 1
    BY <2>2, FS_Singleton
  <2> HIDE DEF here
  <2> QED BY <1>2, <1>3, <2>2, <2>3
<1> QED BY <1>4, <1>5

\* The newest of some records and of more are the newest of all.
LEMMA NewestOfNewest ==
    ASSUME NEW A, NEW B, A \subseteq Line, B \subseteq Line, IsFiniteSet(A \cup B)
    PROVE  Newest(Newest(A) \cup B) = Newest(A \cup B)
<1> DEFINE Above(S, r) == {q \in S : q.id > r.id}
           C == Newest(A) \cup B
<1>1. /\ RecentLimit \in Nat /\ MaxID \in Nat
      /\ \A r \in Line : r.id \in Nat /\ r.id <= MaxID
  BY ViewConstants DEF Line, MessageIDs
<1>2. \A S : Newest(S) = {r \in S : Cardinality(Above(S, r)) < RecentLimit}
  BY DEF Newest
<1>3. Newest(A) \subseteq A /\ C \subseteq A \cup B
  BY <1>2
<1>4. ASSUME NEW S \in SUBSET (A \cup B), NEW r
      PROVE  /\ Above(S, r) \in SUBSET Above(A \cup B, r)
             /\ IsFiniteSet(Above(A \cup B, r)) /\ IsFiniteSet(Above(S, r))
             /\ Cardinality(Above(S, r)) \in Nat /\ Cardinality(Above(A \cup B, r)) \in Nat
             /\ Cardinality(Above(S, r)) <= Cardinality(Above(A \cup B, r))
  <2>1. Above(S, r) \in SUBSET Above(A \cup B, r) /\ Above(A \cup B, r) \in SUBSET (A \cup B)
    OBVIOUS
  <2> HIDE DEF Above
  <2>2. IsFiniteSet(Above(A \cup B, r))
    BY <2>1, FS_Subset
  <2>3. IsFiniteSet(Above(S, r))
        /\ Cardinality(Above(S, r)) <= Cardinality(Above(A \cup B, r))
    BY <2>1, <2>2, FS_Subset
  <2> QED BY <2>1, <2>2, <2>3, FS_CardinalityType
<1>5. ASSUME NEW r \in Newest(A \cup B) PROVE r \in Newest(C)
  <2>1. r \in A \cup B /\ Cardinality(Above(A \cup B, r)) < RecentLimit
    BY <1>2, <1>5
  <2>2. /\ A \in SUBSET (A \cup B) /\ C \in SUBSET (A \cup B)
    BY <1>3
  <2>3. Cardinality(Above(A, r)) < RecentLimit /\ Cardinality(Above(C, r)) < RecentLimit
    <3>1. /\ Cardinality(Above(A, r)) \in Nat /\ Cardinality(Above(A \cup B, r)) \in Nat
          /\ Cardinality(Above(A, r)) <= Cardinality(Above(A \cup B, r))
      BY <1>4, <2>2
    <3> HIDE DEF C
    <3>2. /\ Cardinality(Above(C, r)) \in Nat
          /\ Cardinality(Above(C, r)) <= Cardinality(Above(A \cup B, r))
      BY <1>4, <2>2
    <3> HIDE DEF Above
    <3> QED BY <1>1, <2>1, <3>1, <3>2
  <2>4. r \in C
    BY <1>2, <2>1, <2>3
  <2> QED BY <1>2, <2>3, <2>4
<1>6. ASSUME NEW r \in Newest(C), Above(A \cup B, r) # Above(C, r) PROVE FALSE
  <2> DEFINE Out == {q \in A \ Newest(A) : q.id > r.id}
             ids == {q.id : q \in Out}
  <2>1. r \in C /\ Cardinality(Above(C, r)) < RecentLimit
    BY <1>2
  <2>2. Out # {}
    BY <1>3, <1>6
  <2>3. ids \subseteq 0..MaxID /\ ids # {}
    BY <1>1, <2>2
  <2>4. PICK q \in Out : \A o \in Out : o.id <= q.id
    <3>1. Max(ids) \in ids /\ \A d \in ids : d <= Max(ids)
      <4> HIDE DEF ids
      <4> QED BY <1>1, <2>3, MaxIs
    <3> QED BY <3>1
  <2>5. q \in A /\ q.id > r.id /\ q.id \in Nat /\ r.id \in Nat
    BY <1>1, <1>3, <2>1, <2>4
  <2>6. Above(A, q) \in SUBSET Above(C, r)
    <3> SUFFICES ASSUME NEW o \in A, o.id > q.id PROVE o \in C /\ o.id > r.id
      OBVIOUS
    <3>1. o.id \in Nat /\ o.id > r.id
      BY <1>1, <2>5
    <3>2. o \notin Out
      BY <2>4, <2>5, <3>1
    <3> QED BY <3>1, <3>2
  <2>7. C \in SUBSET (A \cup B) /\ A \in SUBSET (A \cup B)
    BY <1>3
  <2>8. ~(Cardinality(Above(A, q)) < RecentLimit)
    BY <1>2, <2>4
  <2> HIDE DEF Above, C, Out
  <2>9. IsFiniteSet(Above(C, r)) /\ Cardinality(Above(C, r)) \in Nat
        /\ Cardinality(Above(A, q)) \in Nat
    BY <1>4, <2>7
  <2>10. Cardinality(Above(A, q)) <= Cardinality(Above(C, r))
    BY <2>6, <2>9, FS_Subset
  <2> QED BY <1>1, <2>1, <2>8, <2>9, <2>10
<1>7. ASSUME NEW r \in Newest(C) PROVE r \in Newest(A \cup B)
  <2>1. Above(A \cup B, r) = Above(C, r)
    BY <1>6
  <2>2. r \in C /\ Cardinality(Above(C, r)) < RecentLimit
    BY <1>2
  <2>3. r \in A \cup B
    BY <1>3, <2>2
  <2> HIDE DEF Above, C
  <2> QED BY <1>2, <2>1, <2>2, <2>3
<1> QED BY <1>5, <1>7

(***************************************************************************)
(* Agent view: the steps                                                   *)
(***************************************************************************)

\* The first n lines make the same view, and have the same size, as long as they
\* stay.
LEMMA LinesStay ==
    ASSUME ViewTypeOK, ViewTypeOK', NEW n \in 0..Len(archive), Len(archive) <= Len(archive'),
           \A i \in 1..Len(archive) : archive'[i] = archive[i]
    PROVE  Latest(n)' = Latest(n) /\ SizeTo(n)' = SizeTo(n)
<1>1. /\ Len(archive) \in Nat /\ DOMAIN archive = 1..Len(archive)
      /\ Len(archive') \in Nat /\ DOMAIN archive' = 1..Len(archive')
  <2>1. archive \in Seq(Line) /\ archive' \in Seq(Line)
    BY DEF ViewTypeOK
  <2> QED BY <2>1
<1>2. \A i \in 1..n : i \in DOMAIN archive /\ i \in DOMAIN archive' /\ archive'[i] = archive[i]
  BY <1>1
<1>3. Visible' \cap 1..n = Visible \cap 1..n
  BY <1>2 DEF Visible
<1>4. \A i \in 1..n : \A j \in i + 1..n : j \in 1..n
  BY <1>1
<1>5. Latest(n)' = Latest(n)
  BY <1>2, <1>3, <1>4 DEF Latest
<1>6. {i \in 1..n : archive'[i].v = 2} = {i \in 1..n : archive[i].v = 2}
  BY <1>2
<1> QED BY <1>5, <1>6 DEF SizeTo

\* Types.
LEMMA ViewTypeStep == ViewTypeOK /\ [ViewNext]_viewVars => ViewTypeOK'
<1> SUFFICES ASSUME ViewTypeOK, [ViewNext]_viewVars PROVE ViewTypeOK'
  OBVIOUS
<1>1. Len(archive) \in Nat /\ NoDays \in [Line -> Nat] /\ DOMAIN archive = 1..Len(archive)
      /\ MaxKills \in Nat /\ MaxLines \in Nat
  BY LinesAre, ViewConstants DEF NoDays
<1>2. \A n \in 0..Len(archive) : SizeTo(n) \in Nat /\ Latest(n) \subseteq Line
  BY SizesRise, LatestIs
<1>3. \A records : Newest(records) \subseteq records
  BY DEF Newest
<1>4. ASSUME NEW lines, lines \subseteq 1..Len(archive) PROVE WithLines(lines) \in [Line -> Nat]
  <2>1. ASSUME NEW r \in Line PROVE Cardinality({i \in lines : archive[i] = r}) \in Nat
    <3>1. {i \in lines : archive[i] = r} \subseteq 1..Len(archive)
      BY <1>4
    <3> QED BY <3>1, LinesCount
  <2> QED BY <2>1 DEF WithLines, ViewTypeOK
<1>5. Visible \subseteq 1..Len(archive) /\ Gained \subseteq 1..Len(archive)
  BY <1>1 DEF Visible, Gained
<1>6. CASE UNCHANGED viewVars
  BY <1>6 DEF ViewTypeOK, viewVars
<1>7. ASSUME NEW rebuild \in BOOLEAN, StartView(rebuild) PROVE ViewTypeOK'
  BY <1>7 DEF StartView, ViewTypeOK
<1>8. CASE RemoveView
  BY <1>1, <1>8 DEF RemoveView, ViewTypeOK, NoManifest
<1>9. CASE WriteView
  <2>1. days' \in [Line -> Nat] /\ recent' \subseteq Line
    BY <1>1, <1>2, <1>3, <1>9 DEF WriteView
  <2> QED BY <1>9, <2>1 DEF WriteView, ViewTypeOK
<1>10. CASE RecordManifest
  <2>1. Size \in Nat
    BY <1>1, <1>2 DEF Size
  <2> QED BY <1>10, <2>1 DEF RecordManifest, ViewTypeOK
<1>11. CASE AppendDays
  BY <1>4, <1>5, <1>11 DEF AppendDays, ViewTypeOK
<1>12. CASE WriteIndex
  <2>1. {archive[i] : i \in Gained} \subseteq Line
    BY <1>5, LinesAre
  <2>2. recent' \subseteq Line
    BY <1>3, <1>12, <2>1 DEF WriteIndex, ViewTypeOK
  <2> QED BY <1>12, <2>2 DEF WriteIndex, ViewTypeOK
<1>13. CASE ExtendManifest
  <2>1. Size \in Nat
    BY <1>1, <1>2 DEF Size
  <2>2. manifest'.size \in Nat /\ manifest'.recent \subseteq Line /\ manifest'.is = manifest.is
    BY <1>13, <2>1 DEF ExtendManifest, ViewTypeOK
  <2> QED BY <1>13, <2>2 DEF ExtendManifest, ViewTypeOK
<1>14. CASE KillView
  <2>1. days' \in [Line -> Nat]
    <3>1. \A n : WithLines(Gained \cap 1..n) \in [Line -> Nat]
      BY <1>4, <1>5
    <3> QED BY <1>14, <3>1 DEF KillView, ViewTypeOK
  <2>2. manifest' = BrokenManifest \/ manifest' = manifest
    BY <1>14 DEF KillView
  <2>3. /\ manifest'.size \in Nat /\ manifest'.recent \subseteq Line
        /\ manifest'.is \in {"none", "broken", "whole"}
    BY <2>2 DEF ViewTypeOK, BrokenManifest, NoManifest
  <2> QED BY <1>1, <1>14, <2>1, <2>3 DEF KillView, ViewTypeOK
<1>15. CASE BeginSync \/ EndSync
  BY <1>15 DEF BeginSync, EndSync, ViewTypeOK
<1>16. CASE ResetArchive
  <2> DEFINE final == {i \in DOMAIN archive :
                        \A j \in i + 1..Len(archive) : archive[j].id # archive[i].id}
             n == Cardinality(final)
  <2>1. PICK kept \in [1..n -> final] :
            archive' = [i \in DOMAIN kept |-> [archive[kept[i]] EXCEPT !.revision = FALSE]]
    BY <1>16 DEF ResetArchive
  <2>2. final \subseteq 1..Len(archive)
    BY <1>1
  <2> HIDE DEF final
  <2>3. n \in Nat /\ n <= Len(archive)
    BY <2>2, LinesCount
  <2>4. DOMAIN archive' = 1..n /\ \A i \in 1..n : archive'[i] \in Line
    <3>1. \A i \in 1..n : archive[kept[i]] \in Line
      BY <2>2, LinesAre
    <3> QED BY <2>1, <3>1 DEF Line
  <2>5. archive' \in Seq(Line) /\ Len(archive') = n
    BY <2>1, <2>3, <2>4
  <2>6. Len(archive') <= MaxLines
    BY <1>1, <2>3, <2>5 DEF ViewTypeOK
  <2>7. /\ kills < MaxKills /\ kills' = kills + 1 /\ tainted' = TRUE
        /\ UNCHANGED <<pending, days, recent, manifest, view, fresh>>
    BY <1>16 DEF ResetArchive
  <2> QED BY <1>1, <2>5, <2>6, <2>7 DEF ViewTypeOK
<1>17. ASSUME NEW id \in MessageIDs, PublishLine(id) PROVE ViewTypeOK'
  <2>1. /\ [id |-> id, v |-> 1, revision |-> FALSE] \in Line
        /\ [id |-> id, v |-> 2, revision |-> TRUE] \in Line
    BY DEF Line
  <2>2. /\ \E r \in Line : archive' = Append(archive, r)
        /\ Len(archive) < MaxLines /\ UNCHANGED <<pending, days, recent, manifest, view, fresh, tainted, kills>>
    BY <1>17, <2>1 DEF PublishLine
  <2>3. archive' \in Seq(Line) /\ Len(archive') = Len(archive) + 1
    BY <2>2, LinesAre
  <2> QED BY <1>1, <2>2, <2>3 DEF ViewTypeOK
<1> QED
  BY <1>6, <1>7, <1>8, <1>9, <1>10, <1>11, <1>12, <1>13, <1>14, <1>15, <1>16, <1>17
     DEF ViewNext

\* The archive as it was.
LEMMA SameLines ==
    ASSUME UNCHANGED archive
    PROVE  /\ Visible' = Visible /\ Size' = Size
           /\ \A n : Latest(n)' = Latest(n) /\ SizeTo(n)' = SizeTo(n)
           /\ FirstOfItsMessage' <=> FirstOfItsMessage
BY DEF Visible, Size, Latest, SizeTo, FirstOfItsMessage

\* A step that leaves the archive and the view alone and ends no run.
LEMMA StandsStill ==
    ASSUME ViewInv, ViewTypeOK', ViewAlone', ~fresh', view' = view,
           UNCHANGED <<archive, days, recent, manifest, tainted>>
    PROVE  ViewInv'
<1>1. /\ Rebuilding' <=> Rebuilding
      /\ Updating' <=> Updating
      /\ Remembered' <=> Remembered
      /\ FirstOfItsMessage' <=> FirstOfItsMessage
  BY DEF Rebuilding, Updating, Remembered, FirstOfItsMessage, DaysShow, RecentShow, AtBoundary,
         Gained, LinesBefore, Visible, SizeTo, Latest
<1> QED BY <1>1 DEF ViewInv, UpdateIsRebuild

\* What an update works with.
LEMMA UpdateFacts ==
    ASSUME ViewInv, view \in {"append", "index", "extend"}
    PROVE  /\ manifest.is = "whole" /\ ~pending /\ ~fresh
           /\ \E n \in 0..Len(archive) :
                 /\ manifest.size = SizeTo(n)
                 /\ Gained = Visible \cap n + 1..Len(archive)
                 /\ \A i \in Visible \cap n + 1..Len(archive) : ~archive[i].revision
                 /\ ~tainted => /\ manifest.recent = Newest(Latest(n))
                                /\ view = "append" => DaysShow(n)
                                /\ view # "append" => DaysShow(Len(archive))
                                /\ view = "extend" => RecentShow(Len(archive))
<1>1. ViewTypeOK /\ manifest.is = "whole" /\ AtBoundary(manifest.size)
      /\ \A i \in Gained : ~archive[i].revision
  BY DEF ViewInv, Updating
<1>2. PICK n \in 0..Len(archive) : SizeTo(n) = manifest.size
  BY <1>1 DEF AtBoundary
<1>3. Gained = Visible \cap n + 1..Len(archive)
  BY <1>1, <1>2, SizeTells DEF Gained
<1>4. ~tainted => /\ manifest.recent = Newest(Latest(n))
                  /\ view = "append" => DaysShow(n)
                  /\ view # "append" => DaysShow(Len(archive))
                  /\ view = "extend" => RecentShow(Len(archive))
  <2> SUFFICES ASSUME ~tainted
               PROVE  /\ manifest.recent = Newest(Latest(n))
                      /\ view = "append" => DaysShow(n)
                      /\ view # "append" => DaysShow(Len(archive))
                      /\ view = "extend" => RecentShow(Len(archive))
    OBVIOUS
  <2>1. PICK k \in 0..Len(archive) :
           /\ manifest.size = SizeTo(k) /\ manifest.recent = Newest(Latest(k))
           /\ DaysShow(IF view \in {"index", "extend"} THEN Len(archive) ELSE k)
           /\ RecentShow(IF view = "extend" THEN Len(archive) ELSE k)
    BY <1>1 DEF ViewInv, Remembered
  <2>2. k = n
    BY <1>1, <1>2, <2>1, SizeTells
  <2> QED BY <2>1, <2>2
<1>5. ~pending /\ ~fresh
  BY DEF ViewInv, ViewAlone
<1> QED BY <1>1, <1>2, <1>3, <1>4, <1>5

\* The run that finds nothing to add, and the two that do.
LEMMA StartViewKeeps ==
    ASSUME ViewInv, ViewTypeOK', NEW rebuild \in BOOLEAN, StartView(rebuild) PROVE ViewInv'
<1>1. /\ view = "idle" /\ ~pending /\ (rebuild \/ manifest.is # "broken")
      /\ UNCHANGED <<archive, pending, days, recent, manifest, tainted, kills>>
  BY DEF StartView
<1>2. /\ Visible' = Visible /\ Size' = Size /\ Gained' = Gained
      /\ \A n : /\ Latest(n)' = Latest(n) /\ SizeTo(n)' = SizeTo(n)
                /\ DaysShow(n)' = DaysShow(n) /\ RecentShow(n)' = RecentShow(n)
      /\ FirstOfItsMessage' = FirstOfItsMessage
      /\ AtBoundary(manifest.size)' = AtBoundary(manifest.size)
  BY <1>1 DEF Visible, Size, Latest, SizeTo, FirstOfItsMessage, DaysShow, RecentShow,
              AtBoundary, Gained, LinesBefore
<1>3. view' \in {"idle", "remove", "append"}
  BY <1>1 DEF StartView
<1>4. FirstOfItsMessage' /\ Rebuilding'
  BY <1>2, <1>3 DEF ViewInv, Rebuilding
<1>5. ASSUME ~tainted, manifest.is = "whole"
      PROVE  \E n \in 0..Len(archive) :
                /\ manifest.size = SizeTo(n) /\ manifest.recent = Newest(Latest(n))
                /\ DaysShow(n) /\ RecentShow(n)
  BY <1>1, <1>5 DEF ViewInv, Remembered
<1>10. Remembered'
  <2> SUFFICES ASSUME ~tainted, manifest.is = "whole"
               PROVE  \E n \in 0..Len(archive) :
                         /\ manifest.size = SizeTo(n) /\ manifest.recent = Newest(Latest(n))
                         /\ DaysShow(n)' /\ RecentShow(n)'
    BY <1>1, <1>2, <1>3 DEF Remembered
  <2> QED BY <1>2, <1>5
<1>6. ASSUME ~(rebuild \/ Rebuilds)
      PROVE  /\ manifest.is = "whole" /\ AtBoundary(manifest.size)
             /\ \A i \in Gained : ~archive[i].revision
  BY <1>1, <1>6 DEF Rebuilds, ViewInv, ViewTypeOK
<1>7. Updating'
  <2>1. view' = "append" => ~(rebuild \/ Rebuilds)
    BY DEF StartView
  <2> QED BY <1>1, <1>2, <1>3, <1>6, <2>1 DEF Updating
<1>8. ViewAlone'
  BY <1>1 DEF StartView, ViewAlone
<1>9. UpdateIsRebuild'
  <2> SUFFICES ASSUME fresh', ~tainted PROVE ShowsLatest'
    BY <1>1 DEF UpdateIsRebuild
  <2>1. ~(rebuild \/ Rebuilds) /\ Size = manifest.size
    BY DEF StartView
  <2>2. PICK n \in 0..Len(archive) :
           /\ manifest.size = SizeTo(n) /\ DaysShow(n) /\ RecentShow(n)
    BY <1>1, <1>5, <1>6, <2>1
  <2>3. n = Len(archive)
    <3>1. Len(archive) \in 0..Len(archive) /\ ViewTypeOK
      BY LinesAre DEF ViewInv
    <3> QED BY <2>1, <2>2, <3>1, SizeTells DEF Size
  <2> QED BY <1>1, <1>2, <2>2, <2>3 DEF ShowsLatest, DaysShow, RecentShow
<1> QED BY <1>4, <1>7, <1>8, <1>9, <1>10 DEF ViewInv

\* A rebuild removes the view and its manifest.
LEMMA RemoveViewKeeps == ASSUME ViewInv, ViewTypeOK', RemoveView PROVE ViewInv'
<1>1. /\ view = "remove" /\ view' = "write" /\ manifest' = NoManifest
      /\ UNCHANGED <<archive, pending, fresh, tainted, kills>>
  BY DEF RemoveView
<1>2. ~pending /\ ~fresh
  BY <1>1 DEF ViewInv, ViewAlone
<1>3. manifest'.is = "none"
  BY <1>1 DEF NoManifest
<1> QED
  BY <1>1, <1>2, <1>3
     DEF ViewInv, FirstOfItsMessage, ViewAlone, Rebuilding, Updating, Remembered, UpdateIsRebuild

\* A rebuild writes what the whole archive shows.
LEMMA WriteViewKeeps == ASSUME ViewInv, ViewTypeOK', WriteView PROVE ViewInv'
<1>1. /\ view = "write" /\ view' = "record" /\ manifest = NoManifest
      /\ UNCHANGED <<archive, pending, manifest, fresh, tainted, kills>>
  BY DEF WriteView, ViewInv, Rebuilding
<1>2. ~pending /\ ~fresh
  BY <1>1 DEF ViewInv, ViewAlone
<1>3. manifest'.is = "none"
  BY <1>1 DEF NoManifest
<1>4. DaysShow(Len(archive))' /\ RecentShow(Len(archive))'
  <2>1. Latest(Len(archive))' = Latest(Len(archive))
    BY <1>1 DEF Latest, Visible
  <2>2. /\ days' = [r \in Line |-> IF r \in Latest(Len(archive)) THEN 1 ELSE 0]
        /\ recent' = Newest(Latest(Len(archive)))
    BY DEF WriteView
  <2>3. \A r \in Line : days'[r] = IF r \in Latest(Len(archive)) THEN 1 ELSE 0
    BY <2>2
  <2> QED BY <2>1, <2>2, <2>3 DEF DaysShow, RecentShow
<1> QED
  BY <1>1, <1>2, <1>3, <1>4
     DEF ViewInv, FirstOfItsMessage, ViewAlone, Rebuilding, Updating, Remembered, UpdateIsRebuild

\* The manifest of a rebuild remembers the whole archive.
LEMMA RecordManifestKeeps == ASSUME ViewInv, ViewTypeOK', RecordManifest PROVE ViewInv'
<1>1. /\ view = "record" /\ view' = "idle" /\ fresh' = TRUE /\ tainted' = FALSE
      /\ manifest' = [size |-> Size, is |-> "whole", recent |-> recent]
      /\ UNCHANGED <<archive, pending, days, recent, kills>>
  BY DEF RecordManifest
<1>2. ~pending
  BY <1>1 DEF ViewInv, ViewAlone
<1>3. DaysShow(Len(archive)) /\ RecentShow(Len(archive))
  BY <1>1 DEF ViewInv, Rebuilding
<1>4. \A n : /\ Latest(n)' = Latest(n) /\ SizeTo(n)' = SizeTo(n)
             /\ DaysShow(n)' = DaysShow(n) /\ RecentShow(n)' = RecentShow(n)
  BY <1>1 DEF Latest, Visible, SizeTo, DaysShow, RecentShow
<1>5. Len(archive) \in 0..Len(archive) /\ Len(archive') = Len(archive)
  BY <1>1, LinesAre DEF ViewInv
<1>6. Remembered'
  BY <1>1, <1>3, <1>4, <1>5 DEF Remembered, RecentShow, Size
<1>7. UpdateIsRebuild'
  BY <1>1, <1>3, <1>4, <1>5 DEF UpdateIsRebuild, ShowsLatest, DaysShow, RecentShow
<1> QED
  BY <1>1, <1>2, <1>6, <1>7 DEF ViewInv, FirstOfItsMessage, ViewAlone, Rebuilding, Updating

\* What an update leaves of the invariant, whichever file it writes next.
LEMMA UpdateKeeps ==
    ASSUME ViewInv, ViewTypeOK', view \in {"append", "index"}, view' \in {"index", "extend"},
           UNCHANGED <<archive, pending, manifest, fresh, tainted>>,
           ~tainted => /\ DaysShow(Len(archive))'
                       /\ view' = "extend" => RecentShow(Len(archive))'
                       /\ view' = "index" => recent' = recent /\ view = "append"
    PROVE  ViewInv'
<1>1. PICK n \in 0..Len(archive) :
          /\ manifest.size = SizeTo(n)
          /\ ~tainted => manifest.recent = Newest(Latest(n))
  BY UpdateFacts
<1>2. manifest.is = "whole" /\ ~pending /\ ~fresh
  BY UpdateFacts
<1>3. \A k : /\ Latest(k)' = Latest(k) /\ SizeTo(k)' = SizeTo(k)
             /\ Gained' = Gained /\ AtBoundary(manifest.size)' = AtBoundary(manifest.size)
  BY DEF Latest, Visible, SizeTo, Gained, LinesBefore, AtBoundary
<1>4. Updating'
  BY <1>3 DEF ViewInv, Updating
<1>5. Remembered'
  <2> SUFFICES ASSUME ~tainted
               PROVE  \E k \in 0..Len(archive) :
                         /\ manifest.size = SizeTo(k) /\ manifest.recent = Newest(Latest(k))
                         /\ DaysShow(Len(archive))'
                         /\ recent' = Newest(Latest(IF view' = "extend" THEN Len(archive) ELSE k))
    BY <1>3 DEF Remembered, RecentShow
  <2>1. CASE view' = "extend"
    BY <1>1, <1>3, <2>1 DEF RecentShow
  <2>2. CASE view' = "index"
    <3>1. PICK k \in 0..Len(archive) :
             /\ manifest.size = SizeTo(k) /\ manifest.recent = Newest(Latest(k))
             /\ RecentShow(k)
      BY <1>2, <2>2 DEF ViewInv, Remembered
    <3> QED BY <2>2, <3>1 DEF RecentShow
  <2> QED BY <2>1, <2>2
<1> QED BY <1>2, <1>4, <1>5 DEF ViewInv, FirstOfItsMessage, ViewAlone, Rebuilding, UpdateIsRebuild

\* An update appends the gained lines to the day files.
LEMMA AppendDaysKeeps == ASSUME ViewInv, ViewTypeOK', AppendDays PROVE ViewInv'
<1>1. /\ view = "append" /\ view' = "index" /\ days' = WithLines(Gained)
      /\ UNCHANGED <<archive, pending, recent, manifest, fresh, tainted, kills>>
  BY DEF AppendDays
<1>2. ASSUME ~tainted PROVE DaysShow(Len(archive))'
  <2>1. PICK n \in 0..Len(archive) :
            /\ Gained = Visible \cap n + 1..Len(archive)
            /\ \A i \in Visible \cap n + 1..Len(archive) : ~archive[i].revision
            /\ DaysShow(n)
    BY <1>1, <1>2, UpdateFacts
  <2>2. \A r \in Line : WithLines(Gained)[r] = IF r \in Latest(Len(archive)) THEN 1 ELSE 0
    BY <2>1, DaysGrow DEF ViewInv
  <2>3. Latest(Len(archive))' = Latest(Len(archive))
    BY <1>1 DEF Latest, Visible
  <2> QED BY <1>1, <2>2, <2>3 DEF DaysShow
<1> QED BY <1>1, <1>2, UpdateKeeps

\* An update writes all-recent.md from what the manifest remembers of it.
LEMMA WriteIndexKeeps == ASSUME ViewInv, ViewTypeOK', WriteIndex PROVE ViewInv'
<1>1. /\ view = "index" /\ view' = "extend"
      /\ recent' = Newest(manifest.recent \cup {archive[i] : i \in Gained})
      /\ UNCHANGED <<archive, pending, days, manifest, fresh, tainted, kills>>
  BY DEF WriteIndex
<1>2. \A n : Latest(n)' = Latest(n)
  BY <1>1 DEF Latest, Visible
<1>3. ASSUME ~tainted PROVE DaysShow(Len(archive))' /\ RecentShow(Len(archive))'
  <2>1. PICK n \in 0..Len(archive) :
            /\ Gained = Visible \cap n + 1..Len(archive)
            /\ \A i \in Visible \cap n + 1..Len(archive) : ~archive[i].revision
            /\ manifest.recent = Newest(Latest(n)) /\ DaysShow(Len(archive))
    BY <1>1, <1>3, UpdateFacts
  <2>2. Latest(Len(archive)) = Latest(n) \cup {archive[i] : i \in Gained}
    BY <2>1, LatestGrows DEF ViewInv
  <2>3. /\ Len(archive) \in 0..Len(archive) /\ ViewTypeOK
    BY LinesAre DEF ViewInv
  <2>4. Latest(Len(archive)) \subseteq Line /\ IsFiniteSet(Latest(Len(archive)))
    BY <2>3, LatestIs
  <2>5. recent' = Newest(Latest(Len(archive)))
    <3> DEFINE A == Latest(n)
               B == {archive[i] : i \in Gained}
    <3>1. A \subseteq Line /\ B \subseteq Line /\ IsFiniteSet(A \cup B)
      BY <2>2, <2>4
    <3>2. recent' = Newest(Newest(A) \cup B)
      BY <1>1, <2>1
    <3>3. Latest(Len(archive)) = A \cup B
      BY <2>2
    <3> HIDE DEF A, B
    <3>4. Newest(Newest(A) \cup B) = Newest(A \cup B)
      BY <3>1, NewestOfNewest
    <3> QED BY <3>2, <3>3, <3>4
  <2> QED BY <1>1, <1>2, <2>1, <2>5 DEF DaysShow, RecentShow
<1> QED BY <1>1, <1>3, UpdateKeeps

\* An update ends with a manifest that remembers the whole archive.
LEMMA ExtendManifestKeeps == ASSUME ViewInv, ViewTypeOK', ExtendManifest PROVE ViewInv'
<1>1. /\ view = "extend" /\ view' = "idle" /\ fresh' = TRUE
      /\ manifest' = [manifest EXCEPT !.size = Size, !.recent = recent]
      /\ UNCHANGED <<archive, pending, days, recent, tainted, kills>>
  BY DEF ExtendManifest
<1>2. ~pending
  BY <1>1, UpdateFacts
<1>3. ~tainted => DaysShow(Len(archive)) /\ RecentShow(Len(archive))
  BY <1>1, UpdateFacts
<1>4. \A n : /\ Latest(n)' = Latest(n) /\ SizeTo(n)' = SizeTo(n)
             /\ DaysShow(n)' = DaysShow(n) /\ RecentShow(n)' = RecentShow(n)
  BY <1>1 DEF Latest, Visible, SizeTo, DaysShow, RecentShow
<1>5. Len(archive) \in 0..Len(archive) /\ Len(archive') = Len(archive)
  BY <1>1, LinesAre DEF ViewInv
<1>6. Remembered'
  <2> SUFFICES ASSUME ~tainted
               PROVE  /\ manifest'.size = SizeTo(Len(archive))
                      /\ manifest'.recent = Newest(Latest(Len(archive)))
                      /\ DaysShow(Len(archive)) /\ RecentShow(Len(archive))
    BY <1>1, <1>4, <1>5 DEF Remembered
  <2>1. manifest'.size = Size /\ manifest'.recent = recent
    BY <1>1, UpdateFacts DEF ViewInv, ViewTypeOK
  <2> QED BY <1>3, <2>1 DEF Size, RecentShow
<1>7. UpdateIsRebuild'
  BY <1>1, <1>3, <1>4, <1>5 DEF UpdateIsRebuild, ShowsLatest, DaysShow, RecentShow
<1> QED
  BY <1>1, <1>2, <1>6, <1>7 DEF ViewInv, FirstOfItsMessage, ViewAlone, Rebuilding, Updating

\* A run that is killed or fails: what it may have spoilt is no longer trusted.
LEMMA KillViewKeeps == ASSUME ViewInv, ViewTypeOK', KillView PROVE ViewInv'
<1>1. /\ view # "idle" /\ view' = "idle" /\ UNCHANGED <<archive, pending, fresh>>
      /\ tainted' = (tainted \/ view \in {"append", "index", "extend"})
      /\ manifest' \in {manifest, BrokenManifest}
      /\ view # "append" => UNCHANGED <<days, recent>>
  BY DEF KillView
<1>2. ~pending /\ ~fresh
  BY <1>1 DEF ViewInv, ViewAlone
<1>3. manifest' = BrokenManifest => manifest'.is # "whole"
  BY DEF BrokenManifest, NoManifest
<1>4. Remembered'
  <2> SUFFICES ASSUME ~tainted', manifest'.is = "whole"
               PROVE  \E n \in 0..Len(archive) :
                         /\ manifest.size = SizeTo(n) /\ manifest.recent = Newest(Latest(n))
                         /\ DaysShow(n)' /\ RecentShow(n)'
    <3>1. \A n : Latest(n)' = Latest(n) /\ SizeTo(n)' = SizeTo(n)
      BY <1>1 DEF Latest, Visible, SizeTo
    <3> QED BY <1>1, <1>3, <3>1 DEF Remembered
  <2>1. /\ ~tainted /\ manifest' = manifest /\ manifest.is = "whole"
        /\ view \notin {"append", "index", "extend"} /\ UNCHANGED <<days, recent>>
    BY <1>1, <1>3
  <2>2. \A n : Latest(n)' = Latest(n) /\ DaysShow(n)' = DaysShow(n)
               /\ RecentShow(n)' = RecentShow(n)
    BY <1>1, <2>1 DEF Latest, Visible, DaysShow, RecentShow
  <2>3. \E n \in 0..Len(archive) :
           /\ manifest.size = SizeTo(n) /\ manifest.recent = Newest(Latest(n))
           /\ DaysShow(n) /\ RecentShow(n)
    BY <2>1 DEF ViewInv, Remembered
  <2> QED BY <2>2, <2>3
<1> QED
  BY <1>1, <1>2, <1>4
     DEF ViewInv, FirstOfItsMessage, ViewAlone, Rebuilding, Updating, UpdateIsRebuild

\* A synchronisation begins and ends.
LEMMA SyncKeeps == ASSUME ViewInv, ViewTypeOK', BeginSync \/ EndSync PROVE ViewInv'
<1>1. CASE BeginSync
  <2>1. ViewAlone' /\ ~fresh'
    BY <1>1 DEF BeginSync, ViewAlone
  <2> QED BY <1>1, <2>1, StandsStill DEF BeginSync
<1>2. CASE EndSync
  <2>1. view = "idle" /\ ~fresh
    BY <1>2 DEF EndSync, ViewInv, ViewAlone
  <2>2. ViewAlone' /\ ~fresh'
    BY <1>2, <2>1 DEF EndSync, ViewAlone
  <2> QED BY <1>2, <2>2, StandsStill DEF EndSync
<1> QED BY <1>1, <1>2

\* --reset leaves every message once; no view is trusted after it.
LEMMA ResetKeeps == ASSUME ViewInv, ViewTypeOK', ResetArchive PROVE ViewInv'
<1>1. pending /\ tainted' = TRUE /\ UNCHANGED <<pending, days, recent, manifest, view, fresh>>
  BY DEF ResetArchive
<1>2. view = "idle" /\ ~fresh
  BY <1>1 DEF ViewInv, ViewAlone
<1>3. FirstOfItsMessage'
  <2> DEFINE final == {i \in DOMAIN archive :
                        \A j \in i + 1..Len(archive) : archive[j].id # archive[i].id}
             n == Cardinality(final)
  <2>1. PICK kept \in [1..n -> final] :
            /\ \A i, k \in DOMAIN kept : i < k => archive[kept[i]].id > archive[kept[k]].id
            /\ archive' = [i \in DOMAIN kept |-> [archive[kept[i]] EXCEPT !.revision = FALSE]]
    BY DEF ResetArchive
  <2>2. final \subseteq 1..Len(archive) /\ ViewTypeOK
    BY LinesAre DEF ViewInv
  <2> HIDE DEF final
  <2>3. n \in Nat
    BY <2>2, LinesCount
  <2>4. \A i \in 1..n : /\ archive[kept[i]] \in Line /\ archive[kept[i]].id \in Nat
                        /\ archive'[i].id = archive[kept[i]].id
    <3>1. \A i \in 1..n : archive[kept[i]] \in Line
      BY <2>2, LinesAre
    <3> QED BY <2>1, <3>1 DEF Line, MessageIDs
  <2>5. DOMAIN archive' = 1..n /\ DOMAIN kept = 1..n
    BY <2>1
  <2>6. ASSUME NEW i \in 1..n, NEW j \in 1..i - 1 PROVE archive'[j].id # archive'[i].id
    <3>1. j \in 1..n /\ j < i
      BY <2>3
    <3>2. archive[kept[j]].id > archive[kept[i]].id
      BY <2>1, <2>5, <3>1
    <3> QED BY <2>4, <3>1, <3>2
  <2> QED BY <2>5, <2>6 DEF FirstOfItsMessage
<1>4. ViewAlone' /\ Rebuilding' /\ Updating' /\ Remembered' /\ UpdateIsRebuild'
  BY <1>1, <1>2 DEF ViewAlone, Rebuilding, Updating, Remembered, UpdateIsRebuild
<1> QED BY <1>3, <1>4 DEF ViewInv

\* A published line is the first of its message, or a revision; what the view has
\* read stays.
LEMMA PublishKeeps ==
    ASSUME ViewInv, ViewTypeOK', NEW id \in MessageIDs, PublishLine(id) PROVE ViewInv'
<1>1. pending /\ UNCHANGED <<pending, days, recent, manifest, view, fresh, tainted>>
  BY DEF PublishLine
<1>2. view = "idle" /\ ~fresh /\ ViewTypeOK
  BY <1>1 DEF ViewInv, ViewAlone
<1>3. PICK r : /\ archive' = Append(archive, r) /\ r.id = id
               /\ r.revision = FALSE => Versions(id) = {}
  <2>1. \/ /\ archive' = Append(archive, [id |-> id, v |-> 1, revision |-> FALSE])
           /\ Versions(id) = {}
        \/ archive' = Append(archive, [id |-> id, v |-> 2, revision |-> TRUE])
    BY DEF PublishLine
  <2> QED BY <2>1
<1>4. /\ Len(archive) \in Nat /\ DOMAIN archive = 1..Len(archive)
      /\ Len(archive') = Len(archive) + 1 /\ DOMAIN archive' = 1..Len(archive) + 1
      /\ archive'[Len(archive) + 1] = r
      /\ \A i \in 1..Len(archive) : archive'[i] = archive[i]
  BY <1>2, <1>3, LinesAre
<1>5. FirstOfItsMessage'
  <2> SUFFICES ASSUME NEW i \in 1..Len(archive) + 1, ~archive'[i].revision, NEW j \in 1..i - 1
               PROVE  archive'[j].id # archive'[i].id
    BY <1>4 DEF FirstOfItsMessage
  <2>1. j \in 1..Len(archive) /\ archive'[j] = archive[j]
    BY <1>4
  <2>2. CASE i <= Len(archive)
    <3>1. i \in DOMAIN archive /\ archive'[i] = archive[i]
      BY <1>4, <2>2
    <3> QED BY <2>1, <3>1 DEF ViewInv, FirstOfItsMessage
  <2>3. CASE ~(i <= Len(archive))
    <3>1. i = Len(archive) + 1 /\ archive'[i] = r
      BY <1>4, <2>3
    <3>2. r.revision = FALSE
      <4>1. r \in Line
        <5>1. Len(archive') \in DOMAIN archive' /\ archive' \in Seq(Line)
          BY <1>4 DEF ViewTypeOK
        <5> QED BY <1>4, <5>1
      <4> QED BY <3>1, <4>1 DEF Line
    <3>3. archive[j].id # id
      BY <1>3, <1>4, <2>1, <3>2 DEF Versions
    <3> QED BY <1>3, <2>1, <3>1, <3>3
  <2> QED BY <2>2, <2>3
<1>6. Remembered'
  <2> SUFFICES ASSUME ~tainted, manifest.is = "whole"
               PROVE  \E n \in 0..Len(archive') :
                         /\ manifest.size = SizeTo(n)' /\ manifest.recent = Newest(Latest(n)')
                         /\ \A l \in Line : days[l] = IF l \in Latest(n)' THEN 1 ELSE 0
                         /\ recent = Newest(Latest(n)')
    BY <1>1, <1>2 DEF Remembered, DaysShow, RecentShow, Newest
  <2>1. PICK n \in 0..Len(archive) :
           /\ manifest.size = SizeTo(n) /\ manifest.recent = Newest(Latest(n))
           /\ DaysShow(n) /\ RecentShow(n)
    BY <1>2 DEF ViewInv, Remembered
  <2>2. Latest(n)' = Latest(n) /\ SizeTo(n)' = SizeTo(n)
    BY <1>2, <1>4, LinesStay
  <2>3. n \in 0..Len(archive')
    BY <1>4
  <2> QED BY <2>1, <2>2, <2>3 DEF DaysShow, RecentShow
<1> QED
  BY <1>1, <1>2, <1>5, <1>6 DEF ViewInv, ViewAlone, Rebuilding, Updating, UpdateIsRebuild

\* The invariant holds at first.
LEMMA ViewInitially == ViewInit => ViewInv
<1> SUFFICES ASSUME ViewInit PROVE ViewInv
  OBVIOUS
<1>1. /\ archive = << >> /\ pending = FALSE /\ days = NoDays /\ recent = {}
      /\ manifest = NoManifest /\ view = "idle"
      /\ fresh = FALSE /\ tainted = FALSE /\ kills = 0
  BY DEF ViewInit
<1>2. MaxLines \in Nat /\ MaxKills \in Nat /\ NoDays \in [Line -> Nat]
  BY ViewConstants DEF NoDays
<1>3. manifest.is = "none" /\ manifest.size = 0 /\ manifest.recent = {}
  BY <1>1 DEF NoManifest
<1>4. archive \in Seq(Line) /\ Len(archive) = 0 /\ DOMAIN archive = {}
  BY <1>1
<1>5. ViewTypeOK
  <2>1. archive \in Seq(Line) /\ Len(archive) <= MaxLines
    BY <1>2, <1>4
  <2>2. days \in [Line -> Nat] /\ recent \subseteq Line
    BY <1>1, <1>2
  <2>3. manifest.size \in Nat /\ manifest.recent \subseteq Line /\ manifest.is = "none"
    BY <1>3
  <2>4. kills \in 0..MaxKills
    BY <1>1, <1>2
  <2> QED BY <1>1, <2>1, <2>2, <2>3, <2>4 DEF ViewTypeOK
<1> QED
  BY <1>1, <1>3, <1>4, <1>5
     DEF ViewInv, FirstOfItsMessage, ViewAlone, Rebuilding, Updating, Remembered, UpdateIsRebuild

\* Every step keeps it.
LEMMA ViewStep == ViewInv /\ [ViewNext]_viewVars => ViewInv'
<1> SUFFICES ASSUME ViewInv, [ViewNext]_viewVars PROVE ViewInv'
  OBVIOUS
<1>1. ViewTypeOK'
  BY ViewTypeStep DEF ViewInv
<1>2. CASE UNCHANGED viewVars
  <2>1. UNCHANGED <<archive, pending, days, recent, manifest, view, fresh, tainted, kills>>
    BY <1>2 DEF viewVars
  <2>2. FirstOfItsMessage' /\ ViewAlone'
    BY <2>1 DEF ViewInv, FirstOfItsMessage, ViewAlone
  <2>3. /\ Gained' = Gained /\ AtBoundary(manifest.size)' = AtBoundary(manifest.size)
        /\ \A n : /\ Latest(n)' = Latest(n) /\ SizeTo(n)' = SizeTo(n)
                  /\ DaysShow(n)' = DaysShow(n) /\ RecentShow(n)' = RecentShow(n)
    BY <2>1 DEF Visible, Latest, SizeTo, DaysShow, RecentShow, AtBoundary, Gained, LinesBefore
  <2>4. Updating'
    BY <2>1, <2>3 DEF ViewInv, Updating
  <2>5. Rebuilding'
    <3>1. DaysShow(Len(archive))' = DaysShow(Len(archive))
          /\ RecentShow(Len(archive))' = RecentShow(Len(archive))
      BY <2>1 DEF DaysShow, RecentShow, Latest, Visible
    <3> QED BY <2>1, <3>1 DEF ViewInv, Rebuilding
  <2>6. UpdateIsRebuild'
    BY <2>1, <2>3 DEF ViewInv, UpdateIsRebuild, ShowsLatest
  <2>7. Remembered'
    <3> SUFFICES ASSUME ~tainted, manifest.is = "whole"
                 PROVE  \E n \in 0..Len(archive) :
                           /\ manifest.size = SizeTo(n) /\ manifest.recent = Newest(Latest(n))
                           /\ DaysShow(IF view \in {"index", "extend"} THEN Len(archive) ELSE n)'
                           /\ RecentShow(IF view = "extend" THEN Len(archive) ELSE n)'
      BY <2>1, <2>3 DEF Remembered
    <3>1. PICK n \in 0..Len(archive) :
             /\ manifest.size = SizeTo(n) /\ manifest.recent = Newest(Latest(n))
             /\ DaysShow(IF view \in {"index", "extend"} THEN Len(archive) ELSE n)
             /\ RecentShow(IF view = "extend" THEN Len(archive) ELSE n)
      BY DEF ViewInv, Remembered
    <3>2. /\ DaysShow(IF view \in {"index", "extend"} THEN Len(archive) ELSE n)'
          /\ RecentShow(IF view = "extend" THEN Len(archive) ELSE n)'
      BY <2>1, <2>3, <3>1 DEF DaysShow, RecentShow
    <3> QED BY <3>1, <3>2
  <2> QED BY <1>1, <2>2, <2>4, <2>5, <2>6, <2>7 DEF ViewInv
<1>3. ASSUME NEW rebuild \in BOOLEAN, StartView(rebuild) PROVE ViewInv'
  BY <1>1, <1>3, StartViewKeeps
<1>4. CASE RemoveView
  BY <1>1, <1>4, RemoveViewKeeps
<1>5. CASE WriteView
  BY <1>1, <1>5, WriteViewKeeps
<1>6. CASE RecordManifest
  BY <1>1, <1>6, RecordManifestKeeps
<1>7. CASE AppendDays
  BY <1>1, <1>7, AppendDaysKeeps
<1>8. CASE WriteIndex
  BY <1>1, <1>8, WriteIndexKeeps
<1>9. CASE ExtendManifest
  BY <1>1, <1>9, ExtendManifestKeeps
<1>10. CASE KillView
  BY <1>1, <1>10, KillViewKeeps
<1>11. CASE BeginSync \/ EndSync
  BY <1>1, <1>11, SyncKeeps
<1>12. CASE ResetArchive
  BY <1>1, <1>12, ResetKeeps
<1>13. ASSUME NEW id \in MessageIDs, PublishLine(id) PROVE ViewInv'
  BY <1>1, <1>13, PublishKeeps
<1> QED
  BY <1>2, <1>3, <1>4, <1>5, <1>6, <1>7, <1>8, <1>9, <1>10, <1>11, <1>12, <1>13 DEF ViewNext

\* Updates of a view that only appends never differ from building it anew: every
\* visible message stands in the day files once, in its last version, and
\* all-recent.md holds the newest.
THEOREM UpdatesRebuild == ViewSpec => []UpdateIsRebuild
<1>1. ViewInv => UpdateIsRebuild
  BY DEF ViewInv
<1> QED BY <1>1, ViewInitially, ViewStep, PTL DEF ViewSpec
=============================================================================
