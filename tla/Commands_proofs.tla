-------------------------- MODULE Commands_proofs --------------------------
(***************************************************************************)
(* Proofs about the commands that change something on Telegram, for every   *)
(* manifest, number of posts, messages, dialogs and retries, and any number *)
(* of interrupted runs: each command does what it does at most once, or not *)
(* over what somebody else did meanwhile.                                   *)
(***************************************************************************)
EXTENDS TopicPublish, TopicEdits, AccountOrganize, SendSaved, TLAPS

(***************************************************************************)
(* send-saved                                                              *)
(***************************************************************************)

\* Before its request a run has sent nothing.
NothingSent == {"idle", "open", "reuse", "upload", "send"}

\* A run stands before its only request, or nothing more is sent.
SavedInv ==
    /\ SavedTypeOK
    /\ send.pc \in NothingSent => Copies + astray = 0
    /\ SavedOnce

\* Before the first command nothing was sent.
LEMMA SavedInitially == SavedInit => SavedInv
<1> SUFFICES ASSUME SavedInit PROVE SavedInv
  OBVIOUS
<1>1. SavedTypeOK
  <2>1. source \in [kind : Payloads, noforwards : BOOLEAN, preview : BOOLEAN]
    BY ZenonT(30) DEF SavedInit
  <2>2. saved \in [intact : Nat, changed : Nat] /\ astray \in Nat /\ temp \in BOOLEAN
    BY DEF SavedInit
  <2>3. send \in [pc : SavedPcs, method : Methods, tries : 0..ReadTries]
    BY SavedConstants DEF SavedInit, SavedPcs, Methods
  <2> QED BY <2>1, <2>2, <2>3 DEF SavedTypeOK
<1>2. Copies + astray = 0
  BY DEF SavedInit, Copies
<1> QED BY <1>1, <1>2 DEF SavedInv, SavedOnce

\* Every step keeps the types.
LEMMA SavedTypeStep == SavedTypeOK /\ [SavedNext]_savedVars => SavedTypeOK'
<1> SUFFICES ASSUME SavedTypeOK, [SavedNext]_savedVars PROVE SavedTypeOK'
  OBVIOUS
<1> USE DEF SavedTypeOK
<1>1. source' \in [kind : Payloads, noforwards : BOOLEAN, preview : BOOLEAN]
  BY DEF SavedNext, savedVars, Prepare, OpenVideo, SendReuse, ReuseFails, UploadPayload,
         SendPayload, SendFails, ReadBackFails, ReadBack, CompareCopy, Fail, ArriveLate, ChangeSaved
<1>2. saved' \in [intact : Nat, changed : Nat] /\ astray' \in Nat
  <2> DEFINE OneMore == [saved EXCEPT !.intact = @ + 1]
  <2>1. saved' = saved \/ saved' = OneMore \/ ChangeSaved
    BY DEF SavedNext, savedVars, Prepare, OpenVideo, SendReuse, ReuseFails, UploadPayload,
           SendPayload, SendFails, ReadBackFails, ReadBack, CompareCopy, Fail, ArriveLate
  <2>2. astray' \in {astray, astray + 1} \/ ArriveLate
    BY DEF SavedNext, savedVars, Prepare, OpenVideo, SendReuse, ReuseFails, UploadPayload,
           SendPayload, SendFails, ReadBackFails, ReadBack, CompareCopy, Fail, ChangeSaved
  <2>3. OneMore \in [intact : Nat, changed : Nat]
    OBVIOUS
  <2>4. ChangeSaved => saved' \in [intact : Nat, changed : Nat]
    <3>1. ChangeSaved => saved.intact - 1 \in Nat /\ saved.changed + 1 \in Nat
      BY DEF ChangeSaved
    <3> QED BY <3>1 DEF ChangeSaved
  <2>5. ArriveLate => astray' \in Nat
    BY DEF ArriveLate
  <2> QED BY <2>1, <2>2, <2>3, <2>4, <2>5
<1>3. temp' \in BOOLEAN
  BY DEF SavedNext, savedVars, Prepare, OpenVideo, SendReuse, ReuseFails, UploadPayload,
         SendPayload, SendFails, ReadBackFails, ReadBack, CompareCopy, Fail, ArriveLate, ChangeSaved,
         Go, Return
<1>4. send' \in [pc : SavedPcs, method : Methods, tries : 0..ReadTries]
  <2>1. CASE Prepare
    BY <2>1, SavedConstants DEF Prepare, SavedPcs
  <2>2. CASE ReadBackFails
    <3>1. send.tries + 1 < ReadTries => send.tries + 1 \in 0..ReadTries
      BY SavedConstants
    <3> QED BY <2>2, <3>1 DEF ReadBackFails, Return, SavedPcs
  <2>3. CASE SendReuse \/ UploadPayload
    BY <2>3 DEF SendReuse, UploadPayload, SavedPcs, Methods
  <2>4. ASSUME NEW to \in SavedPcs, send' = [send EXCEPT !.pc = to]
        PROVE  send' \in [pc : SavedPcs, method : Methods, tries : 0..ReadTries]
    BY <2>4
  <2>5. CASE UNCHANGED send
    BY <2>5
  <2>6. ASSUME NEW answer, ReuseFails(answer)
        PROVE  \E to \in SavedPcs : send' = [send EXCEPT !.pc = to]
    BY <2>6 DEF ReuseFails, Go, Return, SavedPcs
  <2>7. OpenVideo \/ SendPayload \/ SendFails \/ ReadBack \/ CompareCopy \/ Fail =>
            \E to \in SavedPcs : send' = [send EXCEPT !.pc = to]
    BY DEF OpenVideo, SendPayload, SendFails, ReadBack, CompareCopy, Fail, Go, Return, SavedPcs
  <2>8. ArriveLate \/ ChangeSaved \/ UNCHANGED savedVars => UNCHANGED send
    BY DEF ArriveLate, ChangeSaved, savedVars
  <2> QED BY <2>1, <2>2, <2>3, <2>4, <2>5, <2>6, <2>7, <2>8 DEF SavedNext
<1> QED BY <1>1, <1>2, <1>3, <1>4

\* Every step of `saved` keeps its invariant.
LEMMA SavedStep == SavedInv /\ [SavedNext]_savedVars => SavedInv'
<1> SUFFICES ASSUME SavedInv, [SavedNext]_savedVars PROVE SavedInv'
  OBVIOUS
<1>0. /\ saved \in [intact : Nat, changed : Nat] /\ astray \in Nat
      /\ send \in [pc : SavedPcs, method : Methods, tries : 0..ReadTries]
      /\ SavedTypeOK'
  BY SavedTypeStep DEF SavedInv, SavedTypeOK
<1> DEFINE Sent == Copies + astray
<1> SUFFICES Sent' <= 1 /\ (send'.pc \in NothingSent => Sent' = 0)
  BY <1>0 DEF SavedInv, SavedOnce, Copies
<1>1. Sent \in Nat /\ Sent <= 1 /\ (send.pc \in NothingSent => Sent = 0)
  BY <1>0 DEF SavedInv, SavedOnce, Copies
<1>2. CASE send.pc \in {"reuse", "send"} /\ Sent' \in {Sent, Sent + 1}
           /\ (send'.pc \in NothingSent => Sent' = Sent)
  BY <1>1, <1>2 DEF NothingSent
<1>3. CASE Sent' = Sent /\ (send'.pc \in NothingSent => send.pc \in NothingSent)
  BY <1>1, <1>3
<1> HIDE DEF Sent
<1>4. SendReuse \/ SendPayload =>
          send.pc \in {"reuse", "send"} /\ Sent' = Sent + 1 /\ send'.pc = "read"
  <2>1. saved' = [saved EXCEPT !.intact = @ + 1] /\ astray' = astray => Sent' = Sent + 1
    BY <1>0 DEF Sent, Copies
  <2> QED BY <1>0, <2>1 DEF SendReuse, SendPayload, Go
<1>5. ASSUME NEW answer, ReuseFails(answer)
      PROVE  /\ send.pc = "reuse" /\ Sent' \in {Sent, Sent + 1}
             /\ send'.pc \in NothingSent => Sent' = Sent
  <2>1. Sent' \in {Sent, Sent + 1} /\ (answer # "lost" => Sent' = Sent)
    BY <1>0, <1>5 DEF ReuseFails, Sent, Copies
  <2>2. answer = "lost" => send'.pc = "failed"
    BY <1>0, <1>5 DEF ReuseFails, FallsBack, Return
  <2> QED BY <1>5, <2>1, <2>2 DEF ReuseFails, NothingSent
<1>6. SendFails => send.pc = "send" /\ Sent' \in {Sent, Sent + 1} /\ send'.pc = "failed"
  BY <1>0 DEF SendFails, Return, Sent, Copies
<1>7. Prepare \/ OpenVideo \/ UploadPayload \/ ReadBackFails \/ ReadBack \/ CompareCopy \/ Fail =>
          Sent' = Sent /\ (send'.pc \in NothingSent => send.pc \in NothingSent)
  BY <1>0 DEF Prepare, OpenVideo, UploadPayload, ReadBackFails, ReadBack, CompareCopy, Fail, Go,
              Return, NothingSent, Sent, Copies
<1>8. ArriveLate \/ ChangeSaved \/ UNCHANGED savedVars => Sent' = Sent /\ send' = send
  <2>1. ArriveLate => Sent' = Sent
    BY <1>0 DEF ArriveLate, Sent, Copies
  <2>2. ChangeSaved => Sent' = Sent
    BY <1>0 DEF ChangeSaved, Sent, Copies
  <2>3. UNCHANGED savedVars => Sent' = Sent
    BY DEF savedVars, Sent, Copies
  <2> QED BY <2>1, <2>2, <2>3 DEF ArriveLate, ChangeSaved, savedVars
<1> QED
  BY <1>2, <1>3, <1>4, <1>5, <1>6, <1>7, <1>8 DEF SavedNext, NothingSent

\* One run of send-saved sends its payload at most once: a lost answer is never
\* followed by a second request (send_saved.go:531-533).
THEOREM SendsOnce == SavedSpec => []SavedOnce
<1>1. SavedInv => SavedOnce
  BY DEF SavedInv
<1> QED BY <1>1, SavedInitially, SavedStep, PTL DEF SavedSpec

(***************************************************************************)
(* interview-topic-publish                                                 *)
(***************************************************************************)

Running  == {"journal", "send", "receive", "readback"}
Applying == {"apply"} \cup Running

\* The values of the variables.
PublishTypes ==
    /\ world \in Worlds
    /\ copies \in [Posts -> Nat] /\ flight \in SUBSET Posts
    /\ receipts \in [DOMAIN Manifests -> [Posts -> Receipts]]
    /\ publish \in [pc : PublishPcs, manifest : DOMAIN Manifests, apply : BOOLEAN,
                    i : Nat, ids : SUBSET Posts]
    /\ publish.i \in 1..Len(Manifest) + 1

\* Where a run is: on a manifest in use, and while it sends, with --apply, at
\* a post of the manifest whose receipt says how far it is.
RunPlaced ==
    /\ publish.pc # "idle" => publish.manifest \in world.manifests
    /\ publish.pc \in Running => publish.apply = TRUE /\ publish.i <= Len(Manifest)
    /\ publish.pc = "journal" => Receipt = "none"
    /\ publish.pc \in {"send", "receive"} => Receipt = "unknown"

\* What a run with --apply has passed is confirmed.
PassedConfirmed ==
    publish.pc \in Applying /\ publish.apply = TRUE =>
        \A k \in DOMAIN Manifest :
            k < publish.i => receipts[publish.manifest][Manifest[k].post] = "confirmed"

\* A receipt belongs to a post of the manifest.
ReceiptsListed ==
    \A m \in DOMAIN Manifests, p \in Posts : receipts[m][p] # "none" =>
        \E i \in DOMAIN Manifests[m] : Manifests[m][i].post = p

Tried(p)   == copies[p] > 0 \/ p \in flight
Untried(p) == copies[p] = 0 /\ p \notin flight

\* Where the server forgets, a post was sent only if a receipt says so, and
\* what was sent is there or in flight, not both.
TriedHasReceipt ==
    world.dedupe = FALSE =>
        /\ \A p \in Posts : Tried(p) =>
               /\ \E m \in world.manifests : receipts[m][p] # "none"
               /\ copies[p] > 0 => p \notin flight
        /\ publish.pc = "send" => Untried(Entry.post)

PublishInv ==
    /\ PublishTypes /\ RunPlaced /\ PassedConfirmed /\ ReceiptsListed /\ ReceiptsInOrder
    /\ TriedHasReceipt /\ AtMostOnce

\* What the proofs use of a listing.
LEMMA ListingFacts ==
    ASSUME PublishTypes
    PROVE  /\ Manifest \in Seq(Entries) /\ Len(Manifest) \in Nat /\ DOMAIN Manifest = 1..Len(Manifest)
           /\ \A k \in DOMAIN Manifest : Manifest[k].post \in Posts
           /\ publish.i <= Len(Manifest) => publish.i \in DOMAIN Manifest
<1>1. Manifest \in Seq(Entries)
  BY PublishConstants DEF PublishTypes, Manifest
<1>2. \A k \in DOMAIN Manifest : Manifest[k] \in Entries
  BY <1>1
<1>3. \A e \in Entries : e.post \in Posts
  BY DEF Entries
<1> QED BY <1>1, <1>2, <1>3 DEF PublishTypes

\* The first run may begin.
LEMMA NoPublishType ==
    /\ NoPublish \in [pc : PublishPcs, manifest : DOMAIN Manifests, apply : BOOLEAN,
                      i : Nat, ids : SUBSET Posts]
    /\ NoPublish.pc = "idle"
    /\ NoPublish.i \in 1..Len(Manifests[NoPublish.manifest]) + 1
<1>1. NoPublish.manifest \in DOMAIN Manifests
  BY PublishConstants DEF NoPublish
<1>2. Len(Manifests[NoPublish.manifest]) \in Nat
  BY <1>1, PublishConstants
<1> QED BY <1>1, <1>2 DEF NoPublish, PublishPcs

\* Before the first command nothing was published.
LEMMA PublishInitially == PublishInit => PublishInv
<1> SUFFICES ASSUME PublishInit PROVE PublishInv
  OBVIOUS
<1>1. PublishTypes
  BY NoPublishType DEF PublishInit, PublishTypes, Receipts, Manifest
<1>2. RunPlaced /\ PassedConfirmed
  BY NoPublishType DEF PublishInit, RunPlaced, PassedConfirmed, Running, Applying
<1>3. \A m \in DOMAIN Manifests, p \in Posts : receipts[m][p] = "none"
  BY DEF PublishInit
<1>4. ReceiptsListed
  BY <1>3 DEF ReceiptsListed
<1>5. ReceiptsInOrder
  <2>1. \A m \in DOMAIN Manifests : \A j \in DOMAIN Manifests[m] : Manifests[m][j].post \in Posts
    <3> SUFFICES ASSUME NEW m \in DOMAIN Manifests, NEW j \in DOMAIN Manifests[m]
                 PROVE  Manifests[m][j].post \in Posts
      OBVIOUS
    <3>1. Manifests[m] \in Seq(Entries)
      BY PublishConstants
    <3>2. Manifests[m][j] \in Entries
      BY <3>1
    <3> QED BY <3>2 DEF Entries
  <2> QED BY <1>3, <2>1 DEF ReceiptsInOrder
<1>6. TriedHasReceipt /\ AtMostOnce
  BY NoPublishType DEF PublishInit, TriedHasReceipt, Tried, AtMostOnce
<1> QED BY <1>1, <1>2, <1>4, <1>5, <1>6 DEF PublishInv

\* A receipt that is saved for the post a run with --apply is at keeps the
\* order: what precedes the post is confirmed, and if the post was not
\* confirmed yet, nothing behind it has a receipt.
LEMMA SaveInOrder ==
    ASSUME PublishInv, publish.pc \in Applying, publish.apply = TRUE, publish.i <= Len(Manifest),
           NEW r \in Receipts \ {"none"}, r = "confirmed" \/ Receipt # "confirmed", Save(r)
    PROVE  /\ receipts' \in [DOMAIN Manifests -> [Posts -> Receipts]]
           /\ ReceiptsListed' /\ ReceiptsInOrder'
           /\ \A m \in DOMAIN Manifests, p \in Posts :
                  receipts'[m][p] = IF m = publish.manifest /\ p = Entry.post
                                    THEN r ELSE receipts[m][p]
           /\ \A k \in DOMAIN Manifest : k < publish.i =>
                  receipts'[publish.manifest][Manifest[k].post] = "confirmed"
<1> DEFINE M == publish.manifest
<1>1. /\ M \in DOMAIN Manifests /\ publish.i \in DOMAIN Manifest /\ Entry.post \in Posts
      /\ receipts \in [DOMAIN Manifests -> [Posts -> Receipts]]
  BY ListingFacts DEF PublishInv, PublishTypes, Entry
<1>2. /\ receipts' \in [DOMAIN Manifests -> [Posts -> Receipts]]
      /\ \A m \in DOMAIN Manifests, p \in Posts :
             receipts'[m][p] = IF m = M /\ p = Entry.post THEN r ELSE receipts[m][p]
  BY <1>1 DEF Save
<1>3. ReceiptsListed'
  BY <1>1, <1>2 DEF PublishInv, ReceiptsListed, Manifest, Entry
<1>4. \A m \in DOMAIN Manifests : \A k \in DOMAIN Manifests[m] :
          /\ k \in Nat /\ Manifests[m][k].post \in Posts
          /\ m = M /\ Manifests[m][k].post = Entry.post => k = publish.i
  <2> SUFFICES ASSUME NEW m \in DOMAIN Manifests, NEW k \in DOMAIN Manifests[m]
               PROVE  /\ k \in Nat /\ Manifests[m][k].post \in Posts
                      /\ m = M /\ Manifests[m][k].post = Entry.post => k = publish.i
    OBVIOUS
  <2>1. Manifests[m] \in Seq(Entries)
    BY PublishConstants
  <2>2. k \in Nat /\ Manifests[m][k] \in Entries
    BY <2>1
  <2> QED BY <1>1, <2>2, UniquePosts DEF Entries, Manifest, Entry
<1>5. \A k \in DOMAIN Manifest : k < publish.i => receipts[M][Manifest[k].post] = "confirmed"
  BY DEF PublishInv, PassedConfirmed
<1>6. \A k \in DOMAIN Manifest : k < publish.i => receipts'[M][Manifest[k].post] = "confirmed"
  BY <1>1, <1>2, <1>4, <1>5 DEF Manifest
<1>7. ReceiptsInOrder'
  <2> SUFFICES ASSUME NEW m \in DOMAIN Manifests,
                      NEW i \in DOMAIN Manifests[m], NEW j \in DOMAIN Manifests[m],
                      i < j, receipts'[m][Manifests[m][j].post] # "none"
               PROVE  receipts'[m][Manifests[m][i].post] = "confirmed"
    BY DEF ReceiptsInOrder
  <2>1. CASE m # M
    BY <1>2, <1>4, <2>1 DEF PublishInv, ReceiptsInOrder
  <2>2. CASE m = M /\ j = publish.i
    BY <1>6, <2>2 DEF Manifest
  <2>3. CASE m = M /\ j # publish.i
    <3>1. receipts[m][Manifests[m][j].post] # "none"
      BY <1>2, <1>4, <2>3
    <3>2. receipts[m][Manifests[m][i].post] = "confirmed"
      BY <3>1 DEF PublishInv, ReceiptsInOrder
    <3>3. CASE i = publish.i
      <4>1. Receipt = "confirmed"
        BY <2>3, <3>2, <3>3 DEF Receipt, Entry, Manifest
      <4>2. r = "confirmed" /\ Manifests[m][i].post = Entry.post
        BY <2>3, <3>3, <4>1 DEF Entry, Manifest
      <4> QED BY <1>1, <1>2, <2>3, <4>2
    <3>4. CASE i # publish.i
      BY <1>2, <1>4, <2>3, <3>2, <3>4
    <3> QED BY <3>3, <3>4
  <2> QED BY <2>1, <2>2, <2>3
<1> QED BY <1>2, <1>3, <1>6, <1>7

\* A run that stops leaves nothing to keep.
LEMMA PublishStops ==
    ASSUME PublishInv, publish' = NoPublish, UNCHANGED <<world, copies, flight, receipts>>
    PROVE  PublishInv'
<1>1. PublishTypes'
  BY NoPublishType DEF PublishInv, PublishTypes, Manifest
<1>2. RunPlaced' /\ PassedConfirmed'
  BY NoPublishType DEF RunPlaced, PassedConfirmed, Running, Applying
<1>3. ReceiptsListed' /\ ReceiptsInOrder' /\ AtMostOnce'
  BY DEF PublishInv, ReceiptsListed, ReceiptsInOrder, AtMostOnce
<1>4. TriedHasReceipt'
  BY NoPublishType DEF PublishInv, TriedHasReceipt, Tried
<1> QED BY <1>1, <1>2, <1>3, <1>4 DEF PublishInv

\* Where the server forgets, a post without a receipt was never tried.
LEMMA NeverTried ==
    ASSUME PublishInv, publish.pc = "journal", world.dedupe = FALSE
    PROVE  Untried(Entry.post)
<1>1. publish.i \in DOMAIN Manifest /\ Entry.post \in Posts
  BY ListingFacts DEF PublishInv, RunPlaced, Running, Entry
<1>2. ASSUME NEW m \in world.manifests, receipts[m][Entry.post] # "none"
      PROVE  FALSE
  <2>1. world \in Worlds /\ m \in DOMAIN Manifests
    BY PublishConstants DEF PublishInv, PublishTypes
  <2>2. PICK i \in DOMAIN Manifests[m] : Manifests[m][i].post = Entry.post
    BY <1>1, <1>2, <2>1 DEF PublishInv, ReceiptsListed
  <2>3. m = publish.manifest
    BY <1>1, <2>1, <2>2, SeparateManifests DEF PublishInv, RunPlaced, Manifest, Entry
  <2> QED BY <1>2, <2>3 DEF PublishInv, RunPlaced, Receipt
<1>3. ~Tried(Entry.post)
  BY <1>1, <1>2 DEF PublishInv, TriedHasReceipt
<1> QED BY <1>1, <1>3 DEF PublishInv, PublishTypes, Tried, Untried

\* What a run that only moves on has to show.
LEMMA PublishMoves ==
    ASSUME PublishInv, UNCHANGED <<world, copies, flight, receipts>>,
           publish' \in [pc : PublishPcs, manifest : DOMAIN Manifests, apply : BOOLEAN,
                         i : Nat, ids : SUBSET Posts],
           publish'.i \in 1..Len(Manifests[publish'.manifest]) + 1,
           publish'.manifest \in world.manifests, publish'.pc \in {"preflight", "apply", "journal"},
           publish'.pc = "journal" => publish'.apply = TRUE /\ publish'.i <= Len(Manifest') /\ Receipt' = "none",
           PassedConfirmed'
    PROVE  PublishInv'
<1>1. PublishTypes'
  BY DEF PublishInv, PublishTypes, Manifest
<1>2. RunPlaced'
  BY DEF RunPlaced, Running
<1>3. ReceiptsListed' /\ ReceiptsInOrder' /\ AtMostOnce'
  BY DEF PublishInv, ReceiptsListed, ReceiptsInOrder, AtMostOnce
<1>4. TriedHasReceipt'
  BY DEF PublishInv, TriedHasReceipt, Tried
<1> QED BY <1>1, <1>2, <1>3, <1>4 DEF PublishInv

\* What a run that saves a receipt has to show.
LEMMA PublishSaves ==
    ASSUME PublishInv, UNCHANGED <<world, copies, flight>>,
           publish.pc \in Applying, publish.apply = TRUE, publish.i <= Len(Manifest),
           NEW r \in Receipts \ {"none"}, r = "confirmed" \/ Receipt # "confirmed", Save(r),
           NEW to \in {"apply", "send", "readback"}, NEW ids \in SUBSET Posts,
           NEW n \in {publish.i, publish.i + 1},
           publish' = [publish EXCEPT !.pc = to, !.i = n, !.ids = ids],
           to # "apply" => n = publish.i, to = "apply" => r = "confirmed",
           to = "send" => r = "unknown" /\ publish.pc = "journal"
    PROVE  PublishInv'
<1>0. /\ publish.i \in DOMAIN Manifest /\ Entry.post \in Posts
      /\ \A k \in DOMAIN Manifest : k \in Nat /\ Manifest[k].post \in Posts
      /\ Manifest' = Manifest
  BY ListingFacts DEF PublishInv, PublishTypes, Entry, Manifest
<1>1. /\ receipts' \in [DOMAIN Manifests -> [Posts -> Receipts]]
      /\ ReceiptsListed' /\ ReceiptsInOrder'
      /\ \A m \in DOMAIN Manifests, p \in Posts :
             receipts'[m][p] = IF m = publish.manifest /\ p = Entry.post
                               THEN r ELSE receipts[m][p]
      /\ \A k \in DOMAIN Manifest : k < publish.i =>
             receipts'[publish.manifest][Manifest[k].post] = "confirmed"
  BY SaveInOrder
<1>2. /\ publish' \in [pc : PublishPcs, manifest : DOMAIN Manifests, apply : BOOLEAN,
                       i : Nat, ids : SUBSET Posts]
      /\ publish'.pc = to /\ publish'.i = n /\ publish'.manifest = publish.manifest
      /\ publish'.apply = TRUE
  <2>1. publish \in [pc : PublishPcs, manifest : DOMAIN Manifests, apply : BOOLEAN,
                     i : Nat, ids : SUBSET Posts]
    BY DEF PublishInv, PublishTypes
  <2>2. n \in Nat /\ to \in PublishPcs
    BY <2>1 DEF PublishPcs
  <2> QED BY <2>1, <2>2
<1>3. PublishTypes'
  <2>1. publish'.i \in 1..Len(Manifest') + 1
    BY <1>0, <1>2, ListingFacts DEF PublishInv, PublishTypes
  <2> QED BY <1>1, <1>2, <2>1 DEF PublishInv, PublishTypes
<1>4. publish.manifest \in DOMAIN Manifests /\ publish.manifest \in world.manifests
  BY DEF PublishInv, PublishTypes, RunPlaced, Applying, Running
<1>5. receipts'[publish.manifest][Entry.post] = r
  BY <1>0, <1>1, <1>4
<1>6. RunPlaced'
  <2>1. to # "apply" => Receipt' = r /\ Entry' = Entry /\ publish'.i <= Len(Manifest')
    BY <1>0, <1>2, <1>5 DEF Receipt, Entry
  <2> QED BY <1>2, <1>4, <2>1 DEF RunPlaced, Running
<1>7. PassedConfirmed'
  <2> SUFFICES ASSUME NEW k \in DOMAIN Manifest, k < n
               PROVE  receipts'[publish.manifest][Manifest[k].post] = "confirmed"
    BY <1>0, <1>2 DEF PassedConfirmed
  <2>1. CASE k < publish.i
    BY <1>1, <2>1
  <2>2. CASE k >= publish.i
    <3>1. k = publish.i /\ r = "confirmed"
      BY <1>0, <2>2
    <3> QED BY <1>5, <3>1 DEF Entry
  <2> QED BY <1>0, <2>1, <2>2
<1>8. AtMostOnce'
  BY DEF PublishInv, AtMostOnce
<1>9. TriedHasReceipt'
  <2> SUFFICES ASSUME world.dedupe = FALSE PROVE TriedHasReceipt'
    BY DEF TriedHasReceipt
  <2>1. world \in Worlds /\ world.manifests \subseteq DOMAIN Manifests
    BY PublishConstants DEF PublishInv, PublishTypes
  <2>2. \A p \in Posts : Tried(p) =>
            /\ \E m \in world.manifests : receipts'[m][p] # "none"
            /\ copies[p] > 0 => p \notin flight
    BY <1>1, <2>1 DEF PublishInv, TriedHasReceipt
  <2>3. to = "send" => Untried(Entry.post) /\ Entry' = Entry
    BY <1>0, <1>2, NeverTried DEF Entry
  <2> QED BY <1>2, <2>2, <2>3 DEF TriedHasReceipt, Tried, Untried
<1> QED BY <1>1, <1>3, <1>6, <1>7, <1>8, <1>9 DEF PublishInv

\* What Telegram does while the run stays where it is.
LEMMA PublishServes ==
    ASSUME PublishInv, UNCHANGED <<world, receipts, publish>>,
           copies' \in [Posts -> Nat], flight' \in SUBSET Posts, AtMostOnce',
           world.dedupe = FALSE => \A p \in Posts :
               /\ Tried(p)' => Tried(p)
               /\ copies'[p] > 0 => p \notin flight'
    PROVE  PublishInv'
<1>1. PublishTypes'
  BY DEF PublishInv, PublishTypes, Manifest
<1>2. RunPlaced' /\ PassedConfirmed'
  BY DEF PublishInv, RunPlaced, PassedConfirmed, Manifest, Entry, Receipt
<1>3. ReceiptsListed' /\ ReceiptsInOrder'
  BY DEF PublishInv, ReceiptsListed, ReceiptsInOrder
<1>4. TriedHasReceipt'
  <2> SUFFICES ASSUME world.dedupe = FALSE PROVE TriedHasReceipt'
    BY DEF TriedHasReceipt
  <2>1. publish.pc = "send" => Entry.post \in Posts /\ Untried(Entry.post) /\ Entry' = Entry
    BY ListingFacts DEF PublishInv, TriedHasReceipt, RunPlaced, Running, Entry, Manifest
  <2>2. publish.pc = "send" => Untried(Entry.post)'
    BY <1>1, <2>1 DEF Tried, Untried, PublishInv, PublishTypes
  <2> QED BY <2>2 DEF PublishInv, TriedHasReceipt
<1> QED BY <1>1, <1>2, <1>3, <1>4 DEF PublishInv

\* Every step of a publication keeps its invariant.
LEMMA PublishStep == PublishInv /\ [PublishNext]_publishVars => PublishInv'
<1> SUFFICES ASSUME PublishInv, [PublishNext]_publishVars PROVE PublishInv'
  OBVIOUS
<1>0. /\ publish \in [pc : PublishPcs, manifest : DOMAIN Manifests, apply : BOOLEAN,
                      i : Nat, ids : SUBSET Posts]
      /\ publish.i \in 1..Len(Manifest) + 1 /\ Len(Manifest) \in Nat
      /\ copies \in [Posts -> Nat] /\ flight \in SUBSET Posts
      /\ publish.i <= Len(Manifest) => Entry.post \in Posts
      /\ world \in Worlds /\ world.manifests \subseteq DOMAIN Manifests
  BY ListingFacts, PublishConstants DEF PublishInv, PublishTypes, Entry
<1>1. ASSUME NEW m \in DOMAIN Manifests, NEW apply \in BOOLEAN, StartPublish(m, apply)
      PROVE  PublishInv'
  <2>1. Len(Manifests[m]) \in Nat
    BY PublishConstants
  <2>2. publish' \in [pc : PublishPcs, manifest : DOMAIN Manifests, apply : BOOLEAN,
                      i : Nat, ids : SUBSET Posts]
    BY <1>1 DEF StartPublish, PublishPcs
  <2>3. PassedConfirmed'
    BY <1>1 DEF StartPublish, PassedConfirmed, Applying, Running
  <2> QED BY <1>1, <2>1, <2>2, <2>3, PublishMoves DEF StartPublish, server
<1>2. CASE Preflight
  <2>1. /\ publish'.pc = "preflight" /\ publish'.manifest = publish.manifest
        /\ publish'.i = publish.i + 1
        /\ publish' \in [pc : PublishPcs, manifest : DOMAIN Manifests, apply : BOOLEAN,
                         i : Nat, ids : SUBSET Posts]
    <3>1. publish.i + 1 \in Nat
      BY <1>0
    <3> QED BY <1>0, <1>2, <3>1 DEF Preflight, Advance
  <2>2. publish'.i \in 1..Len(Manifests[publish'.manifest]) + 1
    BY <1>0, <1>2, <2>1 DEF Preflight, Manifest
  <2>3. PassedConfirmed'
    BY <2>1 DEF PassedConfirmed, Applying, Running
  <2> QED
    BY <1>2, <2>1, <2>2, <2>3, PublishMoves DEF Preflight, server, PublishInv, RunPlaced
<1>3. CASE EndPreflight
  <2>1. /\ publish'.pc = "apply" /\ publish'.manifest = publish.manifest /\ publish'.i = 1
        /\ publish' \in [pc : PublishPcs, manifest : DOMAIN Manifests, apply : BOOLEAN,
                         i : Nat, ids : SUBSET Posts]
    BY <1>0, <1>3 DEF EndPreflight, PublishPcs
  <2>2. PassedConfirmed'
    BY <1>0, <2>1, ListingFacts DEF PassedConfirmed, PublishInv, Manifest
  <2>3. publish'.i \in 1..Len(Manifests[publish'.manifest]) + 1
    BY <1>0, <2>1 DEF Manifest
  <2> QED
    BY <1>3, <2>1, <2>2, <2>3, PublishMoves
       DEF EndPreflight, server, PublishInv, RunPlaced, Manifest
<1>4. CASE ConfirmKnown
  <2>1. CASE publish.apply = TRUE
    <3>1. publish' = [publish EXCEPT !.pc = "apply", !.i = publish.i + 1, !.ids = publish.ids]
      BY <1>0, <1>4 DEF ConfirmKnown, Advance
    <3> QED
      BY <1>0, <1>4, <2>1, <3>1, PublishSaves DEF ConfirmKnown, server, Applying, Receipts
  <2>2. CASE publish.apply = FALSE
    <3>1. /\ publish'.pc = "apply" /\ publish'.manifest = publish.manifest
          /\ publish'.i = publish.i + 1 /\ publish'.apply = FALSE
          /\ publish' \in [pc : PublishPcs, manifest : DOMAIN Manifests, apply : BOOLEAN,
                           i : Nat, ids : SUBSET Posts]
      <4>1. publish.i + 1 \in Nat
        BY <1>0
      <4> QED BY <1>0, <1>4, <2>2, <4>1 DEF ConfirmKnown, Advance
    <3>2. PassedConfirmed'
      BY <3>1 DEF PassedConfirmed
    <3>3. publish'.i \in 1..Len(Manifests[publish'.manifest]) + 1
      BY <1>0, <1>4, <3>1 DEF ConfirmKnown, Manifest
    <3> QED
      BY <1>4, <2>2, <3>1, <3>2, <3>3, PublishMoves
         DEF ConfirmKnown, server, PublishInv, RunPlaced
  <2> QED BY <1>0, <2>1, <2>2
<1>5. CASE LookForNew
  <2>1. CASE publish.apply = TRUE
    <3>1. /\ publish'.pc = "journal" /\ publish'.manifest = publish.manifest
          /\ publish'.i = publish.i /\ publish'.apply = TRUE
          /\ publish' \in [pc : PublishPcs, manifest : DOMAIN Manifests, apply : BOOLEAN,
                           i : Nat, ids : SUBSET Posts]
      BY <1>0, <1>5, <2>1 DEF LookForNew, ToStep, PublishPcs
    <3>2. Receipt' = "none" /\ Len(Manifest') = Len(Manifest)
      BY <1>5, <3>1 DEF LookForNew, NewPost, Receipt, Entry, Manifest
    <3>3. PassedConfirmed'
      BY <1>5, <2>1, <3>1
         DEF LookForNew, PublishInv, PassedConfirmed, Applying, Running, Manifest
    <3> QED
      BY <1>0, <1>5, <3>1, <3>2, <3>3, PublishMoves
         DEF LookForNew, server, PublishInv, RunPlaced, Manifest
  <2>2. CASE publish.apply = FALSE
    <3>1. /\ publish'.pc = "apply" /\ publish'.manifest = publish.manifest
          /\ publish'.i = publish.i + 1 /\ publish'.apply = FALSE
          /\ publish' \in [pc : PublishPcs, manifest : DOMAIN Manifests, apply : BOOLEAN,
                           i : Nat, ids : SUBSET Posts]
      <4>1. publish.i + 1 \in Nat
        BY <1>0
      <4>2. publish.pc = "apply" /\ Advance({})
        BY <1>5, <2>2 DEF LookForNew
      <4> QED BY <1>0, <2>2, <4>1, <4>2 DEF Advance
    <3>2. PassedConfirmed'
      BY <3>1 DEF PassedConfirmed
    <3>3. publish'.i \in 1..Len(Manifests[publish'.manifest]) + 1
      BY <1>0, <1>5, <3>1 DEF LookForNew, Manifest
    <3> QED
      BY <1>5, <2>2, <3>1, <3>2, <3>3, PublishMoves
         DEF LookForNew, server, PublishInv, RunPlaced
  <2> QED BY <1>0, <2>1, <2>2
<1>6. CASE JournalSend
  <2>1. publish.apply = TRUE /\ publish.i <= Len(Manifest) /\ Receipt # "confirmed"
    BY <1>6 DEF JournalSend, PublishInv, RunPlaced, Running
  <2>2. publish' = [publish EXCEPT !.pc = "send", !.i = publish.i, !.ids = publish.ids]
    BY <1>0, <1>6 DEF JournalSend, ToStep
  <2> QED
    BY <1>0, <1>6, <2>1, <2>2, PublishSaves
       DEF JournalSend, server, Applying, Running, Receipts
<1>7. CASE SaveID
  <2>1. publish.apply = TRUE /\ publish.i <= Len(Manifest) /\ Receipt # "confirmed"
    BY <1>7 DEF SaveID, PublishInv, RunPlaced, Running
  <2>2. publish' = [publish EXCEPT !.pc = "readback", !.i = publish.i, !.ids = publish.ids]
    BY <1>0, <1>7 DEF SaveID, ToStep
  <2> QED
    BY <1>0, <1>7, <2>1, <2>2, PublishSaves DEF SaveID, server, Applying, Running, Receipts
<1>8. CASE Readback
  <2>1. publish.apply = TRUE /\ publish.i <= Len(Manifest)
    BY <1>8 DEF Readback, PublishInv, RunPlaced, Running
  <2>2. /\ publish' = [publish EXCEPT !.pc = "apply", !.i = publish.i + 1,
                                      !.ids = publish.ids \cup {Entry.post}]
        /\ publish.ids \cup {Entry.post} \in SUBSET Posts
    BY <1>0, <1>8, <2>1 DEF Readback
  <2> QED
    BY <1>0, <1>8, <2>1, <2>2, PublishSaves DEF Readback, server, Applying, Running, Receipts
<1>9. CASE SendAnswered
  <2>1. /\ publish.apply = TRUE /\ publish.i <= Len(Manifest) /\ Receipt = "unknown"
        /\ Entry.post \in Posts /\ publish.manifest \in world.manifests
    BY <1>0, <1>9 DEF SendAnswered, PublishInv, RunPlaced, Running
  <2>2. /\ publish'.pc = "receive" /\ publish'.i = publish.i
        /\ publish'.manifest = publish.manifest /\ publish'.apply = TRUE
        /\ publish' \in [pc : PublishPcs, manifest : DOMAIN Manifests, apply : BOOLEAN,
                         i : Nat, ids : SUBSET Posts]
        /\ Manifest' = Manifest /\ Entry' = Entry /\ Receipt' = Receipt
    BY <1>0, <1>9, <2>1 DEF SendAnswered, ToStep, PublishPcs, Manifest, Entry, Receipt
  <2>3. copies[Entry.post] = 0
    <3>1. CASE world.dedupe = FALSE
      BY <1>9, <3>1 DEF SendAnswered, PublishInv, TriedHasReceipt, Untried
    <3>2. CASE world.dedupe = TRUE
      BY <1>0, <1>9, <2>1, <3>2 DEF SendAnswered, Refused
    <3> QED BY <1>0, <3>1, <3>2, PublishConstants
  <2>4. copies' = [copies EXCEPT ![Entry.post] = 1]
    BY <1>0, <1>9, <2>1, <2>3 DEF SendAnswered, Carry
  <2>5. PublishTypes' /\ AtMostOnce'
    <3>1. copies' \in [Posts -> Nat] /\ \A p \in Posts : copies'[p] <= 1
      <4>1. \A p \in Posts : copies[p] <= 1
        BY DEF PublishInv, AtMostOnce
      <4>2. copies \in [Posts -> Nat] /\ copies' = [copies EXCEPT ![Entry.post] = 1]
        BY <1>0, <2>4
      <4>3. \A p \in Posts : copies'[p] = 1 \/ copies'[p] = copies[p]
        BY <4>2
      <4>4. copies' \in [Posts -> Nat]
        BY <4>2
      <4> QED BY <4>1, <4>3, <4>4
    <3> QED BY <1>0, <1>9, <2>2, <3>1 DEF SendAnswered, PublishInv, PublishTypes, AtMostOnce
  <2>6. RunPlaced' /\ PassedConfirmed'
    BY <1>9, <2>1, <2>2
       DEF SendAnswered, PublishInv, RunPlaced, PassedConfirmed, Applying, Running
  <2>7. ReceiptsListed' /\ ReceiptsInOrder'
    BY <1>9 DEF SendAnswered, PublishInv, ReceiptsListed, ReceiptsInOrder
  <2>8. TriedHasReceipt'
    <3> SUFFICES ASSUME world.dedupe = FALSE,
                        NEW p \in Posts, copies'[p] > 0 \/ p \in flight
                 PROVE  /\ \E m \in world.manifests : receipts[m][p] # "none"
                        /\ copies'[p] > 0 => p \notin flight
      BY <1>9, <2>2 DEF SendAnswered, TriedHasReceipt, Tried
    <3>1. Untried(Entry.post)
      BY <1>9 DEF SendAnswered, PublishInv, TriedHasReceipt
    <3>2. CASE p = Entry.post
      BY <2>1, <3>1, <3>2 DEF Receipt, Untried
    <3>3. CASE p # Entry.post
      <4>1. copies'[p] = copies[p]
        BY <1>0, <2>4, <3>3
      <4> QED BY <3>3, <4>1 DEF PublishInv, TriedHasReceipt, Tried
    <3> QED BY <3>2, <3>3
  <2> QED BY <2>5, <2>6, <2>7, <2>8 DEF PublishInv
<1>10. CASE SendLost
  <2>1. /\ publish.i <= Len(Manifest) /\ Receipt = "unknown"
        /\ Entry.post \in Posts /\ publish.manifest \in world.manifests
    BY <1>0, <1>10 DEF SendLost, PublishInv, RunPlaced, Running
  <2>2. PublishTypes'
    BY <1>0, <1>10, <2>1, NoPublishType DEF SendLost, PublishInv, PublishTypes, Manifest
  <2>3. RunPlaced' /\ PassedConfirmed'
    BY <1>10, NoPublishType DEF SendLost, RunPlaced, PassedConfirmed, Running, Applying
  <2>4. ReceiptsListed' /\ ReceiptsInOrder' /\ AtMostOnce'
    BY <1>10 DEF SendLost, PublishInv, ReceiptsListed, ReceiptsInOrder, AtMostOnce
  <2>5. TriedHasReceipt'
    <3> SUFFICES ASSUME world.dedupe = FALSE,
                        NEW p \in Posts, copies[p] > 0 \/ p \in flight'
                 PROVE  /\ \E m \in world.manifests : receipts[m][p] # "none"
                        /\ copies[p] > 0 => p \notin flight'
      BY <1>10, NoPublishType DEF SendLost, TriedHasReceipt, Tried
    <3>1. Untried(Entry.post) /\ flight' = flight \cup {Entry.post}
      BY <1>10 DEF SendLost, PublishInv, TriedHasReceipt
    <3>2. CASE p = Entry.post
      BY <2>1, <3>1, <3>2 DEF Receipt, Untried
    <3>3. CASE p # Entry.post
      BY <3>1, <3>3 DEF PublishInv, TriedHasReceipt, Tried
    <3> QED BY <3>2, <3>3
  <2> QED BY <2>2, <2>3, <2>4, <2>5 DEF PublishInv
<1>11. CASE EndPublish \/ RefusePublish \/ Interrupt
  BY <1>11, PublishStops DEF EndPublish, RefusePublish, Interrupt, server
<1>12. ASSUME NEW p \in Posts, Land(p) PROVE PublishInv'
  <2>1. CASE UNCHANGED copies
    <3>1. AtMostOnce'
      BY <2>1 DEF PublishInv, AtMostOnce
    <3> QED BY <1>0, <1>12, <2>1, <3>1, PublishServes
            DEF Land, PublishInv, TriedHasReceipt, Tried
  <2>2. CASE Carry(p)
    <3>1. world.dedupe \in BOOLEAN
      BY <1>0, PublishConstants
    <3>2. copies[p] \in Nat /\ copies[p] <= 1
      BY <1>0 DEF PublishInv, AtMostOnce
    <3>3. copies[p] = 0 \/ Refused(p)
      BY <1>12, <3>1, <3>2 DEF Land, PublishInv, TriedHasReceipt, Tried, Refused
    <3>4. copies' = [copies EXCEPT ![p] = IF Refused(p) THEN copies[p] ELSE 1]
      <4>1. CASE Refused(p)
        BY <1>0, <2>2, <4>1 DEF Carry
      <4>2. CASE ~Refused(p)
        <5>1. copies[p] + 1 = 1
          BY <3>3, <4>2
        <5> QED BY <2>2, <4>2, <5>1 DEF Carry
      <4> QED BY <4>1, <4>2
    <3>5. copies' \in [Posts -> Nat] /\ AtMostOnce'
      BY <1>0, <3>4 DEF PublishInv, AtMostOnce
    <3>6. \A q \in Posts : q # p => copies'[q] = copies[q]
      BY <1>0, <3>4
    <3>7. ASSUME world.dedupe = FALSE, NEW q \in Posts
          PROVE  /\ Tried(q)' => Tried(q)
                 /\ copies'[q] > 0 => q \notin flight'
      BY <1>12, <3>6, <3>7 DEF Land, PublishInv, TriedHasReceipt, Tried
    <3> QED BY <1>0, <1>12, <3>5, <3>7, PublishServes DEF Land
  <2> QED BY <1>12, <2>1, <2>2 DEF Land
<1>13. ASSUME NEW p \in Posts, Touch(p) PROVE PublishInv'
  <2>1. AtMostOnce'
    BY <1>13 DEF Touch, PublishInv, AtMostOnce
  <2> QED BY <1>0, <1>13, <2>1, PublishServes DEF Touch, PublishInv, TriedHasReceipt, Tried
<1>14. CASE UNCHANGED publishVars
  <2>1. AtMostOnce'
    BY <1>14 DEF publishVars, server, PublishInv, AtMostOnce
  <2> QED BY <1>0, <1>14, <2>1, PublishServes
          DEF publishVars, server, PublishInv, TriedHasReceipt, Tried
<1> QED
  BY <1>1, <1>2, <1>3, <1>4, <1>5, <1>6, <1>7, <1>8, <1>9, <1>10, <1>11, <1>12, <1>13, <1>14
     DEF PublishNext, PublishRun

\* Every behaviour of a publication keeps its invariant.
LEMMA PublishInvariance == PublishSpec => []PublishInv
BY PublishInitially, PublishStep, PTL DEF PublishSpec

\* No post is published twice: not by a run after an interrupted one, not by an
\* answer that is late, and not by a continuation manifest where the server
\* remembers random IDs (interview_topic_publish.go:383-385 and 451-455).
THEOREM PublishedOnce == PublishSpec => []AtMostOnce
<1>1. PublishInv => AtMostOnce
  BY DEF PublishInv
<1> QED BY <1>1, PublishInvariance, PTL

\* Receipts are written in the order of the manifest, each when all before it
\* are confirmed (interview_topic_publish.go:455-497).
THEOREM ReceiptsOrdered == PublishSpec => []ReceiptsInOrder
<1>1. PublishInv => ReceiptsInOrder
  BY DEF PublishInv
<1> QED BY <1>1, PublishInvariance, PTL

(***************************************************************************)
(* interview-topic-replace-video                                           *)
(***************************************************************************)

\* A replacement whose receipt is pending was seen carried out: the old message
\* does not stand any more, and never will again.
Settled(m) == editReceipt[m] = "pending" => body[m] # "old"

EditTypes ==
    /\ command \in DOMAIN Items /\ body \in [Messages -> Bodies]
    /\ editReceipt \in [Messages -> {"none", "pending", "done"}]
    /\ asked \in [Messages -> Nat]
    /\ edit \in [pc : EditPcs, apply : BOOLEAN, i : Nat \ {0}, refused : BOOLEAN]

\* Where a run is, and which items it knows to be settled: the first pass, those
\* behind it; the second, those it still has to do.
EditPlaced ==
    /\ edit.pc \in {"upload", "change", "verify"} => edit.i \in DOMAIN Items[command]
    /\ edit.pc = "preflight" =>
           \A k \in DOMAIN Items[command] : k < edit.i => Settled(Items[command][k])
    /\ edit.pc \in {"apply", "upload"} =>
           \A k \in DOMAIN Items[command] : k >= edit.i => Settled(Items[command][k])
    /\ edit.pc \in {"change", "verify"} =>
           \A k \in DOMAIN Items[command] : k > edit.i => Settled(Items[command][k])

\* A request is pending until it is confirmed, and is made only when none is.
AskedPending ==
    /\ \A m \in Messages : asked[m] <= 1 /\ (asked[m] > 0 => editReceipt[m] = "pending")
    /\ edit.pc = "change" => asked[Item] = 0 /\ editReceipt[Item] = "pending"

ReplaceInv ==
    /\ EditTypes
    /\ command = "replace" => EditPlaced /\ AskedPending

\* What the proofs use of a manifest.
LEMMA ItemFacts ==
    ASSUME EditTypes
    PROVE  /\ DOMAIN Items[command] = 1..Len(Items[command]) /\ Len(Items[command]) \in Nat
           /\ \A k \in DOMAIN Items[command] : k \in Nat /\ Items[command][k] \in Messages
           /\ \A i, j \in DOMAIN Items[command] :
                  Items[command][i] = Items[command][j] => i = j
<1>1. Items[command] \in Seq(Messages)
  BY UniqueItems DEF EditTypes
<1> QED BY <1>1, UniqueItems DEF EditTypes

\* Before the first command nothing was replaced.
LEMMA ReplaceInitially == EditInit => ReplaceInv
<1> SUFFICES ASSUME EditInit PROVE ReplaceInv
  OBVIOUS
<1>1. EditTypes
  BY DEF EditInit, EditTypes, Bodies, NoEdit, EditPcs
<1>2. edit.pc = "idle" /\ \A m \in Messages : asked[m] = 0
  BY DEF EditInit, NoEdit
<1> QED BY <1>1, <1>2 DEF ReplaceInv, EditPlaced, AskedPending

\* The types of what a step changes.
LEMMA EditMoveTypes ==
    ASSUME EditTypes
    PROVE  /\ NoEdit \in [pc : EditPcs, apply : BOOLEAN, i : Nat \ {0}, refused : BOOLEAN]
           /\ NoEdit.pc = "idle"
           /\ \A to \in EditPcs : EditTo(to) =>
                  /\ edit' \in [pc : EditPcs, apply : BOOLEAN, i : Nat \ {0}, refused : BOOLEAN]
                  /\ edit'.pc = to /\ edit'.i = edit.i
           /\ NextItem =>
                  /\ edit' \in [pc : EditPcs, apply : BOOLEAN, i : Nat \ {0}, refused : BOOLEAN]
                  /\ edit'.pc = "apply" /\ edit'.i = edit.i + 1
           /\ More => edit.i \in DOMAIN Items[command]
           /\ edit.i \in DOMAIN Items[command] => Item \in Messages
<1>1. NoEdit \in [pc : EditPcs, apply : BOOLEAN, i : Nat \ {0}, refused : BOOLEAN]
  BY DEF NoEdit, EditPcs
<1>2. edit \in [pc : EditPcs, apply : BOOLEAN, i : Nat \ {0}, refused : BOOLEAN]
  BY DEF EditTypes
<1>3. edit.i + 1 \in Nat \ {0} /\ "apply" \in EditPcs
  BY <1>2 DEF EditPcs
<1>4. More => edit.i \in DOMAIN Items[command]
  BY <1>2, ItemFacts DEF More
<1>5. \A to \in EditPcs : EditTo(to) =>
          /\ edit' \in [pc : EditPcs, apply : BOOLEAN, i : Nat \ {0}, refused : BOOLEAN]
          /\ edit'.pc = to /\ edit'.i = edit.i
  BY <1>2 DEF EditTo
<1>6. NextItem =>
          /\ edit' \in [pc : EditPcs, apply : BOOLEAN, i : Nat \ {0}, refused : BOOLEAN]
          /\ edit'.pc = "apply" /\ edit'.i = edit.i + 1
  BY <1>2, <1>3 DEF NextItem
<1>7. edit.i \in DOMAIN Items[command] => Item \in Messages
  BY ItemFacts DEF Item
<1> QED BY <1>1, <1>4, <1>5, <1>6, <1>7 DEF NoEdit

\* A run that stops knows nothing.
LEMMA EditStops ==
    ASSUME ReplaceInv, edit' = NoEdit, UNCHANGED <<command, body, editReceipt, asked>>
    PROVE  ReplaceInv'
<1>1. EditTypes'
  BY EditMoveTypes DEF ReplaceInv, EditTypes
<1>2. edit'.pc = "idle"
  BY EditMoveTypes DEF ReplaceInv
<1> QED BY <1>1, <1>2 DEF ReplaceInv, EditPlaced, AskedPending

\* The old state of a message never returns, so what is settled stays settled.
LEMMA EditServes ==
    ASSUME ReplaceInv, UNCHANGED <<command, editReceipt, asked, edit>>,
           body' \in [Messages -> Bodies],
           \A m \in Messages : body'[m] = "old" => body[m] = "old"
    PROVE  ReplaceInv'
<1>1. EditTypes'
  BY DEF ReplaceInv, EditTypes
<1>2. \A m \in Messages : Settled(m) => Settled(m)'
  BY DEF Settled
<1>3. EditPlaced => EditPlaced'
  BY <1>2, ItemFacts DEF ReplaceInv, EditPlaced
<1>4. AskedPending => AskedPending'
  BY DEF AskedPending, Item
<1> QED BY <1>1, <1>3, <1>4 DEF ReplaceInv

\* What a run shows that only moves on.
LEMMA EditMoves ==
    ASSUME ReplaceInv, UNCHANGED <<command, body, editReceipt, asked>>,
           edit' \in [pc : EditPcs, apply : BOOLEAN, i : Nat \ {0}, refused : BOOLEAN],
           edit'.pc # "change" \/ command # "replace", command = "replace" => EditPlaced'
    PROVE  ReplaceInv'
<1>1. EditTypes'
  BY DEF ReplaceInv, EditTypes
<1> QED BY <1>1 DEF ReplaceInv, AskedPending

\* What was done is confirmed, and the run goes on behind it.
LEMMA EditConfirms ==
    ASSUME ReplaceInv, UNCHANGED <<command, body>>, edit.i \in DOMAIN Items[command],
           Receive("done"), asked' = [asked EXCEPT ![Item] = 0], NextItem,
           \A k \in DOMAIN Items[command] : k > edit.i => Settled(Items[command][k])
    PROVE  ReplaceInv'
<1>0. /\ editReceipt \in [Messages -> {"none", "pending", "done"}] /\ asked \in [Messages -> Nat]
      /\ EditTypes /\ Item \in Messages /\ edit.i \in Nat
      /\ edit'.pc = "apply" /\ edit'.i = edit.i + 1
  BY EditMoveTypes DEF ReplaceInv, EditTypes
<1>1. /\ editReceipt' \in [Messages -> {"none", "pending", "done"}]
      /\ \A m \in Messages : editReceipt'[m] = IF m = Item THEN "done" ELSE editReceipt[m]
  BY <1>0 DEF Receive
<1>2. /\ asked' \in [Messages -> Nat]
      /\ \A m \in Messages : asked'[m] = IF m = Item THEN 0 ELSE asked[m]
  BY <1>0
<1>3. EditTypes'
  BY <1>0, <1>1, <1>2, EditMoveTypes DEF EditTypes
<1>4. \A m \in Messages : Settled(m) => Settled(m)'
  BY <1>1 DEF Settled
<1>5. \A k \in DOMAIN Items[command] : k >= edit.i + 1 => k > edit.i
  BY <1>0, ItemFacts
<1>6. EditPlaced'
  BY <1>0, <1>4, <1>5, ItemFacts DEF EditPlaced
<1>7. AskedPending => AskedPending'
  BY <1>0, <1>1, <1>2 DEF AskedPending
<1> QED BY <1>3, <1>6, <1>7 DEF ReplaceInv

\* What a run does to the message it is at.
LEMMA AskStep ==
    ASSUME ReplaceInv, edit.pc = "change", Ask,
           UNCHANGED <<command, editReceipt>>, body' \in [Messages -> Bodies],
           edit' \in [pc : EditPcs, apply : BOOLEAN, i : Nat \ {0}, refused : BOOLEAN],
           edit'.pc = "verify", edit'.i = edit.i,
           \A m \in Messages : body'[m] = "old" => body[m] = "old"
    PROVE  ReplaceInv'
<1>0. asked \in [Messages -> Nat] /\ EditTypes
  BY DEF ReplaceInv, EditTypes
<1>1. CASE command # "replace"
  <2>1. EditTypes'
    BY <1>0, <1>1 DEF EditTypes, Ask
  <2> QED BY <1>1, <2>1 DEF ReplaceInv
<1>2. CASE command = "replace"
  <2>1. edit.i \in DOMAIN Items[command] /\ Item \in Messages /\ AskedPending /\ asked[Item] = 0
    BY <1>0, <1>2, EditMoveTypes DEF ReplaceInv, EditPlaced, AskedPending
  <2>2. asked' = [asked EXCEPT ![Item] = 1]
    BY <1>2, <2>1 DEF Ask
  <2>3. EditTypes'
    BY <1>0, <2>2 DEF EditTypes
  <2>4. \A m \in Messages : Settled(m) => Settled(m)'
    BY DEF Settled
  <2>5. EditPlaced'
    BY <1>0, <1>2, <2>1, <2>4, ItemFacts DEF ReplaceInv, EditPlaced
  <2>6. AskedPending'
    BY <1>0, <2>1, <2>2 DEF AskedPending
  <2> QED BY <2>3, <2>5, <2>6 DEF ReplaceInv
<1> QED BY <1>1, <1>2

\* Every step of an edit keeps its invariant.
LEMMA ReplaceStep == ReplaceInv /\ [EditNext]_editVars => ReplaceInv'
<1> SUFFICES ASSUME ReplaceInv, [EditNext]_editVars PROVE ReplaceInv'
  OBVIOUS
<1>0. /\ EditTypes /\ body \in [Messages -> Bodies] /\ edit.i \in Nat \ {0}
      /\ edit \in [pc : EditPcs, apply : BOOLEAN, i : Nat \ {0}, refused : BOOLEAN]
      /\ \A k \in DOMAIN Items[command] : k \in Nat /\ Items[command][k] \in Messages
  BY ItemFacts DEF ReplaceInv, EditTypes
<1>1. ASSUME NEW apply \in BOOLEAN, StartEdit(apply) PROVE ReplaceInv'
  <2>1. /\ edit' \in [pc : EditPcs, apply : BOOLEAN, i : Nat \ {0}, refused : BOOLEAN]
        /\ edit'.pc = "preflight" /\ edit'.i = 1
    <3>1. NoEdit \in [pc : EditPcs, apply : BOOLEAN, i : Nat \ {0}, refused : BOOLEAN]
      BY <1>0, EditMoveTypes
    <3>2. edit' = [NoEdit EXCEPT !.pc = "preflight", !.apply = apply] /\ NoEdit.i = 1
      BY <1>1 DEF StartEdit, NoEdit
    <3>3. "preflight" \in EditPcs
      BY DEF EditPcs
    <3> QED BY <3>1, <3>2, <3>3
  <2>2. EditPlaced'
    BY <1>0, <1>1, <2>1, ItemFacts DEF StartEdit, EditPlaced
  <2> QED BY <1>1, <2>1, <2>2, EditMoves DEF StartEdit, editServer
<1>2. CASE CheckItem
  <2>1. /\ edit' \in [pc : EditPcs, apply : BOOLEAN, i : Nat \ {0}, refused : BOOLEAN]
        /\ edit'.pc = "preflight" /\ edit'.i = edit.i + 1
    <3>1. edit.i + 1 \in Nat \ {0}
      BY <1>0
    <3> QED BY <1>0, <1>2, <3>1 DEF CheckItem
  <2>2. Settled(Item)
    BY <1>2 DEF CheckItem, MayGoOn, Changed, Target, Settled
  <2>3. \A k \in DOMAIN Items[command] : k < edit.i + 1 => k < edit.i \/ k = edit.i
    BY <1>0
  <2>4. \A m : Settled(m) => Settled(m)'
    BY <1>2 DEF CheckItem, editServer, Settled
  <2>5. command = "replace" => EditPlaced'
    BY <1>2, <2>1, <2>2, <2>3, <2>4 DEF CheckItem, ReplaceInv, EditPlaced, Item
  <2> QED BY <1>2, <2>1, <2>5, EditMoves DEF CheckItem, editServer
<1>3. CASE EndChecks
  <2>1. /\ edit' \in [pc : EditPcs, apply : BOOLEAN, i : Nat \ {0}, refused : BOOLEAN]
        /\ edit'.pc = "apply" /\ edit'.i = 1
    <3>1. edit' = [edit EXCEPT !.pc = "apply", !.i = 1] /\ "apply" \in EditPcs /\ 1 \in Nat \ {0}
      BY <1>3 DEF EndChecks, EditPcs
    <3>2. edit \in [pc : EditPcs, apply : BOOLEAN, i : Nat \ {0}, refused : BOOLEAN]
      BY <1>0
    <3> QED BY <3>1, <3>2
  <2>2. \A k \in DOMAIN Items[command] : k < edit.i
    BY <1>0, <1>3, ItemFacts DEF EndChecks, More
  <2>3. \A m : Settled(m) => Settled(m)'
    BY <1>3 DEF EndChecks, editServer, Settled
  <2>4. command = "replace" => EditPlaced'
    BY <1>3, <2>1, <2>2, <2>3 DEF EndChecks, ReplaceInv, EditPlaced
  <2> QED BY <1>3, <2>1, <2>4, EditMoves DEF EndChecks, editServer
<1>4. More => edit.i \in DOMAIN Items[command]
  BY <1>0, EditMoveTypes
<1>5. /\ \A m : UNCHANGED <<body, editReceipt>> /\ Settled(m) => Settled(m)'
      /\ \A k \in DOMAIN Items[command] : k > edit.i => k >= edit.i
      /\ \A k \in DOMAIN Items[command] : k >= edit.i + 1 => k >= edit.i
  BY <1>0 DEF Settled
<1>6. CASE KeepItem
  <2>1. CASE command = "replace"
    <3>1. \A k \in DOMAIN Items[command] : k > edit.i => Settled(Items[command][k])
      BY <1>5, <1>6, <2>1 DEF KeepItem, ReplaceInv, EditPlaced
    <3> QED BY <1>4, <1>6, <2>1, <3>1, EditConfirms DEF KeepItem, editServer
  <2>2. CASE command # "replace"
    <3>1. "verify" \in EditPcs
      BY DEF EditPcs
    <3> QED BY <1>0, <1>6, <2>2, <3>1, EditMoveTypes, EditMoves DEF KeepItem, editServer
  <2> QED BY <2>1, <2>2
<1>7. CASE DryItem
  <2>1. /\ edit' \in [pc : EditPcs, apply : BOOLEAN, i : Nat \ {0}, refused : BOOLEAN]
        /\ edit'.pc = "apply" /\ edit'.i = edit.i + 1
    BY <1>0, <1>7, EditMoveTypes DEF DryItem
  <2>2. command = "replace" => EditPlaced'
    BY <1>5, <1>7, <2>1 DEF DryItem, editServer, ReplaceInv, EditPlaced
  <2> QED BY <1>7, <2>1, <2>2, EditMoves DEF DryItem, editServer
<1>8. CASE OpenItem
  <2>1. CASE command = "replace"
    <3>1. "upload" \in EditPcs /\ EditTo("upload")
      BY <1>8, <2>1 DEF OpenItem, EditPcs
    <3>2. /\ edit' \in [pc : EditPcs, apply : BOOLEAN, i : Nat \ {0}, refused : BOOLEAN]
          /\ edit'.pc = "upload" /\ edit'.i = edit.i
      BY <1>0, <3>1, EditMoveTypes
    <3>3. EditPlaced'
      BY <1>4, <1>5, <1>8, <2>1, <3>2 DEF OpenItem, editServer, ReplaceInv, EditPlaced
    <3> QED BY <1>8, <3>2, <3>3, EditMoves DEF OpenItem, editServer
  <2>2. CASE command # "replace"
    <3>1. "change" \in EditPcs /\ EditTo("change")
      BY <1>8, <2>2 DEF OpenItem, EditPcs
    <3> QED BY <1>0, <1>8, <2>2, <3>1, EditMoveTypes, EditMoves DEF OpenItem, editServer
  <2> QED BY <2>1, <2>2
<1>9. CASE Upload
  <2>1. "change" \in EditPcs
    BY DEF EditPcs
  <2>2. /\ edit' \in [pc : EditPcs, apply : BOOLEAN, i : Nat \ {0}, refused : BOOLEAN]
        /\ edit'.pc = "change" /\ edit'.i = edit.i
    BY <1>0, <1>9, <2>1, EditMoveTypes DEF Upload
  <2>3. editReceipt \in [Messages -> {"none", "pending", "done"}]
    BY DEF ReplaceInv, EditTypes
  <2>4. editReceipt' \in [Messages -> {"none", "pending", "done"}]
    BY <1>9, <2>3 DEF Upload, Receive
  <2>5. EditTypes'
    BY <1>9, <2>2, <2>4 DEF Upload, editServer, ReplaceInv, EditTypes
  <2>6. ASSUME command = "replace" PROVE EditPlaced' /\ AskedPending'
    <3>1. edit.i \in DOMAIN Items[command] /\ EditPlaced /\ AskedPending
      BY <1>9, <2>6 DEF Upload, ReplaceInv, EditPlaced
    <3>2. Item \in Messages
      BY <1>0, <3>1, EditMoveTypes
    <3>3. \A m \in Messages : editReceipt'[m] = IF m = Item THEN "pending" ELSE editReceipt[m]
      BY <1>9, <2>3, <3>2 DEF Upload, Receive
    <3>4. Settled(Item)
      BY <1>0, <1>9, <3>1 DEF Upload, EditPlaced, Item
    <3>5. body[Item] = "old"
      BY <1>9 DEF Upload, Fits, Changed
    <3>6. asked[Item] = 0
      BY <3>1, <3>2, <3>4, <3>5 DEF AskedPending, Settled, ReplaceInv, EditTypes
    <3>7. Item' = Item /\ UNCHANGED <<command, body, asked>>
      BY <1>9, <2>2 DEF Upload, editServer, Item
    <3>8. AskedPending'
      BY <2>2, <3>1, <3>2, <3>3, <3>6, <3>7 DEF AskedPending
    <3>9. \A k \in DOMAIN Items[command] : k > edit.i => Settled(Items[command][k])'
      <4> SUFFICES ASSUME NEW k \in DOMAIN Items[command], k > edit.i
                   PROVE  Settled(Items[command][k])'
        OBVIOUS
      <4>1. Settled(Items[command][k])
        BY <1>5, <1>9, <3>1 DEF Upload, EditPlaced
      <4>2. k # edit.i
        BY <1>0
      <4>3. Items[command][k] \in Messages /\ Items[command][k] # Item
        BY <1>0, <3>1, <4>2, ItemFacts DEF Item
      <4> QED BY <3>3, <3>7, <4>1, <4>3 DEF Settled
    <3> QED BY <2>2, <3>1, <3>7, <3>8, <3>9 DEF EditPlaced
  <2>7. command' = command
    BY <1>9 DEF Upload
  <2> QED BY <2>5, <2>6, <2>7 DEF ReplaceInv
<1>10. ASSUME NEW m \in Messages, Carried(m)
       PROVE  /\ body' \in [Messages -> Bodies]
              /\ \A n \in Messages : body'[n] = "old" => body[n] = "old"
  <2>1. Target(m) \in Bodies /\ Target(m) # "old"
    BY DEF Target, Bodies
  <2>2. body[m] \in Bodies
    BY <1>0
  <2> QED BY <1>0, <1>10, <2>1, <2>2 DEF Carried
<1>11. CASE ChangeAnswered
  <2>1. "verify" \in EditPcs
    BY DEF EditPcs
  <2>2. CASE Item \in Messages
    BY <1>0, <1>10, <1>11, <2>1, <2>2, EditMoveTypes, AskStep DEF ChangeAnswered
  <2>3. CASE Item \notin Messages
    <3>1. UNCHANGED body
      BY <1>0, <1>11, <2>3 DEF ChangeAnswered, Carried
    <3> QED BY <1>0, <1>11, <2>1, <3>1, EditMoveTypes, AskStep DEF ChangeAnswered
  <2> QED BY <2>2, <2>3
<1>12. CASE ChangeFails
  <2>1. /\ edit' \in [pc : EditPcs, apply : BOOLEAN, i : Nat \ {0}, refused : BOOLEAN]
        /\ edit'.pc = "verify" /\ edit'.i = edit.i
    BY <1>0, <1>12 DEF ChangeFails, EditPcs
  <2> QED BY <1>0, <1>12, <2>1, AskStep DEF ChangeFails
<1>13. CASE VerifyEdit
  <2>1. CASE command = "replace"
    <3>1. /\ edit.i \in DOMAIN Items[command]
          /\ \A k \in DOMAIN Items[command] : k > edit.i => Settled(Items[command][k])
      BY <1>13, <2>1 DEF VerifyEdit, ReplaceInv, EditPlaced
    <3> QED BY <1>13, <2>1, <3>1, EditConfirms DEF VerifyEdit, editServer
  <2>2. CASE command # "replace"
    <3>1. edit' = NoEdit \/ NextItem
      BY <1>13, <2>2 DEF VerifyEdit
    <3>2. edit' \in [pc : EditPcs, apply : BOOLEAN, i : Nat \ {0}, refused : BOOLEAN]
      BY <1>0, <3>1, EditMoveTypes
    <3> QED BY <1>13, <2>2, <3>2, EditMoves DEF VerifyEdit, editServer
  <2> QED BY <2>1, <2>2
<1>14. CASE EndEdit \/ StopEdit \/ BreakEdit
  BY <1>14, EditStops DEF EndEdit, StopEdit, BreakEdit, editServer
<1>15. ASSUME NEW m \in Messages, LandLate(m) PROVE ReplaceInv'
  BY <1>0, <1>10, <1>15, EditServes DEF LandLate
<1>16. ASSUME NEW m \in Messages, Meddle(m) PROVE ReplaceInv'
  <2>1. /\ body' \in [Messages -> Bodies]
        /\ \A n \in Messages : body'[n] = "old" => body[n] = "old"
    BY <1>0, <1>16 DEF Meddle, Bodies
  <2> QED BY <1>16, <2>1, EditServes DEF Meddle
<1>17. CASE LoseBackup \/ UNCHANGED editVars
  BY <1>0, <1>17, EditServes DEF LoseBackup, editVars, editServer
<1> QED
  BY <1>1, <1>2, <1>3, <1>6, <1>7, <1>8, <1>9, <1>11, <1>12, <1>13, <1>14, <1>15, <1>16, <1>17
     DEF EditNext, EditRun

\* However many runs are started and whatever happens to an answer, a message's
\* media is replaced by one request until the result is confirmed
\* (interview_topic_replace_video.go:151-155 and 195-199).
THEOREM ReplacedOnce == EditSpec => []OneRequestPerReplacement
<1>1. ReplaceInv => OneRequestPerReplacement
  BY DEF ReplaceInv, AskedPending, OneRequestPerReplacement
<1> QED BY <1>1, ReplaceInitially, ReplaceStep, PTL DEF EditSpec

(***************************************************************************)
(* account-organize                                                        *)
(***************************************************************************)

AtPeer == {"archive", "readback"}

\* What is verified lies behind the run, and what is written was just read.
OrganizeInv ==
    /\ OrganizeTypeOK
    /\ organize.pc \in AtPeer => organize.i <= Len(Peers)
    /\ organize.pc \notin {"peer"} \cup AtPeer => organize.verified = {}
    /\ organize.pc = "write" => organize.copy.settings = folder.settings
    /\ hasty \subseteq replied
    /\ organize.verified \subseteq {Peers[k] : k \in 1..organize.i - 1}
    /\ NoHastyVerified

\* The zero values of a run and of a folder are well formed.
LEMMA NoOrganizeType ==
    /\ NoOrganize \in [pc : OrganizePcs, apply : BOOLEAN, i : 1..Len(Peers) + 1,
                       copy : Folders, verified : SUBSET PeerSet]
    /\ NoFolder \in Folders /\ Len(Peers) \in Nat
  <1>1. Len(Peers) \in Nat
    BY UniquePeers
  <1>2. NoFolder \in Folders
    BY OrganizeConstants DEF NoFolder, Folders
  <1> QED BY <1>1, <1>2 DEF NoOrganize, OrganizePcs

\* Before the first command nothing was organized.
LEMMA OrganizeInitially == OrganizeInit => OrganizeInv
BY NoOrganizeType, OrganizeConstants
   DEF OrganizeInit, OrganizeInv, OrganizeTypeOK, NoOrganize, AtPeer, NoHastyVerified

\* What the folder becomes when our peers are added.
LEMMA MergedType ==
    ASSUME NEW f \in Folders PROVE Merged(f) \in Folders /\ Merged(f).settings = f.settings
BY DEF Merged, Folders

\* The dialog the run is at.
LEMMA PeerType ==
    ASSUME OrganizeTypeOK, organize.i <= Len(Peers)
    PROVE  /\ organize.i \in DOMAIN Peers /\ Peer \in PeerSet
           /\ Peer \notin {Peers[k] : k \in 1..organize.i - 1}
           /\ {Peers[k] : k \in 1..organize.i} =
                  {Peers[k] : k \in 1..organize.i - 1} \cup {Peer}
<1>1. organize.i \in 1..Len(Peers) /\ Len(Peers) \in Nat /\ DOMAIN Peers = 1..Len(Peers)
  BY UniquePeers DEF OrganizeTypeOK
<1>2. Peer \in PeerSet
  BY <1>1 DEF Peer, PeerSet
<1>3. \A k \in 1..organize.i - 1 : k \in DOMAIN Peers /\ k # organize.i
  BY <1>1
<1>4. \A k \in 1..organize.i : k \in 1..organize.i - 1 \/ k = organize.i
  BY <1>1
<1>5. 1..organize.i - 1 \subseteq 1..organize.i /\ organize.i \in 1..organize.i
  BY <1>1
<1>6. Peer \notin {Peers[k] : k \in 1..organize.i - 1}
  BY <1>1, <1>3, UniquePeers DEF Peer
<1>7. {Peers[k] : k \in 1..organize.i} = {Peers[k] : k \in 1..organize.i - 1} \cup {Peer}
  BY <1>4, <1>5 DEF Peer
<1> QED BY <1>1, <1>2, <1>6, <1>7

\* A run that stops leaves nothing verified.
LEMMA OrganizeStops ==
    ASSUME OrganizeInv, organize' = NoOrganize, folder' \in Folders, UNCHANGED replied,
           archived' \subseteq PeerSet, hasty' \subseteq PeerSet, hasty' \subseteq replied,
           stops' \in 0..MaxStops
    PROVE  OrganizeInv'
BY NoOrganizeType
   DEF OrganizeInv, OrganizeTypeOK, NoOrganize, AtPeer, NoHastyVerified

\* What a run that moves on has to show.
LEMMA OrganizeMoves ==
    ASSUME OrganizeInv, UNCHANGED <<folder, replied, archived, stops>>,
           hasty' \subseteq replied, organize.verified \cap hasty' = {},
           organize' \in [pc : OrganizePcs, apply : BOOLEAN, i : 1..Len(Peers) + 1,
                          copy : Folders, verified : SUBSET PeerSet],
           organize'.verified = organize.verified,
           organize.i <= organize'.i \/ organize.verified = {},
           organize'.pc \in {"peer"} \cup AtPeer \/ organize.verified = {},
           organize'.pc = "write" => organize'.copy.settings = folder.settings,
           organize'.pc \in AtPeer => organize'.i <= Len(Peers)
    PROVE  OrganizeInv'
<1>1. OrganizeTypeOK'
  BY DEF OrganizeInv, OrganizeTypeOK
<1>2. organize.i \in Nat /\ organize'.i \in Nat
  BY DEF OrganizeInv, OrganizeTypeOK
<1>3. organize.i <= organize'.i => 1..organize.i - 1 \subseteq 1..organize'.i - 1
  BY <1>2
<1>4. organize'.verified \subseteq {Peers[k] : k \in 1..organize'.i - 1}
  BY <1>3 DEF OrganizeInv
<1> QED BY <1>1, <1>4 DEF OrganizeInv, NoHastyVerified

\* Every step of organize keeps its invariant.
LEMMA OrganizeStep == OrganizeInv /\ [OrganizeNext]_organizeVars => OrganizeInv'
<1> SUFFICES ASSUME OrganizeInv, [OrganizeNext]_organizeVars PROVE OrganizeInv'
  OBVIOUS
<1>0. /\ folder \in Folders /\ replied \subseteq PeerSet /\ archived \subseteq PeerSet
      /\ hasty \subseteq PeerSet /\ hasty \subseteq replied /\ stops \in 0..MaxStops
      /\ organize \in [pc : OrganizePcs, apply : BOOLEAN, i : 1..Len(Peers) + 1,
                       copy : Folders, verified : SUBSET PeerSet]
      /\ organize.verified \cap hasty = {} /\ Len(Peers) \in Nat
      /\ OrganizeTypeOK
  BY NoOrganizeType DEF OrganizeInv, OrganizeTypeOK, NoHastyVerified
<1>1. ASSUME NEW apply \in BOOLEAN, StartOrganize(apply) PROVE OrganizeInv'
  <2>1. /\ organize' \in [pc : OrganizePcs, apply : BOOLEAN, i : 1..Len(Peers) + 1,
                          copy : Folders, verified : SUBSET PeerSet]
        /\ organize'.verified = {} /\ organize'.pc = "heads" /\ organize'.i = 1
    BY <1>0, <1>1, MergedType, NoOrganizeType DEF StartOrganize, NoOrganize, OrganizePcs
  <2>2. OrganizeTypeOK'
    BY <1>0, <1>1, <2>1 DEF StartOrganize, OrganizeTypeOK
  <2> QED
    BY <1>0, <1>1, <2>1, <2>2 DEF StartOrganize, OrganizeInv, AtPeer, NoHastyVerified
<1>2. CASE CheckHead
  <2>1. organize.i + 1 \in 1..Len(Peers) + 1
    BY <1>0, <1>2 DEF CheckHead
  <2>2. /\ organize' \in [pc : OrganizePcs, apply : BOOLEAN, i : 1..Len(Peers) + 1,
                          copy : Folders, verified : SUBSET PeerSet]
        /\ organize'.verified = organize.verified /\ organize'.pc = "heads"
        /\ organize'.i = organize.i + 1
    BY <1>0, <1>2, <2>1 DEF CheckHead
  <2>3. organize.verified = {}
    BY <1>2 DEF CheckHead, OrganizeInv, AtPeer
  <2> QED BY <1>0, <1>2, <2>2, <2>3, OrganizeMoves DEF CheckHead, AtPeer
<1>3. CASE EndHeads
  <2>1. CASE organize.apply = TRUE
    <3>1. /\ organize' \in [pc : OrganizePcs, apply : BOOLEAN, i : 1..Len(Peers) + 1,
                            copy : Folders, verified : SUBSET PeerSet]
          /\ organize'.verified = organize.verified /\ organize'.pc = "reread"
      <4>1. organize' = [organize EXCEPT !.pc = "reread", !.i = 1]
        BY <1>3, <2>1 DEF EndHeads
      <4>2. "reread" \in OrganizePcs /\ 1 \in 1..Len(Peers) + 1
        BY <1>0 DEF OrganizePcs
      <4>3. organize \in [pc : OrganizePcs, apply : BOOLEAN, i : 1..Len(Peers) + 1,
                          copy : Folders, verified : SUBSET PeerSet]
        BY <1>0
      <4> QED BY <4>1, <4>2, <4>3
    <3>2. organize.verified = {}
      BY <1>3 DEF EndHeads, OrganizeInv, AtPeer
    <3> QED BY <1>0, <1>3, <3>1, <3>2, OrganizeMoves DEF EndHeads, AtPeer
  <2>2. CASE organize.apply = FALSE
    BY <1>0, <1>3, <2>2, OrganizeStops DEF EndHeads
  <2> QED BY <1>0, <2>1, <2>2
<1>4. CASE Reread
  <2> DEFINE to == IF folder # Merged(folder) THEN "write" ELSE "confirm"
  <2>1. to \in {"write", "confirm"} /\ organize' = [organize EXCEPT !.copy = Merged(folder), !.pc = to]
    BY <1>4 DEF Reread
  <2> HIDE DEF to
  <2>2. /\ organize' \in [pc : OrganizePcs, apply : BOOLEAN, i : 1..Len(Peers) + 1,
                          copy : Folders, verified : SUBSET PeerSet]
        /\ organize'.verified = organize.verified /\ organize'.pc = to
        /\ organize'.i = organize.i /\ organize'.copy.settings = folder.settings
    BY <1>0, <2>1, MergedType DEF OrganizePcs
  <2>3. organize.verified = {}
    BY <1>4 DEF Reread, OrganizeInv, AtPeer
  <2> QED BY <1>0, <1>4, <2>1, <2>2, <2>3, OrganizeMoves DEF Reread, AtPeer
<1>5. ASSUME NEW to \in OrganizePcs, OrganizeTo(to)
      PROVE  /\ organize' \in [pc : OrganizePcs, apply : BOOLEAN, i : 1..Len(Peers) + 1,
                               copy : Folders, verified : SUBSET PeerSet]
             /\ organize'.verified = organize.verified /\ organize'.pc = to
             /\ organize'.i = organize.i /\ organize'.copy = organize.copy
  BY <1>0, <1>5 DEF OrganizeTo
<1>6. CASE WriteFolder
  <2>1. "confirm" \in OrganizePcs
    BY DEF OrganizePcs
  <2>2. organize.verified = {}
    BY <1>6 DEF WriteFolder, OrganizeInv, AtPeer
  <2>3. OrganizeTypeOK'
    BY <1>0, <1>5, <1>6, <2>1 DEF WriteFolder, OrganizeTypeOK
  <2> QED
    BY <1>0, <1>5, <1>6, <2>1, <2>2, <2>3
       DEF WriteFolder, OrganizeInv, NoHastyVerified, AtPeer
<1>7. CASE WriteFails
  <2>1. folder' \in Folders /\ stops' \in 0..MaxStops
    BY <1>0, <1>7, OrganizeConstants DEF WriteFails
  <2> QED BY <1>0, <1>7, <2>1, OrganizeStops DEF WriteFails
<1>8. CASE ConfirmFolder
  <2>1. "peer" \in OrganizePcs
    BY DEF OrganizePcs
  <2> QED BY <1>0, <1>5, <1>8, <2>1, OrganizeMoves DEF ConfirmFolder, AtPeer
<1>9. CASE CheckPeer
  <2>1. PICK to \in {"readback", "archive"} : OrganizeTo(to)
    BY <1>9 DEF CheckPeer
  <2>2. to \in OrganizePcs
    BY DEF OrganizePcs
  <2> QED BY <1>0, <1>5, <1>9, <2>1, <2>2, OrganizeMoves DEF CheckPeer, AtPeer
<1>10. PeerArchived /\ organize.pc = "archive" =>
           /\ archived' \subseteq PeerSet /\ hasty' \subseteq PeerSet /\ hasty' \subseteq replied
           /\ organize.verified \cap hasty' = {}
  <2>1. organize.pc = "archive" => organize.i <= Len(Peers)
    BY DEF OrganizeInv, AtPeer
  <2>2. organize.pc = "archive" => Peer \in PeerSet /\ Peer \notin organize.verified
    BY <1>0, <2>1, PeerType DEF OrganizeInv
  <2> QED BY <1>0, <2>2 DEF PeerArchived
<1>11. CASE ArchivePeer
  <2>1. "readback" \in OrganizePcs
    BY DEF OrganizePcs
  <2>2. /\ organize'.pc = "readback" /\ organize'.i = organize.i
        /\ organize'.verified = organize.verified /\ organize.i <= Len(Peers)
    BY <1>5, <1>11, <2>1 DEF ArchivePeer, OrganizeInv, AtPeer
  <2>3. OrganizeTypeOK'
    BY <1>0, <1>5, <1>10, <1>11, <2>1 DEF ArchivePeer, OrganizeTypeOK
  <2> QED
    BY <1>0, <1>10, <1>11, <2>2, <2>3
       DEF ArchivePeer, OrganizeInv, NoHastyVerified, AtPeer
<1>12. CASE ArchiveFails
  <2>1. stops' \in 0..MaxStops
    BY <1>0, <1>12, OrganizeConstants DEF ArchiveFails
  <2> QED BY <1>0, <1>10, <1>12, <2>1, OrganizeStops DEF ArchiveFails
<1>13. CASE ReadbackPeer
  <2>1. /\ organize.i <= Len(Peers) /\ Peer \notin hasty
        /\ organize.i + 1 \in 1..Len(Peers) + 1
    BY <1>0, <1>13 DEF ReadbackPeer, OrganizeInv, AtPeer
  <2>2. Peer \in PeerSet
    BY <1>0, <2>1, PeerType
  <2>3. /\ organize' \in [pc : OrganizePcs, apply : BOOLEAN, i : 1..Len(Peers) + 1,
                          copy : Folders, verified : SUBSET PeerSet]
        /\ organize'.verified = organize.verified \cup {Peer} /\ organize'.pc = "peer"
        /\ organize'.i = organize.i + 1
    BY <1>0, <1>13, <2>1, <2>2 DEF ReadbackPeer, OrganizePcs
  <2>4. 1..organize'.i - 1 = 1..organize.i
    BY <1>0, <2>3
  <2>5. organize'.verified \subseteq {Peers[k] : k \in 1..organize'.i - 1}
    BY <1>0, <2>1, <2>3, <2>4, PeerType DEF OrganizeInv
  <2>6. OrganizeTypeOK'
    BY <1>0, <1>13, <2>3 DEF ReadbackPeer, OrganizeTypeOK
  <2>7. NoHastyVerified'
    BY <1>0, <1>13, <2>1, <2>3 DEF ReadbackPeer, NoHastyVerified
  <2> QED
    BY <1>0, <1>13, <2>3, <2>5, <2>6, <2>7 DEF ReadbackPeer, OrganizeInv, AtPeer
<1>14. CASE EndOrganize \/ StopOrganize \/ BreakOrganize
  <2>1. stops' \in 0..MaxStops
    BY <1>0, <1>14, OrganizeConstants DEF EndOrganize, StopOrganize, BreakOrganize
  <2> QED
    BY <1>0, <1>14, <2>1, OrganizeStops DEF EndOrganize, StopOrganize, BreakOrganize
<1>15. ASSUME NEW p \in PeerSet, Reply(p) PROVE OrganizeInv'
  <2>1. OrganizeTypeOK'
    BY <1>0, <1>15 DEF Reply, OrganizeTypeOK
  <2> QED BY <1>0, <1>15, <2>1 DEF Reply, OrganizeInv, NoHastyVerified
<1>16. CASE EditFolder
  <2>1. folder' \in Folders
    <3>1. folder.members \subseteq PeerSet /\ folder.settings + 1 \in 0..MaxEdits
      BY <1>0, <1>16, OrganizeConstants DEF EditFolder, Folders
    <3> QED BY <1>16, <3>1 DEF EditFolder, Folders
  <2>2. OrganizeTypeOK'
    BY <1>0, <1>16, <2>1 DEF EditFolder, OrganizeTypeOK
  <2> QED BY <1>0, <1>16, <2>2 DEF EditFolder, OrganizeInv, NoHastyVerified
<1>17. CASE UNCHANGED organizeVars
  BY <1>0, <1>17 DEF organizeVars, OrganizeInv, OrganizeTypeOK, NoHastyVerified
<1> QED
  BY <1>1, <1>2, <1>3, <1>4, <1>6, <1>7, <1>8, <1>9, <1>11, <1>12, <1>13, <1>14, <1>15, <1>16,
     <1>17
     DEF OrganizeNext

\* Every behaviour of organize keeps its invariant.
LEMMA OrganizeInvariance == OrganizeSpec => []OrganizeInv
BY OrganizeInitially, OrganizeStep, PTL DEF OrganizeSpec

\* A dialog that was archived over an answer is never reported as verified
\* (account_organize.go:262-272).
THEOREM VerifiedUnanswered == OrganizeSpec => []NoHastyVerified
<1>1. OrganizeInv => NoHastyVerified
  BY DEF OrganizeInv
<1> QED BY <1>1, OrganizeInvariance, PTL

\* No step takes back what another client did to the folder: a write copies
\* what was read after the last change of another client
\* (account_organize.go:210-226).
THEOREM FolderNotReverted == OrganizeSpec => FolderKept
<1>1. OrganizeInv /\ [OrganizeNext]_organizeVars =>
          [folder'.settings >= folder.settings]_organizeVars
  <2> SUFFICES ASSUME OrganizeInv, OrganizeNext PROVE folder'.settings >= folder.settings
    OBVIOUS
  <2>1. folder \in Folders /\ folder.settings \in Nat
    BY DEF OrganizeInv, OrganizeTypeOK, Folders
  <2>2. UNCHANGED folder => folder'.settings >= folder.settings
    BY <2>1
  <2>3. WriteFolder \/ WriteFails => folder'.settings >= folder.settings
    BY <2>1 DEF WriteFolder, WriteFails, OrganizeInv
  <2>4. EditFolder => folder'.settings >= folder.settings
    BY <2>1 DEF EditFolder
  <2> QED
    BY <2>2, <2>3, <2>4
       DEF OrganizeNext, StartOrganize, CheckHead, EndHeads, Reread, ConfirmFolder, CheckPeer,
           ArchivePeer, ArchiveFails, ReadbackPeer, EndOrganize, StopOrganize, BreakOrganize, Reply
<1> QED BY <1>1, OrganizeInvariance, PTL DEF OrganizeSpec, FolderKept

=============================================================================
