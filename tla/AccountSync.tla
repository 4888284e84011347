---------------------------- MODULE AccountSync ----------------------------
(***************************************************************************)
(* account-sync (account_sync.go): all dialogs of one account, each in an   *)
(* archive of its own, an account.json with a row per dialog and an index   *)
(* for readers.  What one chat does is ChatSync; here a chat is what its    *)
(* archive covers.  Messages of a chat are numbered from 1.                *)
(***************************************************************************)
EXTENDS Naturals, FiniteSets

CONSTANTS
    Accounts,   \* accounts the session may be logged in to
    Chats,      \* peers both see; a directory per peer type and ID
    MaxPosts,   \* bound on the messages of a chat
    MaxBreaks   \* bound on killed runs and on changes of the account

Nobody == "nobody"

ASSUME AccountConstants ==
    Nobody \notin Accounts /\ MaxPosts \in Nat \ {0} /\ MaxBreaks \in Nat

VARIABLES
    login,      \* the authorised account
    posted,     \* messages of each chat
    chat,       \* the archive of each chat
    account,    \* account.json
    index,      \* README.md, rendered from account.json
    sync,       \* the run
    breaks

accountVars == <<login, posted, chat, account, index, sync, breaks>>

Statuses == {"absent", "pending", "complete", "error"}

\* top and last: where the full walk began, and the boundary; tail: a record an
\* older version appended and did not commit before it was interrupted, which
\* its pending marker tells.
Archives  == [backfill : {"none", "active", "complete"}, top : 0..MaxPosts,
              last : 0..MaxPosts, tail : 0..1, marker : BOOLEAN, owners : SUBSET Accounts]
\* The rows, and of each row what was posted when the run listed the dialogs,
\* and whether its chat continued a walk an earlier run began.
Documents == [account : Accounts \cup {Nobody}, complete : BOOLEAN,
              rows : [Chats -> Statuses], listed : [Chats -> 0..MaxPosts],
              resumed : SUBSET Chats]

NoDocument == [account |-> Nobody, complete |-> FALSE, rows |-> [c \in Chats |-> "absent"],
               listed |-> [c \in Chats |-> 0], resumed |-> {}]
NoSync     == [pc |-> "idle"]
NewArchive == [backfill |-> "none", top |-> 0, last |-> 0, tail |-> 0, marker |-> FALSE,
               owners |-> {}]

\* A new directory, or one the older version left: with its marker, before or
\* after its commit.
AccountInit ==
    /\ login \in Accounts /\ posted = [c \in Chats |-> 1]
    /\ breaks = 0 /\ sync = NoSync
    /\ \/ chat = [c \in Chats |-> NewArchive] /\ account = NoDocument
       \/ \E tail \in 0..1 :
            /\ chat = [c \in Chats |-> [NewArchive EXCEPT !.backfill = "complete", !.top = 1,
                           !.last = 1, !.tail = tail, !.marker = TRUE, !.owners = {login}]]
            /\ account = [NoDocument EXCEPT !.account = login]
    /\ index = account

AccountTypeOK ==
    /\ login \in Accounts /\ posted \in [Chats -> 0..MaxPosts]
    /\ chat \in [Chats -> Archives] /\ account \in Documents /\ index \in Documents
    /\ sync.pc \in {"idle", "save", "index", "next"} /\ breaks \in 0..MaxBreaks

-----------------------------------------------------------------------------
(* A run *)

\* Mutant: only the bound account is compared.
AdmitsBound(expected) ==
    /\ account.account = Nobody => expected # Nobody
    /\ expected \in {Nobody, login}

Admits(expected) ==
    /\ account.account = Nobody => expected # Nobody
    /\ expected \in {Nobody, login} /\ account.account \in {Nobody, login}

StartSync(expected, dialogs) ==
    /\ sync.pc = "idle" /\ Admits(expected)
    /\ sync' = [pc |-> "save", todo |-> dialogs, failed |-> FALSE, ended |-> FALSE,
                doc |-> [NoDocument EXCEPT !.account = login,
                            !.rows = [c \in Chats |-> IF c \in dialogs THEN "pending" ELSE "absent"],
                            !.listed = posted]]
    /\ UNCHANGED <<login, posted, chat, account, index, breaks>>

\* publishAccountState: account.json, then the index.
SaveAccount ==
    /\ sync.pc = "save"
    /\ account' = sync.doc /\ sync' = [sync EXCEPT !.pc = "index"]
    /\ UNCHANGED <<login, posted, chat, index, breaks>>

SaveIndex ==
    /\ sync.pc = "index"
    /\ index' = sync.doc
    /\ sync' = IF sync.ended THEN NoSync ELSE [sync EXCEPT !.pc = "next"]
    /\ UNCHANGED <<login, posted, chat, account, breaks>>

\* recoverAccountIncremental: what was not committed is cut off.
Recovered(a) == [a EXCEPT !.marker = FALSE, !.tail = 0]

\* runSync of a chat: a first walk begins at the newest message, an interrupted
\* one goes on below the place it reached, and a complete archive is extended.
SyncedChat(a, newest) ==
    CASE a.backfill = "none"     -> [a EXCEPT !.backfill = "complete", !.top = newest, !.last = newest]
      [] a.backfill = "active"   -> [a EXCEPT !.backfill = "complete", !.last = a.top]
      [] a.backfill = "complete" -> [Recovered(a) EXCEPT !.last = newest]

\* What an error leaves: nothing new, a walk that began, a recovered stream, or
\* a checkpoint that advanced before the cleanup failed.
FailedChat(a, newest) ==
    {a, SyncedChat(a, newest)} \cup
    CASE a.backfill = "none"     -> {[a EXCEPT !.backfill = "active", !.top = newest]}
      [] a.backfill = "active"   -> {}
      [] a.backfill = "complete" -> {Recovered(a)}

Row(c, status) ==
    sync' = [sync EXCEPT !.pc = "save", !.todo = @ \ {c},
                !.failed = @ \/ status = "error", !.doc.rows[c] = status,
                !.doc.resumed = IF chat[c].backfill = "active" THEN @ \cup {c} ELSE @]

Touched(a) == [a EXCEPT !.owners = @ \cup {login}]

SyncChat(c) ==
    /\ sync.pc = "next" /\ c \in sync.todo
    /\ \/ /\ chat' = [chat EXCEPT ![c] = Touched(SyncedChat(@, posted[c]))]
          /\ Row(c, "complete")
       \/ \E a \in FailedChat(chat[c], posted[c]) :
             /\ chat' = [chat EXCEPT ![c] = Touched(a)]
             /\ Row(c, "error")
    /\ UNCHANGED <<login, posted, account, index, breaks>>

\* The context ends between two chats.
CancelSync ==
    /\ sync.pc = "next" /\ sync.todo # {}
    /\ sync' = [sync EXCEPT !.todo = {}, !.failed = TRUE]
    /\ UNCHANGED <<login, posted, chat, account, index, breaks>>

\* Mutant: errors of single chats do not count.
FinishSyncAnyway ==
    /\ sync.pc = "next" /\ sync.todo = {}
    /\ sync' = [sync EXCEPT !.pc = "save", !.ended = TRUE, !.doc.complete = TRUE]
    /\ UNCHANGED <<login, posted, chat, account, index, breaks>>

FinishSync ==
    /\ sync.pc = "next" /\ sync.todo = {}
    /\ sync' = [sync EXCEPT !.pc = "save", !.ended = TRUE, !.doc.complete = ~sync.failed]
    /\ UNCHANGED <<login, posted, chat, account, index, breaks>>

CrashSync ==
    /\ sync.pc # "idle" /\ breaks < MaxBreaks
    /\ sync' = NoSync /\ breaks' = breaks + 1
    /\ UNCHANGED <<login, posted, chat, account, index>>

Post(c) ==
    /\ posted[c] < MaxPosts
    /\ posted' = [posted EXCEPT ![c] = @ + 1]
    /\ UNCHANGED <<login, chat, account, index, sync, breaks>>

Relogin(a) ==
    /\ sync.pc = "idle" /\ a # login /\ breaks < MaxBreaks
    /\ login' = a /\ breaks' = breaks + 1
    /\ UNCHANGED <<posted, chat, account, index, sync>>

AccountNext ==
    \/ \E e \in Accounts \cup {Nobody}, d \in SUBSET Chats : StartSync(e, d)
    \/ SaveAccount \/ SaveIndex \/ CancelSync \/ FinishSync \/ CrashSync
    \/ \E c \in Chats : SyncChat(c) \/ Post(c)
    \/ \E a \in Accounts : Relogin(a)

AccountSpec == AccountInit /\ [][AccountNext]_accountVars

-----------------------------------------------------------------------------
(* Properties *)

\* The archives of a directory are of one account, that of its account.json,
\* whoever logs in between runs (docs/collection-integrity.md:21).
AccountsNotMixed ==
    \A c \in Chats : chat[c].owners # {} => chat[c].owners = {account.account}

\* While the index says complete, every archive it lists is committed to the
\* last record and has what was posted when the dialogs were listed, or when
\* the walk began if an earlier run began it (README.md:113).
CompleteIsCovered ==
    index.complete => \A c \in Chats : index.rows[c] # "absent" =>
        /\ chat[c].backfill = "complete" /\ chat[c].tail = 0
        /\ chat[c].last >= IF c \in index.resumed THEN chat[c].top ELSE index.listed[c]
=============================================================================
