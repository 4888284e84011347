----------------------------- MODULE MCCommands -----------------------------
(* Commands of a profile, each repeated until it has done its work: sync, and
   those that change something on Telegram.  A profile has one runtime lock
   (withRuntimeLock, main.go:2164), so at most one of them is running: each
   behaviour repeats one command. *)
EXTENDS MCChatSync, TopicPublish, TopicEdits, AccountOrganize, SendSaved

VARIABLE which

MCPeers == <<"p", "q">>
MCItems == [update |-> <<"e", "z">>, replace |-> <<"v1", "v2">>]

New(p, parent)  == [post |-> p, parent |-> parent, new |-> TRUE]
Old(p, parent)  == [post |-> p, parent |-> parent, new |-> FALSE]
MCManifests ==
    [first |-> <<New("a", Topic), New("b", "a"), New("c", Topic)>>,
     more  |-> <<Old("b", "a"), New("c", Topic)>>]
MCWorlds ==
    {[manifests |-> {"first"}, dedupe |-> FALSE],
     [manifests |-> {"first", "more"}, dedupe |-> TRUE]}

MCInit ==
    /\ which \in {"sync", "publish", "edit", "organize", "saved"}
    /\ Init /\ PublishInit /\ EditInit /\ OrganizeInit /\ SavedInit
    /\ which # "publish" => world.dedupe
    /\ which # "edit"    => command = "replace"
    /\ which # "saved"   => source = [kind |-> "text", noforwards |-> FALSE, preview |-> FALSE]

Syncing    == which = "sync"     /\ UNCHANGED <<which, publishVars, editVars, organizeVars, savedVars>>
Publishing == which = "publish"  /\ UNCHANGED <<which, vars, editVars, organizeVars, savedVars>>
Editing    == which = "edit"     /\ UNCHANGED <<which, vars, publishVars, organizeVars, savedVars>>
Organizing == which = "organize" /\ UNCHANGED <<which, vars, publishVars, editVars, savedVars>>
Saving     == which = "saved"    /\ UNCHANGED <<which, vars, publishVars, editVars, organizeVars>>

MCNext ==
    \/ Next         /\ Syncing
    \/ PublishNext  /\ Publishing
    \/ EditNext     /\ Editing
    \/ OrganizeNext /\ Organizing
    \/ SavedNext    /\ Saving

commandVars == <<which, vars, publishVars, editVars, organizeVars, savedVars>>

\* A run goes on until it returns; each kind of sync (ChatSync!Fairness), and an
\* update with --apply, is given again and again.
MCSpec ==
    /\ MCInit /\ [][MCNext]_commandVars
    /\ WF_commandVars(Step /\ Syncing)
    /\ \A o \in Options : WF_commandVars(Start(o) /\ Syncing)
    /\ WF_commandVars(EditRun /\ Editing)
    /\ SF_commandVars(StartEdit(TRUE) /\ Editing)
=============================================================================
