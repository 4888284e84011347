------------------------------ MODULE MCOutputs ------------------------------
(* What a run makes of the records, and what it needs for that.  The parts
   share no state: each has a lock or a mutex of its own, so each behaviour is
   one of the parts. *)
EXTENDS Recap, AgentView, MediaCache, AccountSync, Transcript, Repetition, RpcPacing, WhisperServer

VARIABLE which

MCBatches == [w |-> {<<"a", "b">>}, x |-> {<<"c">>}]

\* A word of another script, the next line, both; two lines of another script.
SomeGaps  == {<<"x">>, <<"/">>, <<"/", "x">>}
LinesOnly == {<<"/", "x", "/", "y">>}

Parts == {"recap", "view", "cache", "account", "transcript", "repetition", "pacing", "server"}

\* Parts with many initial states have one of them while another part runs.
OneTranscript == TranscriptInit /\ length = Min(Lengths) /\ speech = {}
OneText ==
    /\ decoded = [tokens |-> << >>, gaps |-> [n \in {0} |-> << >>]]
    /\ text = decoded /\ part = "lines"

Init ==
    /\ which \in Parts
    /\ RecapInit   /\ (which # "recap" => scope = "s")
    /\ AccountInit /\ (which # "account" => login = "me" /\ account.account = Nobody)
    /\ IF which = "transcript" THEN TranscriptInit ELSE OneTranscript
    /\ IF which = "repetition" THEN RepetitionInit ELSE OneText
    /\ ViewInit /\ CacheInit /\ PacingInit /\ ServerInit

vars == <<which, recapVars, viewVars, cacheVars, accountVars, transcriptVars, repetitionVars,
          pacingVars, serverVars>>

Next ==
    /\ UNCHANGED which
    /\ \/ /\ which = "recap" /\ RecapNext
          /\ UNCHANGED <<viewVars, cacheVars, accountVars, transcriptVars, repetitionVars, pacingVars, serverVars>>
       \/ /\ which = "view" /\ ViewNext
          /\ UNCHANGED <<recapVars, cacheVars, accountVars, transcriptVars, repetitionVars, pacingVars, serverVars>>
       \/ /\ which = "cache" /\ CacheNext
          /\ UNCHANGED <<recapVars, viewVars, accountVars, transcriptVars, repetitionVars, pacingVars, serverVars>>
       \/ /\ which = "account" /\ AccountNext
          /\ UNCHANGED <<recapVars, viewVars, cacheVars, transcriptVars, repetitionVars, pacingVars, serverVars>>
       \/ /\ which = "transcript" /\ TranscriptNext
          /\ UNCHANGED <<recapVars, viewVars, cacheVars, accountVars, repetitionVars, pacingVars, serverVars>>
       \/ /\ which = "repetition" /\ RepetitionNext
          /\ UNCHANGED <<recapVars, viewVars, cacheVars, accountVars, transcriptVars, pacingVars, serverVars>>
       \/ /\ which = "pacing" /\ PacingNext
          /\ UNCHANGED <<recapVars, viewVars, cacheVars, accountVars, transcriptVars, repetitionVars, serverVars>>
       \/ /\ which = "server" /\ ServerNext
          /\ UNCHANGED <<recapVars, viewVars, cacheVars, accountVars, transcriptVars, repetitionVars, pacingVars>>

Spec == Init /\ [][Next]_vars

\* One part alone, for the run that shows what it does not promise.
RepetitionSpec == Init /\ which = "repetition" /\ [][Next]_vars
=============================================================================
