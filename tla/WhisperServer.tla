--------------------------- MODULE WhisperServer ---------------------------
(***************************************************************************)
(* The one whisper-server of a run (WhisperServerRunner,                    *)
(* whisper_server.go): the first transcription starts it under the mutex of *)
(* the runner, it must get ready and prove Metal activation, serves the     *)
(* transcriptions after it and is stopped by Close.                        *)
(***************************************************************************)
EXTENDS Naturals, FiniteSets

CONSTANTS
    Requests,   \* goroutines that transcribe files
    MaxStarts   \* bound on the servers that are started

ASSUME ServerConstants == MaxStarts \in Nat

Servers == 1..MaxStarts
NoServer == 0

VARIABLES
    running,   \* servers whose process runs
    verified,  \* servers that were ready and proved Metal activation
    cmd,       \* the server the runner refers to
    starts,
    closed,
    request    \* request -> what it does; all but "idle" hold the mutex

serverVars == <<running, verified, cmd, starts, closed, request>>

ServerInit ==
    /\ running = {} /\ verified = {} /\ cmd = NoServer /\ starts = 0
    /\ closed = FALSE /\ request = [r \in Requests |-> "idle"]

ServerTypeOK ==
    /\ running \subseteq Servers /\ verified \subseteq Servers
    /\ cmd \in Servers \cup {NoServer} /\ starts \in 0..MaxStarts /\ closed \in BOOLEAN
    /\ request \in [Requests -> {"idle", "start", "wait", "infer"}]

Unlocked == \A r \in Requests : request[r] = "idle"
Does(r, what) == request' = [request EXCEPT ![r] = what]

\* A closed session refuses; startLocked returns at once if there is a cmd,
\* whether its process still runs or not.
BeginRequest(r) ==
    /\ Unlocked /\ ~closed
    /\ Does(r, IF cmd = NoServer THEN "start" ELSE "infer")
    /\ UNCHANGED <<running, verified, cmd, starts, closed>>

StartServer(r) ==
    /\ request[r] = "start" /\ starts < MaxStarts
    /\ starts' = starts + 1 /\ cmd' = starts' /\ running' = running \cup {starts'}
    /\ Does(r, "wait")
    /\ UNCHANGED <<verified, closed>>

\* Options that do not hold, no port, or no process.
StartFails(r) ==
    /\ request[r] = "start" /\ Does(r, "idle")
    /\ UNCHANGED <<running, verified, cmd, starts, closed>>

\* stopProcessLocked waits for the end of the process, and kills it if a
\* signal does not end it in time.
StopProcess == running' = running \ {cmd} /\ cmd' = NoServer

\* The health check is answered; the output of the process confirms Metal.
ServerReady(r) ==
    /\ request[r] = "wait" /\ cmd \in running
    /\ verified' = verified \cup {cmd} /\ Does(r, "infer")
    /\ UNCHANGED <<running, cmd, starts, closed>>

\* Mutant: the server that did not get ready stays.
ServerLeft(r) ==
    /\ request[r] = "wait" /\ Does(r, "idle")
    /\ UNCHANGED <<running, verified, cmd, starts, closed>>

\* The process ends, the time for readiness or the context does, or the output
\* does not confirm Metal.
ServerNotReady(r) ==
    /\ request[r] = "wait" /\ StopProcess /\ Does(r, "idle")
    /\ UNCHANGED <<verified, starts, closed>>

\* A transcript, or the error of a request the server did not answer.
EndRequest(r) ==
    /\ request[r] = "infer" /\ Does(r, "idle")
    /\ UNCHANGED <<running, verified, cmd, starts, closed>>

ServerExits(s) ==
    /\ s \in running /\ running' = running \ {s}
    /\ UNCHANGED <<verified, cmd, starts, closed, request>>

CloseRunner ==
    /\ Unlocked /\ closed' = TRUE
    /\ StopProcess
    /\ UNCHANGED <<verified, starts, request>>

ServerNext ==
    \/ \E r \in Requests :
        \/ BeginRequest(r) \/ StartServer(r) \/ StartFails(r)
        \/ ServerReady(r) \/ ServerNotReady(r) \/ EndRequest(r)
    \/ \E s \in Servers : ServerExits(s)
    \/ CloseRunner

ServerSpec == ServerInit /\ [][ServerNext]_serverVars

-----------------------------------------------------------------------------
(* Properties *)

\* Through failed starts, dead servers and Close, no process runs that the
\* runner lost sight of, none runs once the session is closed, and a file only
\* goes to a server that was ready and proved Metal activation (README.md:407,
\* whisper_server.go:786-870).
OneVerifiedServer ==
    /\ running \subseteq {cmd}
    /\ closed => running = {}
    /\ \A r \in Requests : request[r] = "infer" => cmd \in verified
=============================================================================
