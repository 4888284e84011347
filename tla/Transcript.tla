----------------------------- MODULE Transcript -----------------------------
(***************************************************************************)
(* A long recording on its way to a transcript (whisper_server.go): windows *)
(* of the audio are probed for the first and the last speech, the silence   *)
(* before is cut off, the server decodes the rest, the answer must reach    *)
(* the last speech, and a terminal interval may be decoded once more.       *)
(* Times are whole seconds.                                                *)
(***************************************************************************)
EXTENDS Integers, Sequences, FiniteSets, SequencesExt, FiniteSetsExt

CONSTANTS
    Lengths,         \* of recordings
    LongMedia,       \* WhisperAdaptiveDescriptor.LongMediaSeconds
    LeadingSilence,  \* LeadingSilenceSeconds
    LeadIn,          \* LeadInMS
    Window, Overlap, \* ScanWindowSeconds, ScanOverlapSeconds
    Tolerance,       \* TrailingCoverageToleranceSeconds
    Context,         \* TrailingRecoveryContextSeconds
    RecoveryMax,     \* TrailingRecoveryMaxSeconds
    MinSpeech        \* shortest speech the VAD reports

ASSUME TranscriptConstants ==
    /\ Lengths \subseteq Nat \ {0}
    /\ {LongMedia, LeadingSilence, LeadIn, Window, Tolerance, Context, RecoveryMax} \subseteq Nat
    /\ MinSpeech \in Nat \ {0} /\ Overlap \in MinSpeech..(Window - 1)

VARIABLES
    length,   \* of the recording
    speech,   \* its stretches of speech
    step,     \* of the transcription
    at,       \* start or end of the window being probed
    first, last,   \* what the scans found
    trim,     \* seconds cut off
    answer    \* the segments of the answer

transcriptVars == <<length, speech, step, at, first, last, trim, answer>>

Stretch(d) == {s \in [start : 0..d, end : 0..d] : s.end - s.start >= MinSpeech}

\* One or two stretches apart from each other, or silence.
Speeches(d) ==
    {{}} \cup {{s} : s \in Stretch(d)} \cup
    {{p[1], p[2]} : p \in {q \in Stretch(d) \X Stretch(d) : q[1].end < q[2].start}}

TranscriptInit ==
    /\ length \in Lengths /\ speech \in Speeches(length)
    /\ step = "start" /\ at = 0 /\ first = 0 /\ last = 0 /\ trim = 0 /\ answer = << >>

Steps == {"start", "first", "last", "bounds", "decode", "validate", "recover",
          "accepted", "rejected", "silent", "short"}

TranscriptTypeOK ==
    /\ length \in Lengths /\ speech \subseteq Stretch(length) /\ step \in Steps
    /\ {at, first, last, trim} \subseteq 0..length
    /\ \A i \in DOMAIN answer : answer[i].start \in 0..length /\ answer[i].end \in 0..length + 1

SmallerOf(a, b) == IF a < b THEN a ELSE b
LargerOf(a, b)  == IF a < b THEN b ELSE a

\* The VAD on the interval from o to e: the speech in it, as far as it is long
\* enough there, in seconds of the recording.
Probe(o, e) ==
    {s \in {[start |-> LargerOf(s.start, o), end |-> SmallerOf(s.end, e)] : s \in speech} :
        s.end - s.start >= MinSpeech}
Start(segments) == Min({s.start : s \in segments})
End(segments)   == Max({s.end : s \in segments})

Ends(outcome) == step' = outcome /\ UNCHANGED <<length, speech, at, first, last, trim, answer>>

-----------------------------------------------------------------------------
(* Where speech begins and ends *)

\* prepareAdaptiveWAV, selectAdaptiveRoute: a short recording is probed whole.
Route ==
    /\ step = "start"
    /\ LET segments == Probe(0, length) IN
       \/ length >= LongMedia /\ step' = "first" /\ UNCHANGED <<first, last>>
       \/ /\ length < LongMedia /\ segments = {}
          /\ step' = "silent" /\ UNCHANGED <<first, last>>
       \/ /\ length < LongMedia /\ segments # {}
          /\ first' = Start(segments) /\ last' = End(segments)
          /\ step' = IF Start(segments) >= LeadingSilence THEN "bounds" ELSE "short"
    /\ UNCHANGED <<length, speech, at, trim, answer>>

\* Mutant: windows beside each other.
ScanFirstApart ==
    /\ step = "first"
    /\ LET end == SmallerOf(at + Window, length)
           segments == Probe(at, end)
       IN \/ /\ segments # {}
             /\ first' = Start(segments) /\ last' = End(segments)
             /\ step' = IF end = length THEN "bounds" ELSE "last"
             /\ at' = length
          \/ segments = {} /\ end = length /\ step' = "silent" /\ UNCHANGED <<at, first, last>>
          \/ segments = {} /\ end < length /\ at' = at + Window /\ UNCHANGED <<step, first, last>>
    /\ UNCHANGED <<length, speech, trim, answer>>

\* findFirstSpeech
ScanFirst ==
    /\ step = "first"
    /\ LET end == SmallerOf(at + Window, length)
           segments == Probe(at, end)
       IN \/ /\ segments # {}
             /\ first' = Start(segments) /\ last' = End(segments)
             /\ step' = IF end = length THEN "bounds" ELSE "last"
             /\ at' = length
          \/ segments = {} /\ end = length /\ step' = "silent" /\ UNCHANGED <<at, first, last>>
          \/ segments = {} /\ end < length /\ at' = at + Window - Overlap
             /\ UNCHANGED <<step, first, last>>
    /\ UNCHANGED <<length, speech, trim, answer>>

\* findLastSpeech; finding none is an error.
ScanLast ==
    /\ step = "last"
    /\ LET offset == LargerOf(0, at - Window)
           segments == Probe(offset, at)
       IN \/ segments # {} /\ last' = End(segments) /\ step' = "bounds" /\ UNCHANGED at
          \/ segments = {} /\ offset = 0 /\ step' = "rejected" /\ UNCHANGED <<last, at>>
          \/ segments = {} /\ offset > 0 /\ at' = offset + Overlap /\ UNCHANGED <<last, step>>
    /\ UNCHANGED <<length, speech, first, trim, answer>>

\* prepareLongFormFromBounds; from here on times are relative to the cut.
Trim ==
    /\ step = "bounds"
    /\ trim' = LargerOf(0, first - LeadIn)
    /\ last' = last - trim'
    /\ step' = IF last' <= 0 THEN "rejected" ELSE "decode"
    /\ UNCHANGED <<length, speech, at, first, answer>>

-----------------------------------------------------------------------------
(* Decoding *)

Duration == length - trim

\* What a server may answer to a recording of d seconds; the last segment can
\* reach over the end, and no timestamps or text at all are an empty answer.
Answers(d) ==
    UNION {[1..n -> [start : 0..d, end : 0..d + 1]] : n \in 0..2}

\* validateTimestampedLongFormResponse without its last condition.
WellFormed(segments, d) ==
    /\ segments # << >>
    /\ \A i \in DOMAIN segments :
         LET s == segments[i] IN
         /\ s.start <= s.end
         /\ s.end > d => i = Len(segments) /\ s.start < d
         /\ i > 1 => /\ segments[i - 1].start <= s.start
                     /\ segments[i - 1].end <= SmallerOf(s.end, d)

\* boundedTerminalSegmentEnd
Reach(segments, d) == SmallerOf(Last(segments).end, d)

Gap(segments, d, speechEnd) == LargerOf(0, speechEnd - Reach(segments, d))

Covered(segments, d, speechEnd) == Gap(segments, d, speechEnd) <= Tolerance

Decode ==
    /\ step = "decode"
    /\ answer' \in Answers(Duration)
    /\ step' = "validate"
    /\ UNCHANGED <<length, speech, at, first, last, trim>>

Validate ==
    /\ step = "validate"
    /\ step' = IF ~WellFormed(answer, Duration) THEN "rejected"
               ELSE IF Covered(answer, Duration, last) THEN "accepted" ELSE "recover"
    /\ UNCHANGED <<length, speech, at, first, last, trim, answer>>

\* The terminal segments that are decoded again begin within Context of the end.
TailStart ==
    CHOOSE k \in DOMAIN answer :
        /\ \A i \in (k + 1)..Len(answer) : answer[i - 1].start >= Reach(answer, Duration) - Context
        /\ k > 1 => answer[k - 1].start < Reach(answer, Duration) - Context

\* recoverLongFormTailLocked: the tail must pass the same gate, and the whole
\* answer with it.
RecoverTail ==
    /\ step = "recover"
    /\ LET offset == answer[TailStart].start
           end    == SmallerOf(Duration, last + 1)
       IN \/ (end <= offset \/ end - offset > RecoveryMax) /\ Ends("rejected")
          \/ /\ end > offset /\ end - offset <= RecoveryMax
             /\ \E tail \in Answers(end - offset) :
                  IF ~(WellFormed(tail, end - offset) /\ Covered(tail, end - offset, last - offset))
                  THEN step' = "rejected" /\ UNCHANGED answer
                  ELSE LET moved == [i \in DOMAIN tail |->
                                        [start |-> offset + tail[i].start,
                                         end |-> offset + SmallerOf(tail[i].end, end - offset)]]
                       IN  /\ answer' = SubSeq(answer, 1, TailStart - 1) \o moved
                           /\ step' = IF WellFormed(answer', Duration) /\ Covered(answer', Duration, last)
                                      THEN "accepted" ELSE "rejected"
             /\ UNCHANGED <<length, speech, at, first, last, trim>>

TranscriptNext ==
    \/ Route \/ ScanFirst \/ ScanLast \/ Trim \/ Decode \/ Validate \/ RecoverTail

TranscriptSpec == TranscriptInit /\ [][TranscriptNext]_transcriptVars

-----------------------------------------------------------------------------
(* Properties *)

\* A recording is taken for silent only if it is.  What is accepted was decoded
\* from audio that has all of the speech, and its last segment ends at most
\* Tolerance before the end of the last speech, through the overlapping windows,
\* the cut and a recovered tail (whisper_server.go:333-336).
SpeechIsCovered ==
    /\ step = "silent" => speech = {}
    /\ step = "accepted" /\ speech # {} =>
        /\ trim <= Start(speech)
        /\ trim + Reach(answer, Duration) >= End(speech) - Tolerance
=============================================================================
