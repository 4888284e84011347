----------------------------- MODULE MCChatSync -----------------------------
(***************************************************************************)
(* Small instances of ChatSync for TLC: one chat, its stream and           *)
(* optionally a merged output.                                             *)
(***************************************************************************)
EXTENDS ChatSync

OneOutput  == <<"stream">>
TwoOutputs == <<"stream", "merged">>

\* Command lines of `sync`.
Plain           == [all |-> FALSE, reset |-> FALSE, resetMerged |-> FALSE, start |-> 0]
RefreshFrom(id) == [Plain EXCEPT !.start = id]
Resume          == [Plain EXCEPT !.all = TRUE]
Reset           == [Plain EXCEPT !.all = TRUE, !.reset = TRUE, !.resetMerged = TRUE]
Rewrite         == [Plain EXCEPT !.reset = TRUE]

PlainRefresh == {Plain, RefreshFrom(1)}
PlainLate    == {Plain, RefreshFrom(3)}
Mixed        == {Plain, RefreshFrom(1), Reset, Resume}
Unreconciled == {Plain, Reset, Resume, Rewrite}

\* The documented use of --reset (README.md:564): it begins a new stream.
ResetFirst == spent'.resets > spent.resets
              => state = ZeroState /\ journal.phase = "absent"

\* The same, but a first incremental run may have been interrupted before.
ResetEarly == spent'.resets > spent.resets => state = ZeroState
=============================================================================
