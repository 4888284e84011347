--------------------------- MODULE MCSharedMerged ---------------------------
(***************************************************************************)
(* Two chats with one message each way, plain runs, for TLC.               *)
(***************************************************************************)
EXTENDS SharedMerged

PlainOnly == {[all |-> FALSE, reset |-> FALSE, resetMerged |-> FALSE, start |-> 0]}
=============================================================================
