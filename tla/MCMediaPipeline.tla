--------------------------- MODULE MCMediaPipeline ---------------------------
(***************************************************************************)
(* A small instance of MediaPipeline for TLC: two pages, one media in three *)
(* attachments of both, a large one; another goroutine that reads history  *)
(* and downloads a file.                                                   *)
(***************************************************************************)
EXTENDS MediaPipeline

TwoCallers == {"walk", "other"}
SixTasks   == {"a", "b", "c", "d", "e", "x"}
Keyed      == [t \in SixTasks \ {"x"} |-> IF t \in {"a", "b", "e"} THEN "k" ELSE t]
TwoPages   == <<<<"a", "b", "c", "d">>, <<"e">>>>
SomeCached == {{}, {"k"}, {"c"}}
OneExtra   == [c \in {"other"} |-> <<"x">>]
=============================================================================
