--------------------------- MODULE MCDailyCatchup ---------------------------
(***************************************************************************)
(* Small instances of DailyCatchup for TLC.                                *)
(***************************************************************************)
EXTENDS DailyCatchup

Plain     == [cmd |-> "catchup", from |-> 0, back |-> 0, limit |-> 0]
From(D)   == [Plain EXCEPT !.from = D]
Limited   == [Plain EXCEPT !.limit = 1]
Yesterday == [Plain EXCEPT !.cmd = "daily", !.back = 1]

WholeDays == {Plain, From(1), Limited, Yesterday}
Catchups  == {Plain, From(1)}
=============================================================================
