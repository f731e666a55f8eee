------------------------------- MODULE MCHistory -------------------------------
(* Four days of two months: two trading days, a day of the weekend and a     *)
(* holiday.  Suspended codes are asked for like the others and have no bar.  *)
EXTENDS HistorySync

CONSTANT Suspended

MCMonth == [d \in 1 .. 4 |-> IF d =< 3 THEN [first |-> 1, last |-> 3]
                             ELSE [first |-> 4, last |-> 4]]
MCWindows == {<<1, 4>>}
SuspendedHaveNoBars == \A c \in Suspended : published[c] = {}
================================================================================
