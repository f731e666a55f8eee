-------------------------------- MODULE MCSynced --------------------------------
(* One run of one code over a trading day and a weekend day after it, beside *)
(* the 14:10 job and a poller.                                               *)
EXTENDS SyncedHistory

MCMonth == [d \in Days |-> [first |-> 1, last |-> LastDay]]
MCWindows == {<<1, LastDay>>}
MCTotal == [r \in Runs |-> Cardinality(Codes)]
=================================================================================
