----------------------------- MODULE SyncedHistory -----------------------------
(***************************************************************************)
(* A synchronisation that a user starts and watches, from the page to the  *)
(* bars: SyncProgress and HistorySync as one system.  A run of the page is *)
(* the batch of the same name: its thread goes through the codes of the    *)
(* batch, and what the batch answers for a code is what the thread marks   *)
(* in the registry.  A restart of the process ends both the batches and    *)
(* the registry.  The clock, the exchange and the 14:10 job go on beside   *)
(* them.  The runs are those of histories: one of the stock universe       *)
(* touches no bars.                                                        *)
(***************************************************************************)
EXTENDS HistorySync, SyncProgress

ASSUME SyncedAssumption == Runs = Manual /\ IsFiniteSet(Codes)

VARIABLES
  overdue,    \* ghost: the bars of past days published in a run's window when it began,
              \* but for those the exchange left out of its answer to the run
  guessed     \* ghost: the codes a run skipped on the word of the gap fallback

ghosts == <<overdue, guessed>>
synced == <<vars, progress, ghosts>>

SyncedInit ==
  /\ Init /\ ProgressInit
  /\ overdue = [r \in Runs |-> [c \in Codes |-> {}]]
  /\ guessed = [r \in Runs |-> {}]

\* The button that starts the synchronisation of histories.
StartRun(r) ==
  /\ Start(r) /\ thread'[r].kind = "history"
  /\ UNCHANGED <<vars, ghosts>>

\* The targets are chosen and start_run is told their number.
BeginRun(r) ==
  /\ Begin(r) /\ StartManual(r)
  /\ Cardinality(batch'[r].asked) = Total[r]
  /\ overdue' = [overdue EXCEPT ![r] =
       [c \in Codes |-> {d \in published[c] \cap (batch'[r].from .. batch'[r].to) : d < day}]]
  /\ UNCHANGED guessed

\* A code is compared with the cache and has to be fetched, or is being fetched: the
\* registry is told nothing yet.
GoOn(r) ==
  /\ At(r, "codes") /\ thread[r].done < Total[r]
  /\ Fetch(r) \/ \E c \in Codes : Cover(r, c) /\ batch'[r].pc = "fetch"
  /\ UNCHANGED <<progress, ghosts>>

\* A code is answered.  Without a calendar a skip is a guess.
AnswerCode(r, c) ==
  /\ \/ /\ Cover(r, c)
        /\ guessed' = [guessed EXCEPT ![r] = IF calendar' = "unknown" THEN @ \cup {c} ELSE @]
        /\ UNCHANGED overdue
     \/ /\ Store(r) /\ c = batch[r].code
        /\ overdue' = [overdue EXCEPT ![r][c] = @ \cap batch[r].found]
        /\ UNCHANGED guessed
     \/ Fail(r, c) /\ UNCHANGED ghosts
  /\ batch'[r].pc = "codes"

(* Mutant: whatever was answered is marked as a success.                   *)
MarkedSynced(r, c) == "synced"

\* What the loop will mark the code as.
MarkedAs(r, c) == batch'[r].answer[c]

WorkOn(r) ==
  /\ Work(r)
  /\ \E c \in Codes : AnswerCode(r, c) /\ thread'[r].outcome = MarkedAs(r, c)

CompleteRun(r) == Complete(r) /\ Finish(r) /\ UNCHANGED ghosts

\* The batch is not touched; one whose thread breaks off is left where it is.
Aside(r) ==
  /\ Refuse(r) \/ Mark(r) \/ Break(r) \/ Abort(r)
  /\ UNCHANGED <<vars, ghosts>>

OnPage ==
  /\ Poll \/ Answer \/ LosePoll \/ GraceEnds \/ Dismiss \/ Reload
  /\ UNCHANGED <<vars, ghosts>>

Elsewhere ==
  /\ Tick \/ (\E c \in Codes : Publish(c)) \/ StartClose \/ Step(Close)
  /\ UNCHANGED <<progress, ghosts>>

RestartProcess == Restart /\ RestartServer /\ UNCHANGED ghosts

SyncedNext ==
  \/ \E r \in Runs : StartRun(r) \/ BeginRun(r) \/ GoOn(r) \/ WorkOn(r) \/ CompleteRun(r) \/ Aside(r)
  \/ OnPage \/ Elsewhere \/ RestartProcess

SyncedSpec == SyncedInit /\ [][SyncedNext]_synced

-----------------------------------------------------------------------------
(* What the card of a run stands for.                                      *)

AnsweredAs(r, o) == {c \in DOMAIN batch[r].answer : batch[r].answer[c] = o}

\* The numbers on the card are numbers of codes: as many were synced, skipped or
\* failed at least, and of a completed run exactly as many, though each is marked in
\* the registry a step after it was committed and reaches the page by a poll
\* (market_data_service.py:137-160).
CountsAreAnswers ==
  \A e \in view : batch[active].asked # {} =>
    \A o \in Answers : /\ e[o] =< Cardinality(AnsweredAs(active, o))
                       /\ e.status = "completed" => e[o] = Cardinality(AnsweredAs(active, o))

\* A run shown as completed without a failure has left no hole of its own: the
\* database has every bar of a past day of the window that the exchange had published
\* when the run began, of every code it was asked for, but for the bars the exchange
\* left out of its answer to the run (twstock_client.py:83-85,119-128) and the codes
\* skipped on the word of the gap fallback (market_data_service.py:361-388).
ShownIsStored ==
  \A e \in view : e.status = "completed" /\ e.failed = 0 =>
    \A c \in batch[active].asked \ guessed[active] : overdue[active][c] \subseteq bars[c]
================================================================================
