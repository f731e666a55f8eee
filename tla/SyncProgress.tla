----------------------------- MODULE SyncProgress -----------------------------
(***************************************************************************)
(* What a user sees of a synchronisation that a request runs: the batch of *)
(* the server thread (market_data_service.py), the registry of progress in *)
(* the server's memory (sync_progress_service.py) and the page that starts *)
(* the batch, keeps its id in the browser's storage and polls the registry *)
(* (frontend SetupPage.tsx, storage.ts).                                   *)
(*                                                                         *)
(* HistorySync says what a batch does to the bars; here a code is only     *)
(* committed or not, and the codes of a batch are counted.  A batch of the *)
(* stock universe stops at its first failure, one of history goes on.      *)
(***************************************************************************)
EXTENDS Integers

CONSTANTS
  Runs,         \* ids of the runs the user may start
  NoRun,
  Total,        \* Total[r]: the codes of run r
  MaxFaults     \* bound: restarts of the server, polls without an answer and
                \* reloads of the page, in all

ASSUME ProgressAssumption ==
  /\ NoRun \notin Runs
  /\ Total \in [Runs -> Nat \ {0}]
  /\ MaxFaults \in Nat

VARIABLES
  registry,    \* SyncProgressService._states: at most one entry per run
  thread,       \* the thread of each run's request
  committed,   \* ghost: codes of the run whose work is committed
  active,      \* ACTIVE_SYNC_RUN_KEY of the browser's storage
  young,       \* isSyncLookupGracePeriod(active)
  view,        \* data of the query of the active run: at most one entry
  missed,      \* in its grace period, its last poll brought an error
  reply,       \* the answers on their way to it
  faults       \* how many faults there were

progress == <<registry, thread, committed, active, young, view, missed, reply, faults>>
server == <<registry, thread, committed>>
page == <<active, young, view, missed, reply>>

Kinds == {"universe", "history"}
Entry(n) == [status : {"running", "completed", "failed"}, completed : 0 .. n,
             synced : 0 .. n, skipped : 0 .. n, failed : 0 .. n]
NotFound == {}   \* a 404: no entry
AtMostOne(S) == \A e, f \in S : e = f

Batch(n) == [pc : {"none", "queued", "codes", "mark", "abort", "ended"}, kind : Kinds,
             done : 0 .. n, outcome : {"synced", "skipped", "failed"},
             pending : BOOLEAN]   \* the page that sent the request waits for its answer

ProgressTypeOK ==
  /\ DOMAIN registry = Runs /\ DOMAIN thread = Runs /\ DOMAIN committed = Runs
  /\ \A r \in Runs : /\ registry[r] \subseteq Entry(Total[r]) /\ AtMostOne(registry[r])
                    /\ thread[r] \in Batch(Total[r]) /\ committed[r] \in 0 .. Total[r]
  /\ active \in Runs \cup {NoRun} /\ young \in BOOLEAN
  /\ AtMostOne(view) /\ missed \in BOOLEAN
  /\ IF active = NoRun THEN view = {} /\ reply = {}
     ELSE \A answer \in reply \cup {view} : answer \subseteq Entry(Total[active])
  /\ faults \in 0 .. MaxFaults

NoBatch == [pc |-> "none", kind |-> "history", done |-> 0, outcome |-> "failed",
            pending |-> FALSE]
Over == [NoBatch EXCEPT !.pc = "ended"]
Empty == [r \in Runs |-> {}]

ProgressInit ==
  /\ registry = Empty /\ thread = [r \in Runs |-> NoBatch]
  /\ committed = [r \in Runs |-> 0]
  /\ active = NoRun /\ young = FALSE
  /\ view = {} /\ missed = FALSE /\ reply = {}
  /\ faults = 0

At(r, pc) == thread[r].pc = pc
Working(r) == thread[r].pc \in {"queued", "codes", "mark", "abort"}
Fault == faults < MaxFaults /\ faults' = faults + 1
Running == \E e \in view : e.status = "running"
Final == \E e \in view : e.status # "running"

-----------------------------------------------------------------------------
(* The server's thread and the registry.                                   *)

\* What the calls of SyncProgressService do to an entry; without one, nothing.
Update(r, entry) == registry' = [registry EXCEPT ![r] = entry]
CountAnySynced(e, o) == [e EXCEPT !.completed = @ + 1, !.synced = @ + 1]   \* mutant
Count(e, o) == [e EXCEPT !.completed = @ + 1, ![o] = @ + 1]
Closed(e, s) == [e EXCEPT !.status = s]

Begin(r) ==
  /\ At(r, "queued")
  /\ Update(r, {[status |-> "running", completed |-> 0, synced |-> 0,
                 skipped |-> 0, failed |-> 0]})
  /\ thread' = [thread EXCEPT ![r].pc = "codes"]
  /\ UNCHANGED <<committed, page, faults>>

\* An error before start_run (no symbols, a bad date): fail_run finds no entry.
Refuse(r) ==
  /\ At(r, "queued")
  /\ Update(r, {Closed(e, "failed") : e \in registry[r]})
  /\ thread' = [thread EXCEPT ![r] = Over]
  /\ UNCHANGED <<committed, page, faults>>

\* One code: its work and its commit, or its rollback.
Work(r) ==
  /\ At(r, "codes") /\ thread[r].done < Total[r]
  /\ \E o \in {"synced", "skipped", "failed"} :
       /\ thread[r].kind = "universe" => o # "skipped"
       /\ committed' = [committed EXCEPT ![r] = IF o = "failed" THEN @ ELSE @ + 1]
       /\ thread' = [thread EXCEPT ![r].pc = "mark", ![r].outcome = o]
  /\ UNCHANGED <<registry, page, faults>>

\* mark_code_success, _skipped or _failure; a failure ends a universe batch.
Mark(r) ==
  /\ At(r, "mark")
  /\ Update(r, {Count(e, thread[r].outcome) : e \in registry[r]})
  /\ thread' = [thread EXCEPT ![r].done = @ + 1, ![r].outcome = NoBatch.outcome,
                 ![r].pc = IF thread[r].kind = "universe" /\ thread[r].outcome = "failed"
                           THEN "abort" ELSE "codes"]
  /\ UNCHANGED <<committed, page, faults>>

\* The rollback of a failed code raises a database error itself: it leaves the
\* loop uncounted and reaches the route.
Break(r) ==
  /\ At(r, "codes") /\ thread[r].done < Total[r]
  /\ thread' = [thread EXCEPT ![r].pc = "abort"]
  /\ UNCHANGED <<registry, committed, page, faults>>

Abort(r) ==
  /\ At(r, "abort")
  /\ Update(r, {Closed(e, "failed") : e \in registry[r]})
  /\ thread' = [thread EXCEPT ![r] = Over]
  /\ UNCHANGED <<committed, page, faults>>

Complete(r) ==
  /\ At(r, "codes") /\ thread[r].done = Total[r]
  /\ Update(r, {Closed(e, "completed") : e \in registry[r]})
  /\ thread' = [thread EXCEPT ![r] = Over]
  /\ UNCHANGED <<committed, page, faults>>

\* The process restarts: its memory is lost, and its threads with it.
RestartServer ==
  /\ Fault
  /\ registry' = Empty
  /\ thread' = [r \in Runs |-> IF Working(r) THEN Over ELSE thread[r]]
  /\ UNCHANGED <<committed, page>>

-----------------------------------------------------------------------------
(* The page.                                                               *)

\* isSyncBusy: a batch is shown as running, or a request of this page is pending.
Busy == Running \/ \E r \in Runs : thread[r].pending

\* The page turns to a run, or to none: the query of the new key starts empty.
Follow(r, isYoung) == /\ active' = r /\ young' = isYoung
                      /\ view' = {} /\ missed' = FALSE /\ reply' = {}

Start(r) ==
  /\ At(r, "none") /\ ~Busy
  /\ \E k \in Kinds :
       thread' = [thread EXCEPT ![r].pc = "queued", ![r].kind = k, ![r].pending = TRUE]
  /\ Follow(r, TRUE)
  /\ UNCHANGED <<registry, committed, faults>>

GraceEnds ==
  /\ young /\ young' = FALSE /\ missed' = FALSE
  /\ UNCHANGED <<server, active, view, reply, faults>>

\* mutant: a poll does not wait for the answer of the one before
PollOverlapping ==
  /\ active # NoRun /\ ~Final
  /\ reply' = reply \cup {registry[active]}
  /\ UNCHANGED <<server, active, young, view, missed, faults>>

\* get_run, once a second while the run is not known to have ended; a query that is
\* being fetched is not fetched again.
Poll ==
  /\ active # NoRun /\ ~Final /\ reply = {}
  /\ reply' = {registry[active]}
  /\ UNCHANGED <<server, active, young, view, missed, faults>>

\* An entry replaces the one shown.
Show(answer) ==
  /\ answer # NotFound
  /\ view' = answer /\ missed' = FALSE /\ reply' = reply \ {answer}
  /\ UNCHANGED <<server, active, young, faults>>

\* mutant: a run that is not found is polled for ever
UnknownKept(answer) ==
  /\ answer = NotFound /\ missed' = young /\ reply' = reply \ {answer}
  /\ UNCHANGED <<server, active, young, view, faults>>

\* A 404 leaves what is shown; when the grace period is over it makes the page
\* forget the run.
Unknown(answer) ==
  /\ answer = NotFound
  /\ \/ /\ young /\ missed' = TRUE /\ reply' = reply \ {answer}
        /\ UNCHANGED <<active, young, view>>
     \/ ~young /\ Follow(NoRun, FALSE)
  /\ UNCHANGED <<server, faults>>

\* Any other error of a poll is not a reason to forget the run.
LosePoll ==
  /\ Fault /\ reply # {}
  /\ missed' = young /\ reply' = {}
  /\ UNCHANGED <<server, active, young, view>>

\* The button that clears the card of a run that is not running, or of which the
\* first polls found nothing.
Dismiss ==
  /\ active # NoRun
  /\ Final \/ (view = {} /\ missed)
  /\ Follow(NoRun, FALSE)
  /\ UNCHANGED <<server, faults>>

\* Only the storage survives a reload.
Reload ==
  /\ Fault
  /\ thread' = [r \in Runs |-> [thread[r] EXCEPT !.pending = FALSE]]
  /\ Follow(active, young)
  /\ UNCHANGED <<registry, committed>>

-----------------------------------------------------------------------------
Thread(r) == Begin(r) \/ Refuse(r) \/ Work(r) \/ Mark(r) \/ Break(r) \/ Abort(r) \/ Complete(r)
Answer == \E answer \in reply : Show(answer) \/ Unknown(answer)

ProgressNext ==
  \/ \E r \in Runs : Thread(r) \/ Start(r)
  \/ Poll \/ Answer \/ LosePoll
  \/ GraceEnds \/ Dismiss \/ Reload \/ RestartServer

ProgressSpec == ProgressInit /\ [][ProgressNext]_progress

\* The server's threads run, the page stays open and polls, its polls are answered
\* but for MaxFaults, and the grace period ends.
FairSpec ==
  /\ ProgressSpec
  /\ WF_progress(GraceEnds) /\ WF_progress(Poll) /\ WF_progress(Answer)
  /\ \A r \in Runs : WF_progress(Thread(r))

-----------------------------------------------------------------------------
(* What the user may rely on.                                              *)

\* The page never counts a code as synced or skipped that is not committed, its
\* counts add up, and a run shown as completed has answered all its codes
\* (market_data_service.py:86-105, 137-160; sync_progress_service.py:47-90).
ShownIsCommitted ==
  \A e \in view :
    /\ e.synced + e.skipped =< committed[active]
    /\ e.completed = e.synced + e.skipped + e.failed
    /\ e.status = "completed" => e.completed = Total[active]

\* While the page is open, what it shows of a run neither loses a code nor takes an
\* end back, whatever the order of polls, lost answers and restarts
\* (SetupPage.tsx:231-247).
Later(new, old) == /\ new.completed >= old.completed /\ new.synced >= old.synced
                   /\ old.status # "running" => new = old
NeverBackwards ==
  [][active' = active => \A new \in view', old \in view : Later(new, old)]_progress

\* A run the page follows is shown to its end or forgotten: no card is left running
\* for ever, though the registry dies with the process and an early error leaves no
\* entry (SetupPage.tsx:112-118, 249-261; jobs.py:71-83, 174-183).
SettlesOrForgets == \A r \in Runs : active = r ~> (active # r \/ Final)
===============================================================================
