----------------------------- MODULE SyncProofs -----------------------------
(***************************************************************************)
(* Proofs about the synchronisation: what its batches do to the bars       *)
(* (HistorySync), for any codes, days, holidays and batches, and what a    *)
(* page shows of them (SyncProgress), for any runs, numbers of codes,      *)
(* restarts, lost polls and reloads; and the two as one system             *)
(* (SyncedHistory), whose assumption the proofs of the parts do not use.   *)
(***************************************************************************)
EXTENDS SyncedHistory, FiniteSetTheorems, TLAPS

(* The exchange has bars of trading days only. *)
PublishedOnTradingDays == \A c \in Codes : published[c] \subseteq TradingDays

(* The codes of a batch are answered or still to do. *)
Accounted ==
  \A b \in Batches : /\ batch[b].asked = batch[b].todo \cup DOMAIN batch[b].answer
                     /\ batch[b].pc = "done" => batch[b].todo = {}

(* The inductive invariant. *)
HInv == TypeOK /\ PublishedOnTradingDays /\ Accounted /\ NothingOverdue

-----------------------------------------------------------------------------
(* One batch: its record after each kind of step *)

LEMMA IdleType == Idle \in BatchType
  <1>1. 1 \in Days /\ LastDay \in Days
    BY HistoryAssumption DEF Days
  <1>2. Idle.answer \in [{} -> Answers]
    BY DEF Idle
  <1>3. {} \in SUBSET Codes
    OBVIOUS
  <1>4. Idle.answer \in UNION {[S -> Answers] : S \in SUBSET Codes}
    BY <1>2, <1>3
  <1>5. QED
    BY <1>1, <1>4 DEF Idle, BatchType

LEMMA StartedType ==
  ASSUME NEW from \in Days, NEW to \in Days, NEW codes \in SUBSET Codes
  PROVE  /\ Started(from, to, codes) \in BatchType
         /\ Started(from, to, codes).asked = codes
         /\ Started(from, to, codes).todo = codes
         /\ DOMAIN Started(from, to, codes).answer = {}
         /\ Started(from, to, codes).pc = "codes"
  BY IdleType DEF Started, BatchType, Idle

\* The entry of the batch that answered.
Reply(old, c, a) ==
  [old EXCEPT !.pc = "codes", !.code = NoCode, !.todo = @ \ {c}, !.asOf = 1, !.found = {},
              !.answer = [x \in DOMAIN @ \cup {c} |-> IF x = c THEN a ELSE @[x]]]

LEMMA ReplyType ==
  ASSUME NEW old \in BatchType, NEW c \in Codes, NEW a \in Answers
  PROVE  /\ Reply(old, c, a) \in BatchType
         /\ Reply(old, c, a).pc = "codes"
         /\ Reply(old, c, a).todo = old.todo \ {c}
         /\ Reply(old, c, a).asked = old.asked
         /\ DOMAIN Reply(old, c, a).answer = DOMAIN old.answer \cup {c}
  <1> DEFINE new == [x \in DOMAIN old.answer \cup {c} |-> IF x = c THEN a ELSE old.answer[x]]
  <1>1. PICK S \in SUBSET Codes : old.answer \in [S -> Answers]
    BY DEF BatchType
  <1>2. new \in [S \cup {c} -> Answers]
    BY <1>1
  <1>3. S \cup {c} \in SUBSET Codes
    BY <1>1
  <1>4. new \in UNION {[T -> Answers] : T \in SUBSET Codes}
    BY <1>2, <1>3
  <1>5. DOMAIN new = DOMAIN old.answer \cup {c}
    OBVIOUS
  <1> DEFINE one == 1
  <1>6. Reply(old, c, a) =
          [old EXCEPT !.pc = "codes", !.code = NoCode, !.todo = old.todo \ {c},
                      !.asOf = one, !.found = {}, !.answer = new]
    BY DEF Reply, BatchType
  <1>7. one \in Days
    BY HistoryAssumption DEF Days
  <1> HIDE DEF new, one
  <1>8. Reply(old, c, a) \in BatchType
    <2> DEFINE mid == [old EXCEPT !.asOf = one]
    <2> DEFINE end == [mid EXCEPT !.pc = "codes", !.code = NoCode, !.todo = old.todo \ {c},
                                  !.found = {}, !.answer = new]
    <2>1. mid \in BatchType
      BY <1>7 DEF BatchType
    <2>2. end \in BatchType
      BY <1>4, <2>1 DEF BatchType
    <2>3. Reply(old, c, a) = end
      BY <1>6 DEF BatchType
    <2>4. QED
      BY <2>2, <2>3
  <1>9. Reply(old, c, a).answer = new
    BY <1>6 DEF BatchType
  <1>10. /\ Reply(old, c, a).pc = "codes"
        /\ Reply(old, c, a).todo = old.todo \ {c}
        /\ Reply(old, c, a).asked = old.asked
    BY <1>6 DEF BatchType
  <1>11. QED
    BY <1>5, <1>8, <1>9, <1>10

LEMMA AnsweredIsReply ==
  ASSUME TypeOK, NEW b \in Batches, NEW c \in Codes, NEW a \in Answers
  PROVE  Answered(b, c, a) = [batch EXCEPT ![b] = Reply(batch[b], c, a)]
  BY DEF Answered, Reply, TypeOK, BatchType
-----------------------------------------------------------------------------
(* The invariant *)

LEMMA HInvInit == Init => HInv
  <1> SUFFICES ASSUME Init PROVE HInv
    OBVIOUS
  <1>1. WorldOK
    BY HistoryAssumption DEF Init, WorldOK, Days, Clocks
  <1>2. \A b \in Batches : batch[b] = Idle
    BY DEF Init
  <1>3. batch \in [Batches -> BatchType]
    BY IdleType DEF Init
  <1>4. /\ Idle.pc = "idle" /\ Idle.todo = {} /\ Idle.asked = {}
        /\ DOMAIN Idle.answer = {}
    BY DEF Idle
  <1>5. TypeOK /\ Accounted
    BY <1>1, <1>2, <1>3, <1>4 DEF TypeOK, Accounted, Fetching
  <1>6. PublishedOnTradingDays /\ NothingOverdue
    BY DEF Init, PublishedOnTradingDays, NothingOverdue
  <1>7. QED
    BY <1>5, <1>6 DEF HInv

\* A step that changes the record of one batch, and of the world no more than the
\* hypotheses say.
LEMMA HInvBatch ==
  ASSUME HInv, NEW b \in Batches, NEW new \in BatchType,
         batch' = [batch EXCEPT ![b] = new],
         WorldOK', UNCHANGED published, NothingOverdue',
         new.asked = new.todo \cup DOMAIN new.answer,
         new.pc = "done" => new.todo = {},
         new.pc \in {"fetch", "store"} => new.code \in new.todo
  PROVE  HInv'
  <1>1. batch' \in [Batches -> BatchType]
    BY DEF HInv, TypeOK
  <1>2. \A x \in Batches : batch'[x] = IF x = b THEN new ELSE batch[x]
    BY DEF HInv, TypeOK
  <1>3. TypeOK'
    BY <1>1, <1>2 DEF HInv, TypeOK, Fetching
  <1>4. Accounted'
    BY <1>2 DEF HInv, Accounted
  <1>5. PublishedOnTradingDays'
    BY DEF HInv, PublishedOnTradingDays
  <1>6. QED
    BY <1>3, <1>4, <1>5 DEF HInv

LEMMA CodeInHand ==
  ASSUME TypeOK, NEW b \in Batches, Fetching(b)
  PROVE  batch[b].code \in Codes /\ batch[b].code \in batch[b].todo
  <1>1. batch[b] \in BatchType /\ batch[b].code \in batch[b].todo
    BY DEF TypeOK
  <1>2. batch[b].todo \in SUBSET Codes
    BY <1>1 DEF BatchType
  <1>3. QED
    BY <1>1, <1>2

LEMMA HInvPublish ==
  ASSUME HInv, NEW c \in Codes, Publish(c)
  PROVE  HInv'
  <1>1. /\ published \in [Codes -> SUBSET Days] /\ day \in Days /\ day \in TradingDays
        /\ published' = [published EXCEPT ![c] = @ \cup {day}]
        /\ UNCHANGED <<day, clock, bars, calendar, closeDay, batch, due, served>>
    BY DEF HInv, TypeOK, WorldOK, Publish
  <1>2. WorldOK'
    BY <1>1 DEF HInv, TypeOK, WorldOK
  <1>3. TypeOK'
    BY <1>1, <1>2 DEF HInv, TypeOK, Fetching
  <1>4. PublishedOnTradingDays'
    BY <1>1 DEF HInv, PublishedOnTradingDays
  <1>5. Accounted' /\ NothingOverdue'
    BY <1>1 DEF HInv, Accounted, NothingOverdue
  <1>6. QED
    BY <1>3, <1>4, <1>5 DEF HInv

LEMMA HInvTick ==
  ASSUME HInv, Tick
  PROVE  HInv'
  <1>1. UNCHANGED <<published, bars, calendar, closeDay, batch, due, served>>
    BY DEF Tick
  <1>2. day' \in Days /\ clock' \in Clocks
    BY HistoryAssumption DEF Tick, HInv, TypeOK, WorldOK, Days, Clocks
  <1>3. WorldOK'
    BY <1>1, <1>2 DEF HInv, TypeOK, WorldOK
  <1>4. TypeOK'
    BY <1>1, <1>3 DEF HInv, TypeOK, Fetching
  <1>5. /\ PublishedOnTradingDays' /\ Accounted' /\ NothingOverdue'
    BY <1>1 DEF HInv, PublishedOnTradingDays, Accounted, NothingOverdue, Fetching
  <1>6. QED
    BY <1>4, <1>5 DEF HInv

\* The cache after a consultation, and the record of a batch.
LEMMA CacheType ==
  ASSUME HInv, NEW cal \in Consulted \cup {calendar}
  PROVE  Cached(cal) \in {"unknown", "loaded", "blank"}
  BY DEF HInv, TypeOK, WorldOK, Consulted, Cached

LEMMA HInvStartClose ==
  ASSUME HInv, StartClose
  PROVE  HInv'
  <1>1. PICK cal \in Consulted \cup {calendar} :
          /\ calendar' = Cached(cal)
          /\ batch' = [batch EXCEPT ![Close] =
                         IF cal # "error" /\ IsTradingDay(day, cal)
                         THEN Started(Month[day].first, Month[day].last, Codes) ELSE Idle]
    BY DEF StartClose
  <1>2. closeDay' = day /\ UNCHANGED <<day, clock, published, bars, due, served>>
    BY DEF StartClose
  <1>3. day \in Days /\ day \in 0 .. LastDay
    BY HistoryAssumption DEF HInv, TypeOK, WorldOK, Days
  <1>4. WorldOK'
    BY <1>1, <1>2, <1>3, CacheType DEF HInv, TypeOK, WorldOK
  <1>5. NothingOverdue'
    BY <1>2 DEF HInv, NothingOverdue
  <1> DEFINE new == IF cal # "error" /\ IsTradingDay(day, cal)
                    THEN Started(Month[day].first, Month[day].last, Codes) ELSE Idle
  <1>6. Month[day].first \in Days /\ Month[day].last \in Days
    BY <1>3, HistoryAssumption
  <1>7. /\ new \in BatchType /\ new.asked = new.todo \cup DOMAIN new.answer
        /\ new.pc \in {"codes", "idle"}
    <2>1. /\ Idle.pc = "idle" /\ Idle.todo = {} /\ Idle.asked = {}
          /\ DOMAIN Idle.answer = {}
      BY DEF Idle
    <2>2. QED
      BY <1>6, <2>1, IdleType, StartedType
  <1>8. Close \in Batches /\ batch' = [batch EXCEPT ![Close] = new]
    BY <1>1 DEF Batches
  <1> HIDE DEF new
  <1>9. QED
    BY <1>2, <1>4, <1>5, <1>7, <1>8, HInvBatch

LEMMA HInvStartManual ==
  ASSUME HInv, NEW b \in Manual, StartManual(b)
  PROVE  HInv'
  <1>1. PICK w \in Windows, codes \in (SUBSET Codes) \ {{}} :
          batch' = [batch EXCEPT ![b] = Started(w[1], w[2], codes)]
    BY DEF StartManual
  <1>2. UNCHANGED <<day, clock, published, bars, calendar, closeDay, due, served>>
    BY DEF StartManual
  <1>3. WorldOK' /\ NothingOverdue'
    BY <1>2 DEF HInv, TypeOK, WorldOK, NothingOverdue
  <1> DEFINE new == Started(w[1], w[2], codes)
  <1>4. w[1] \in Days /\ w[2] \in Days
    BY HistoryAssumption
  <1>5. /\ new \in BatchType /\ new.asked = new.todo \cup DOMAIN new.answer
        /\ new.pc = "codes"
    BY <1>4, StartedType
  <1>6. b \in Batches /\ batch' = [batch EXCEPT ![b] = new]
    BY <1>1 DEF Batches
  <1> HIDE DEF new
  <1>7. QED
    BY <1>2, <1>3, <1>5, <1>6, HInvBatch

LEMMA HInvFetch ==
  ASSUME HInv, NEW b \in Batches, Fetch(b)
  PROVE  HInv'
  <1>1. /\ batch[b].pc = "fetch" /\ Fetching(b)
        /\ UNCHANGED <<day, clock, published, bars, calendar, closeDay, due, served>>
    BY DEF Fetch, Fetching
  <1>2. batch[b] \in BatchType /\ batch[b].code \in Codes /\ batch[b].code \in batch[b].todo
    BY <1>1, CodeInHand DEF HInv, TypeOK
  <1>3. published[batch[b].code] \in SUBSET Days
    BY <1>2 DEF HInv, TypeOK, WorldOK
  <1>4. PICK found \in SUBSET Days : batch' = [batch EXCEPT ![b].pc = "store", ![b].found = found]
    BY <1>3 DEF Fetch
  <1> DEFINE new == [batch[b] EXCEPT !.pc = "store", !.found = found]
  <1>5. batch' = [batch EXCEPT ![b] = new]
    BY <1>4 DEF HInv, TypeOK
  <1>6. batch[b].asked = batch[b].todo \cup DOMAIN batch[b].answer
    BY DEF HInv, Accounted
  <1>7. WorldOK' /\ NothingOverdue'
    BY <1>1 DEF HInv, TypeOK, WorldOK, NothingOverdue
  <1>8. /\ new \in BatchType /\ new.pc = "store"
        /\ new.code = batch[b].code /\ new.todo = batch[b].todo /\ new.asked = batch[b].asked
        /\ new.answer = batch[b].answer
    BY <1>2 DEF BatchType
  <1> HIDE DEF new
  <1>9. QED
    BY <1>1, <1>2, <1>5, <1>6, <1>7, <1>8, HInvBatch

\* What Answered does to the invariant, given the world after the step.
LEMMA HInvAnswered ==
  ASSUME HInv, NEW b \in Batches, NEW c \in batch[b].todo, NEW a \in Answers,
         batch' = Answered(b, c, a), WorldOK', NothingOverdue', UNCHANGED published
  PROVE  HInv'
  <1> DEFINE new == Reply(batch[b], c, a)
  <1>1. batch[b] \in BatchType /\ batch[b].todo \subseteq Codes
    BY DEF HInv, TypeOK, BatchType
  <1>2. c \in Codes
    BY <1>1
  <1>3. /\ new \in BatchType /\ new.pc = "codes" /\ new.asked = batch[b].asked
        /\ new.todo = batch[b].todo \ {c} /\ DOMAIN new.answer = DOMAIN batch[b].answer \cup {c}
    BY <1>1, <1>2, ReplyType
  <1>4. batch' = [batch EXCEPT ![b] = new]
    BY <1>2, AnsweredIsReply DEF HInv
  <1>5. batch[b].asked = batch[b].todo \cup DOMAIN batch[b].answer
    BY DEF HInv, Accounted
  <1>6. new.asked = new.todo \cup DOMAIN new.answer
    BY <1>3, <1>5
  <1> HIDE DEF new
  <1>7. QED
    BY <1>3, <1>4, <1>6, HInvBatch

\* A batch vouches for bars the database has.
LEMMA VouchOK ==
  ASSUME HInv, NEW b \in Batches, NEW c \in Codes, NEW some \in SUBSET Days, NEW asOf \in Days,
         Vouch(b, c, some, asOf), UNCHANGED <<day, clock, published, closeDay>>,
         bars' \in [Codes -> SUBSET Days], calendar' \in {"unknown", "loaded", "blank"},
         \A x \in Codes : bars[x] \subseteq bars'[x],
         {d \in some : d < asOf} \subseteq bars'[c]
  PROVE  WorldOK' /\ NothingOverdue'
  <1>1. WorldOK
    BY DEF HInv, TypeOK
  <1>2. due' \in [Codes -> SUBSET Days] /\ served' \in [Codes -> SUBSET Days]
    BY <1>1 DEF WorldOK, Vouch
  <1>3. \A x \in Codes : due'[x] = IF x = c THEN due[c] \cup {d \in some : d < asOf} ELSE due[x]
    BY <1>1 DEF WorldOK, Vouch
  <1>4. NothingOverdue'
    BY <1>3 DEF HInv, NothingOverdue
  <1>5. WorldOK'
    BY <1>1, <1>2 DEF WorldOK
  <1>6. QED
    BY <1>4, <1>5

\* Trading day coverage leaves no published bar of a past day out, whatever the
\* calendar in the cache: at worst it takes holidays for trading days.
LEMMA CoveredIsComplete ==
  ASSUME HInv, NEW c \in Codes, NEW from \in Days, NEW to \in Days, NEW cal,
         cal # "error", Covered(c, from, CoverageEnd(to), cal),
         NEW d \in published[c] \cap (from .. to), d < day
  PROVE  d \in bars[c]
  <1>1. day \in Int /\ d \in Int /\ from \in Int /\ to \in Int /\ d \in Days
    BY DEF HInv, TypeOK, WorldOK, Days
  <1>2. CoverageEnd(to) \in Int /\ d =< CoverageEnd(to)
    BY <1>1 DEF CoverageEnd
  <1>3. d \in from .. CoverageEnd(to)
    BY <1>1, <1>2
  <1>4. d \in TradingDays
    BY DEF HInv, PublishedOnTradingDays
  <1>5. IsTradingDay(d, cal)
    BY <1>4 DEF TradingDays, IsTradingDay
  <1>6. {x \in from .. CoverageEnd(to) : IsTradingDay(x, cal)}
           \subseteq bars[c] \cap (from .. CoverageEnd(to))
    BY DEF Covered
  <1>7. QED
    BY <1>3, <1>5, <1>6

LEMMA HInvCover ==
  ASSUME HInv, NEW b \in Batches, NEW c \in Codes, Cover(b, c)
  PROVE  HInv'
  <1> DEFINE from == batch[b].from
  <1> DEFINE to == batch[b].to
  <1> DEFINE all == published[c] \cap (from .. to)
  <1>1. /\ batch[b].pc = "codes" /\ c \in batch[b].todo
        /\ UNCHANGED <<day, clock, published, bars, closeDay>>
    BY DEF Cover
  <1>2. PICK cal \in Consulted \cup {calendar} :
          /\ calendar' = Cached(cal)
          /\ \/ /\ Covered(c, from, CoverageEnd(to), cal)
                /\ batch' = Answered(b, c, "skipped")
                /\ IF cal = "error" THEN UNCHANGED <<due, served>> ELSE Vouch(b, c, all, day)
             \/ /\ batch' = [batch EXCEPT ![b].pc = "fetch", ![b].code = c, ![b].asOf = day]
                /\ UNCHANGED <<due, served>>
    BY DEF Cover
  <1>3. calendar' \in {"unknown", "loaded", "blank"}
    BY <1>2, CacheType
  <1>4. /\ WorldOK /\ batch[b] \in BatchType /\ from \in Days /\ to \in Days
        /\ all \in SUBSET Days /\ day \in Days
    BY DEF HInv, TypeOK, WorldOK, BatchType
  <1>5. ASSUME UNCHANGED <<due, served>>
        PROVE  WorldOK' /\ NothingOverdue'
    BY <1>1, <1>3, <1>4, <1>5 DEF HInv, WorldOK, NothingOverdue
  <1>6. CASE /\ Covered(c, from, CoverageEnd(to), cal)
             /\ batch' = Answered(b, c, "skipped")
             /\ IF cal = "error" THEN UNCHANGED <<due, served>> ELSE Vouch(b, c, all, day)
    <2>1. WorldOK' /\ NothingOverdue'
      <3>1. CASE cal = "error"
        BY <1>5, <1>6, <3>1
      <3>2. CASE cal # "error"
        <4>1. {d \in all : d < day} \subseteq bars[c]
          BY <1>4, <1>6, <3>2, CoveredIsComplete
        <4>2. Vouch(b, c, all, day) /\ bars' \in [Codes -> SUBSET Days] /\ bars' = bars
          BY <1>1, <1>4, <1>6, <3>2 DEF WorldOK
        <4> HIDE DEF all
        <4>3. QED
          BY <1>1, <1>3, <1>4, <4>1, <4>2, VouchOK
      <3>3. QED
        BY <3>1, <3>2
    <2>2. QED
      BY <1>1, <1>6, <2>1, HInvAnswered DEF Answers
  <1>7. CASE /\ batch' = [batch EXCEPT ![b].pc = "fetch", ![b].code = c, ![b].asOf = day]
             /\ UNCHANGED <<due, served>>
    <2> DEFINE new == [batch[b] EXCEPT !.pc = "fetch", !.code = c, !.asOf = day]
    <2>1. batch' = [batch EXCEPT ![b] = new]
      BY <1>7 DEF HInv, TypeOK
    <2>2. batch[b].asked = batch[b].todo \cup DOMAIN batch[b].answer
      BY DEF HInv, Accounted
    <2>3. /\ new \in BatchType /\ new.pc = "fetch" /\ new.code = c
          /\ new.todo = batch[b].todo /\ new.asked = batch[b].asked
          /\ new.answer = batch[b].answer
      BY <1>4 DEF BatchType
    <2>4. WorldOK' /\ NothingOverdue' /\ UNCHANGED published
      BY <1>1, <1>5, <1>7
    <2>5. /\ new.code \in new.todo
          /\ new.asked = new.todo \cup DOMAIN new.answer
      BY <1>1, <2>2, <2>3
    <2> HIDE DEF new
    <2>6. QED
      BY <2>1, <2>3, <2>4, <2>5, HInvBatch
  <1>8. QED
    BY <1>2, <1>6, <1>7

LEMMA HInvStore ==
  ASSUME HInv, NEW b \in Batches, Store(b)
  PROVE  HInv'
  <1> DEFINE c == batch[b].code
  <1> DEFINE found == batch[b].found
  <1> DEFINE a == IF found \ bars[c] = {} THEN "skipped" ELSE "synced"
  <1>1. /\ batch[b].pc = "store"
        /\ bars' = [bars EXCEPT ![c] = @ \cup (found \ bars[c])]
        /\ batch' = Answered(b, c, a)
        /\ Vouch(b, c, found, batch[b].asOf)
        /\ UNCHANGED <<day, clock, published, calendar, closeDay>>
    BY DEF Store
  <1>2. c \in Codes /\ c \in batch[b].todo
    BY <1>1, CodeInHand DEF HInv, Fetching
  <1>3. batch[b] \in BatchType /\ WorldOK
    BY DEF HInv, TypeOK
  <1>4. found \in SUBSET Days /\ batch[b].asOf \in Days
    BY <1>3 DEF BatchType
  <1>5. bars \in [Codes -> SUBSET Days]
    BY <1>3 DEF WorldOK
  <1>6. bars' \in [Codes -> SUBSET Days]
    BY <1>1, <1>2, <1>4, <1>5
  <1>7. /\ \A x \in Codes : bars[x] \subseteq bars'[x]
        /\ found \subseteq bars'[c]
    BY <1>1, <1>2, <1>5
  <1>8. calendar' \in {"unknown", "loaded", "blank"}
    BY <1>1, <1>3 DEF WorldOK
  <1>9. a \in Answers
    BY DEF Answers
  <1> HIDE DEF a, c, found
  <1>10. {d \in found : d < batch[b].asOf} \subseteq bars'[c]
    BY <1>7
  <1>11. UNCHANGED <<day, clock, published, closeDay>>
    BY <1>1
  <1>12. WorldOK' /\ NothingOverdue'
    BY <1>1, <1>2, <1>4, <1>6, <1>7, <1>8, <1>10, <1>11, VouchOK
  <1>13. QED
    BY <1>1, <1>2, <1>9, <1>11, <1>12, HInvAnswered

LEMMA HInvFail ==
  ASSUME HInv, NEW b \in Batches, NEW c \in Codes, Fail(b, c)
  PROVE  HInv'
  <1>1. AtCode(b, c) /\ batch' = Answered(b, c, "failed")
        /\ UNCHANGED <<day, clock, published, bars, calendar, closeDay, due, served>>
    BY DEF Fail
  <1>2. c \in batch[b].todo
    BY <1>1, CodeInHand DEF HInv, AtCode
  <1>3. WorldOK' /\ NothingOverdue'
    BY <1>1 DEF HInv, TypeOK, WorldOK, NothingOverdue
  <1>4. QED
    BY <1>1, <1>2, <1>3, HInvAnswered DEF Answers

LEMMA HInvFinish ==
  ASSUME HInv, NEW b \in Batches, Finish(b)
  PROVE  HInv'
  <1> DEFINE new == [Idle EXCEPT !.pc = "done", !.asked = batch[b].asked,
                                 !.answer = batch[b].answer]
  <1>1. /\ batch[b].todo = {} /\ batch' = [batch EXCEPT ![b] = new]
        /\ UNCHANGED <<day, clock, published, bars, calendar, closeDay, due, served>>
    BY DEF Finish
  <1>2. batch[b] \in BatchType /\ batch[b].asked = batch[b].todo \cup DOMAIN batch[b].answer
    BY DEF HInv, TypeOK, Accounted
  <1>3. WorldOK' /\ NothingOverdue' /\ UNCHANGED published
    BY <1>1 DEF HInv, TypeOK, WorldOK, NothingOverdue
  <1>4. Idle \in BatchType /\ Idle.todo = {}
    BY IdleType DEF Idle
  <1>5. /\ new \in BatchType /\ new.pc = "done" /\ new.todo = {}
        /\ new.asked = batch[b].asked /\ new.answer = batch[b].answer
    BY <1>2, <1>4 DEF BatchType
  <1> HIDE DEF new
  <1>6. new.asked = new.todo \cup DOMAIN new.answer
    BY <1>1, <1>2, <1>5
  <1>7. QED
    BY <1>1, <1>3, <1>5, <1>6, HInvBatch

LEMMA HInvRestart ==
  ASSUME HInv, Restart
  PROVE  HInv'
  <1> DEFINE Stopped == [Idle EXCEPT !.pc = "done"]
  <1>1. /\ batch' = [b \in Batches |-> IF b = Close THEN Idle
                                       ELSE IF batch[b].pc \in {"idle", "done"} THEN batch[b]
                                       ELSE Stopped]
        /\ calendar' = "unknown"
        /\ UNCHANGED <<day, clock, published, bars, closeDay, due, served>>
    BY DEF Restart
  <1>2. WorldOK' /\ NothingOverdue' /\ PublishedOnTradingDays'
    BY <1>1 DEF HInv, TypeOK, WorldOK, NothingOverdue, PublishedOnTradingDays
  <1>3. /\ Idle \in BatchType /\ Idle.pc = "idle" /\ Idle.todo = {} /\ Idle.asked = {}
        /\ DOMAIN Idle.answer = {}
    BY IdleType DEF Idle
  <1>4. /\ Stopped \in BatchType /\ Stopped.pc = "done" /\ Stopped.todo = {} /\ Stopped.asked = {}
        /\ DOMAIN Stopped.answer = {}
    BY <1>3 DEF BatchType, Idle
  <1>5. batch' \in [Batches -> BatchType]
        /\ \A b \in Batches : \/ batch'[b] \in {Idle, Stopped}
                              \/ batch'[b] = batch[b] /\ ~ Fetching(b)
    BY <1>1, <1>3, <1>4 DEF HInv, TypeOK, Fetching
  <1> HIDE DEF Stopped
  <1>6. TypeOK' /\ Accounted'
    BY <1>2, <1>3, <1>4, <1>5 DEF HInv, TypeOK, Accounted, Fetching
  <1>7. QED
    BY <1>2, <1>6 DEF HInv

LEMMA HInvStep == HInv /\ [Next]_vars => HInv'
  <1> SUFFICES ASSUME HInv, [Next]_vars PROVE HInv'
    OBVIOUS
  <1>1. CASE Tick
    BY <1>1, HInvTick
  <1>2. CASE \E c \in Codes : Publish(c)
    BY <1>2, HInvPublish
  <1>3. CASE StartClose
    BY <1>3, HInvStartClose
  <1>4. CASE \E b \in Manual : StartManual(b)
    BY <1>4, HInvStartManual
  <1>5. ASSUME NEW b \in Batches, Step(b)
        PROVE  HInv'
    <2>1. CASE \E c \in Codes : Cover(b, c)
      BY <2>1, HInvCover
    <2>2. CASE Fetch(b)
      BY <2>2, HInvFetch
    <2>3. CASE Store(b)
      BY <2>3, HInvStore
    <2>4. CASE \E c \in Codes : Fail(b, c)
      BY <2>4, HInvFail
    <2>5. CASE Finish(b)
      BY <2>5, HInvFinish
    <2>6. QED
      BY <1>5, <2>1, <2>2, <2>3, <2>4, <2>5 DEF Step
  <1>6. CASE Restart
    BY <1>6, HInvRestart
  <1>7. CASE UNCHANGED vars
    BY <1>7 DEF vars, HInv, TypeOK, WorldOK, PublishedOnTradingDays, Accounted,
                NothingOverdue, Fetching
  <1>8. QED
    BY <1>1, <1>2, <1>3, <1>4, <1>5, <1>6, <1>7 DEF Next

LEMMA HistoryInvariant == Spec => []HInv
  BY HInvInit, HInvStep, PTL DEF Spec

(* Type correctness of the history synchronisation, for any days and codes. *)
THEOREM HistoryTypeOK == Spec => []TypeOK
  <1>1. HInv => TypeOK
    BY DEF HInv
  <1>2. QED
    BY <1>1, HistoryInvariant, PTL

(* A code skipped by trading day coverage lacks no bar of a past day that   *)
(* the exchange had published, and what was fetched and reported is there:  *)
(* for any calendar, any number of batches, any restarts and whatever the   *)
(* exchange left out of its answers before.                                 *)
THEOREM HistoryNothingOverdue == Spec => []NothingOverdue
  <1>1. HInv => NothingOverdue
    BY DEF HInv
  <1>2. QED
    BY <1>1, HistoryInvariant, PTL

(* A batch that is done has answered each code it was asked for, and no     *)
(* other, whichever of them failed.                                         *)
THEOREM HistoryEveryCodeAnswered == Spec => []EveryCodeAnswered
  <1>1. HInv => EveryCodeAnswered
    BY DEF HInv, Accounted, EveryCodeAnswered
  <1>2. QED
    BY <1>1, HistoryInvariant, PTL

-----------------------------------------------------------------------------
(* The progress of a batch.                                                *)

\* What an entry says of run r holds of its committed codes.
Truthful(e, r) ==
  /\ e.synced + e.skipped =< committed[r]
  /\ e.completed = e.synced + e.skipped + e.failed
  /\ e.status = "completed" => e.completed = Total[r]

\* Where a thread is: how many codes are committed and counted.
Advanced(r) ==
  /\ thread[r].pc \in {"none", "queued"} =>
       registry[r] = {} /\ committed[r] = 0 /\ thread[r].done = 0
  /\ thread[r].pc = "codes" => committed[r] =< thread[r].done
  /\ thread[r].pc = "mark" =>
       thread[r].done < Total[r] /\ committed[r] =< thread[r].done + 1

\* What the registry has of a run: the thread's own count, one code behind the
\* commit between a code's work and its mark.
Registered(r) ==
  \A e \in registry[r] :
    /\ Truthful(e, r)
    /\ thread[r].pc \in {"codes", "mark", "abort"} => e.status = "running"
    /\ thread[r].pc \in {"codes", "mark"} => e.completed = thread[r].done
    /\ thread[r].pc = "mark" /\ thread[r].outcome # "failed" =>
         e.synced + e.skipped < committed[r]

\* What has left the server of the run the page follows.
Sent == view \cup UNION reply

\* An answer is under way alone, and what was sent was true when it was and still
\* is; the registry is at or after it, and an answer at or after what is shown.
Followed ==
  /\ \A a, b \in reply : a = b
  /\ \A a \in reply : AtMostOne(a)
  /\ Sent # {} => thread[active].pc \notin {"none", "queued"}
  /\ \A e \in Sent : Truthful(e, active)
  /\ \A old \in Sent : \A new \in registry[active] : Later(new, old)
  /\ \A new \in UNION reply, old \in view : Later(new, old)

PInv == /\ ProgressTypeOK
        /\ \A r \in Runs : Advanced(r) /\ Registered(r)
        /\ Followed

LEMMA PInvInit == ProgressInit => PInv
  <1> SUFFICES ASSUME ProgressInit PROVE PInv
    OBVIOUS
  <1> USE ProgressAssumption DEF ProgressInit, Empty, NoBatch
  <1>1. ProgressTypeOK
    <2>1. \A r \in Runs : NoBatch \in Batch(Total[r])
      BY DEF Batch, Kinds
    <2>2. /\ DOMAIN registry = Runs /\ DOMAIN thread = Runs /\ DOMAIN committed = Runs
          /\ \A r \in Runs : registry[r] = {} /\ committed[r] = 0
                             /\ thread[r] = NoBatch /\ Total[r] \in Nat
      OBVIOUS
    <2>3. \A r \in Runs : /\ registry[r] \subseteq Entry(Total[r])
                          /\ AtMostOne(registry[r])
                          /\ thread[r] \in Batch(Total[r])
                          /\ committed[r] \in 0 .. Total[r]
      BY <2>1, <2>2 DEF AtMostOne
    <2>4. faults \in 0 .. MaxFaults /\ AtMostOne(view)
      BY DEF AtMostOne
    <2> HIDE DEF NoBatch
    <2>5. QED
      BY <2>2, <2>3, <2>4 DEF ProgressTypeOK
  <1>2. \A r \in Runs : Advanced(r) /\ Registered(r)
    BY DEF Advanced, Registered
  <1>3. Followed
    BY DEF Followed, Sent
  <1>4. QED
    BY <1>1, <1>2, <1>3 DEF PInv

(* Later is a partial order: an entry is not behind itself, and what is    *)
(* not behind what is not behind is not behind.                            *)
LEMMA LaterOrder ==
  ASSUME NEW n \in Nat, NEW a \in Entry(n), NEW b \in Entry(n),
         NEW c \in Entry(n)
  PROVE  /\ Later(a, a)
         /\ Later(a, b) /\ Later(b, c) => Later(a, c)
  BY DEF Later, Entry

(* What the types say of one run.                                          *)
LEMMA RunTypes ==
  ASSUME ProgressTypeOK, NEW r \in Runs
  PROVE  /\ Total[r] \in Nat \ {0}
         /\ thread[r] \in Batch(Total[r])
         /\ thread[r].done \in 0 .. Total[r]
         /\ committed[r] \in 0 .. Total[r]
         /\ registry[r] \subseteq Entry(Total[r])
         /\ r # NoRun
  BY ProgressAssumption DEF ProgressTypeOK, Batch

(* A step of a thread leaves the page as it is.  What the page holds stays  *)
(* true when codes are only added to the committed ones, no thread goes     *)
(* back before its start, and an entry is only replaced by a later one.     *)
LEMMA FollowedKept ==
  ASSUME PInv,
         UNCHANGED page,
         \A r \in Runs : /\ committed'[r] \in Nat /\ committed[r] =< committed'[r]
                         /\ thread[r].pc \notin {"none", "queued"} =>
                              thread'[r].pc \notin {"none", "queued"}
                         /\ thread[r].pc \notin {"none", "queued"} =>
                              \A new \in registry'[r] :
                                /\ new \in Entry(Total[r])
                                /\ \E old \in registry[r] : Later(new, old)
  PROVE  Followed'
  <1> USE DEF page
  <1>1. Sent' = Sent
    BY DEF Sent
  <1>2. CASE active = NoRun
    BY <1>1, <1>2 DEF Followed, PInv, ProgressTypeOK, Sent
  <1>3. CASE active # NoRun
    <2>1. active \in Runs
      BY <1>3 DEF PInv, ProgressTypeOK
    <2>2. \A e \in Sent : e \in Entry(Total[active])
      BY <1>3 DEF PInv, ProgressTypeOK, Sent
    <2>3. /\ Total[active] \in Nat /\ committed[active] \in Nat
          /\ registry[active] \subseteq Entry(Total[active])
      BY <2>1, RunTypes DEF PInv
    <2>4. \A e \in Sent : Truthful(e, active)'
      BY <2>1, <2>2, <2>3 DEF PInv, Followed, Truthful, Entry
    <2>5. ASSUME NEW old \in Sent, NEW new \in registry'[active]
          PROVE  Later(new, old)
      <3>1. thread[active].pc \notin {"none", "queued"}
        BY DEF PInv, Followed
      <3>2. PICK mid \in registry[active] : Later(new, mid)
        BY <2>1, <3>1
      <3>3. Later(mid, old)
        BY DEF PInv, Followed
      <3>4. /\ new \in Entry(Total[active]) /\ mid \in Entry(Total[active])
            /\ old \in Entry(Total[active])
        BY <2>1, <2>2, <2>3, <3>1
      <3>5. QED
        BY <2>3, <3>2, <3>3, <3>4, LaterOrder
    <2>6. QED
      BY <1>1, <2>1, <2>4, <2>5 DEF PInv, Followed
  <1>4. QED
    BY <1>2, <1>3

(* A step of the thread of run r: what it must show of r so that the       *)
(* invariant is kept.                                                      *)
OnlyOf(r) ==
  /\ UNCHANGED <<page, faults>>
  /\ DOMAIN registry' = Runs /\ DOMAIN thread' = Runs /\ DOMAIN committed' = Runs
  /\ \A x \in Runs \ {r} : /\ thread'[x] = thread[x] /\ registry'[x] = registry[x]
                           /\ committed'[x] = committed[x]

LEMMA ThreadStep ==
  ASSUME PInv, NEW r \in Runs, OnlyOf(r),
         registry'[r] \subseteq Entry(Total[r]), AtMostOne(registry'[r]),
         thread'[r] \in Batch(Total[r]), thread'[r].pc \notin {"none", "queued"},
         committed'[r] \in committed[r] .. Total[r],
         thread[r].pc = "queued" \/
           \A new \in registry'[r] : \E old \in registry[r] : Later(new, old),
         Advanced(r)', Registered(r)'
  PROVE  PInv'
  <1> USE DEF page, OnlyOf
  <1>1. \A x \in Runs : /\ Total[x] \in Nat /\ committed[x] \in 0 .. Total[x]
                        /\ registry[x] \subseteq Entry(Total[x])
    BY RunTypes DEF PInv
  <1>2. ProgressTypeOK'
    <2>1. ASSUME NEW x \in Runs
          PROVE  /\ registry'[x] \subseteq Entry(Total[x]) /\ AtMostOne(registry'[x])
                 /\ thread'[x] \in Batch(Total[x]) /\ committed'[x] \in 0 .. Total[x]
      <3>1. CASE x = r
        BY <1>1, <3>1
      <3>2. CASE x # r
        BY <3>2 DEF PInv, ProgressTypeOK
      <3>3. QED
        BY <3>1, <3>2
    <2>2. QED
      BY <2>1 DEF PInv, ProgressTypeOK, AtMostOne
  <1>3. ASSUME NEW x \in Runs PROVE Advanced(x)' /\ Registered(x)'
    <2>1. CASE x # r
      BY <2>1 DEF PInv, Advanced, Registered, Truthful
    <2>2. QED
      BY <2>1
  <1>4. Followed'
    <2>1. ASSUME NEW x \in Runs
          PROVE  committed'[x] \in Nat /\ committed[x] =< committed'[x]
      <3>1. CASE x = r
        BY <1>1, <3>1
      <3>2. CASE x # r
        BY <1>1, <3>2
      <3>3. QED
        BY <3>1, <3>2
    <2>2. ASSUME NEW x \in Runs, thread[x].pc \notin {"none", "queued"}
          PROVE  /\ thread'[x].pc \notin {"none", "queued"}
                 /\ \A new \in registry'[x] :
                      /\ new \in Entry(Total[x])
                      /\ \E old \in registry[x] : Later(new, old)
      <3>1. CASE x = r
        BY <2>2, <3>1
      <3>2. CASE x # r
        BY <1>1, <2>2, <3>2, LaterOrder
      <3>3. QED
        BY <3>1, <3>2
    <2>3. QED
      BY <2>1, <2>2, FollowedKept
  <1>5. QED
    BY <1>2, <1>3, <1>4 DEF PInv

(* What the invariant says of one run, for the steps of its thread.        *)
LEMMA RunFacts ==
  ASSUME PInv, NEW r \in Runs
  PROVE  /\ Total[r] \in Nat \ {0} /\ committed[r] \in 0 .. Total[r]
         /\ registry[r] \subseteq Entry(Total[r]) /\ AtMostOne(registry[r])
         /\ thread[r] \in Batch(Total[r]) /\ thread[r].done \in 0 .. Total[r]
         /\ DOMAIN registry = Runs /\ DOMAIN thread = Runs /\ DOMAIN committed = Runs
         /\ Advanced(r) /\ Registered(r)
         /\ \A e \in registry[r] : Later(e, e)
  BY RunTypes, LaterOrder DEF PInv, ProgressTypeOK

LEMMA PInvBegin ==
  ASSUME PInv, NEW r \in Runs, Begin(r)
  PROVE  PInv'
  <1> DEFINE first == [status |-> "running", completed |-> 0, synced |-> 0,
                       skipped |-> 0, failed |-> 0]
  <1> USE RunFacts DEF Begin, Update, At
  <1>1. /\ committed[r] = 0 /\ thread[r].done = 0 /\ thread[r].pc = "queued"
    BY DEF Advanced
  <1>2. /\ registry'[r] = {first} /\ thread'[r] = [thread[r] EXCEPT !.pc = "codes"]
        /\ committed'[r] = 0 /\ OnlyOf(r)
    BY <1>1 DEF OnlyOf, page
  <1>3. registry'[r] \subseteq Entry(Total[r]) /\ AtMostOne(registry'[r])
    BY <1>2 DEF Entry, AtMostOne
  <1>4. /\ thread'[r] \in Batch(Total[r]) /\ thread'[r].pc = "codes" /\ thread'[r].done = 0
    BY <1>1, <1>2 DEF Batch
  <1>5. Advanced(r)' /\ Registered(r)'
    BY <1>2, <1>4 DEF Advanced, Registered, Truthful
  <1>6. QED
    BY <1>1, <1>2, <1>3, <1>4, <1>5, ThreadStep

\* Ending a thread with its entry closed, if there is one.
LEMMA PInvClose ==
  ASSUME PInv, NEW r \in Runs, NEW s \in {"completed", "failed"},
         thread[r].pc \in {"queued", "codes", "abort"},
         s = "completed" => thread[r].pc = "codes" /\ thread[r].done = Total[r],
         Update(r, {Closed(e, s) : e \in registry[r]}),
         thread' = [thread EXCEPT ![r] = Over],
         UNCHANGED <<committed, page, faults>>
  PROVE  PInv'
  <1> USE RunFacts
  <1>1. /\ registry'[r] = {Closed(e, s) : e \in registry[r]}
        /\ thread'[r] = Over /\ committed'[r] = committed[r] /\ OnlyOf(r)
    BY DEF Update, OnlyOf, page
  <1>2. \A e \in registry[r] :
          LET c == Closed(e, s) IN
          /\ c \in Entry(Total[r]) /\ c.status = s
          /\ c.completed = e.completed /\ c.synced = e.synced
          /\ c.skipped = e.skipped /\ c.failed = e.failed
          /\ e.completed \in Nat /\ e.synced \in Nat
    BY DEF Entry, Closed
  <1>3. registry'[r] \subseteq Entry(Total[r]) /\ AtMostOne(registry'[r])
    BY <1>1, <1>2 DEF AtMostOne
  <1>4. /\ thread'[r] \in Batch(Total[r]) /\ thread'[r].pc = "ended"
        /\ committed'[r] \in committed[r] .. Total[r]
    <2>1. NoBatch \in Batch(Total[r])
      BY DEF NoBatch, Batch, Kinds
    <2>2. Over \in Batch(Total[r]) /\ Over.pc = "ended"
      BY <2>1 DEF Over, Batch
    <2>3. QED
      BY <1>1, <2>2
  <1>5. thread[r].pc = "queued" \/
          \A new \in registry'[r] : \E old \in registry[r] : Later(new, old)
    <2>1. \A e \in registry[r] : thread[r].pc = "queued" \/ e.status = "running"
      BY DEF Registered
    <2>2. \A e \in registry[r] : thread[r].pc = "queued" \/ Later(Closed(e, s), e)
      BY <1>2, <2>1 DEF Later
    <2>3. QED
      BY <1>1, <2>2
  <1>6. \A e \in registry[r] : Truthful(e, r) /\ (s = "completed" => e.completed = Total[r])
    BY DEF Registered
  <1>7. \A e \in registry[r] : Truthful(Closed(e, s), r)'
    <2> SUFFICES ASSUME NEW e \in registry[r]
                 PROVE  Truthful(Closed(e, s), r)'
      OBVIOUS
    <2> DEFINE c == Closed(e, s)
    <2>1. /\ c.status = s /\ c.completed = e.completed /\ c.synced = e.synced
          /\ c.skipped = e.skipped /\ c.failed = e.failed
      BY <1>2
    <2>2. Truthful(e, r) /\ (s = "completed" => e.completed = Total[r])
      BY <1>6
    <2> HIDE DEF c
    <2>3. Truthful(c, r)'
      BY <1>1, <2>1, <2>2 DEF Truthful
    <2>4. QED
      BY <2>3 DEF c
  <1>8. Advanced(r)' /\ Registered(r)'
    BY <1>1, <1>4, <1>7 DEF Advanced, Registered
  <1>9. QED
    BY <1>1, <1>3, <1>4, <1>5, <1>8, ThreadStep

LEMMA PInvRefuse ==
  ASSUME PInv, NEW r \in Runs, Refuse(r)
  PROVE  PInv'
  BY PInvClose DEF Refuse, At

LEMMA PInvAbort ==
  ASSUME PInv, NEW r \in Runs, Abort(r)
  PROVE  PInv'
  BY PInvClose DEF Abort, At

LEMMA PInvComplete ==
  ASSUME PInv, NEW r \in Runs, Complete(r)
  PROVE  PInv'
  BY PInvClose DEF Complete, At

LEMMA PInvWork ==
  ASSUME PInv, NEW r \in Runs, Work(r)
  PROVE  PInv'
  <1> USE RunFacts DEF At
  <1>1. PICK o \in {"synced", "skipped", "failed"} :
          /\ committed' = [committed EXCEPT ![r] = IF o = "failed" THEN @ ELSE @ + 1]
          /\ thread' = [thread EXCEPT ![r].pc = "mark", ![r].outcome = o]
    BY DEF Work
  <1>2. /\ thread[r].pc = "codes" /\ thread[r].done < Total[r] /\ committed[r] =< thread[r].done
        /\ registry' = registry
    BY DEF Work, Advanced
  <1>3. OnlyOf(r)
    BY <1>1 DEF Work, OnlyOf, page
  <1>4. /\ thread'[r] \in Batch(Total[r]) /\ thread'[r].pc = "mark"
        /\ thread'[r].outcome = o /\ thread'[r].done = thread[r].done
    BY <1>1 DEF Batch
  <1>5. /\ committed'[r] \in committed[r] .. Total[r] /\ committed'[r] =< thread[r].done + 1
        /\ o # "failed" => committed'[r] = committed[r] + 1
    BY <1>1, <1>2
  <1>6. Advanced(r)'
    BY <1>2, <1>4, <1>5 DEF Advanced
  <1>7. Registered(r)'
    <2> SUFFICES ASSUME NEW e \in registry[r]
                 PROVE  /\ Truthful(e, r)' /\ e.status = "running"
                        /\ o # "failed" => e.synced + e.skipped < committed'[r]
      BY <1>2, <1>4 DEF Registered
    <2>1. Truthful(e, r) /\ e.status = "running"
      BY <1>2 DEF Registered
    <2>2. e.synced \in Nat /\ e.skipped \in Nat
      BY DEF Entry
    <2>3. QED
      BY <1>5, <2>1, <2>2 DEF Truthful
  <1>8. QED
    BY <1>2, <1>3, <1>4, <1>5, <1>6, <1>7, ThreadStep

\* What counting a code does to an entry.
LEMMA Counted ==
  ASSUME NEW n \in Nat, NEW e \in Entry(n), e.completed < n,
         e.completed = e.synced + e.skipped + e.failed, e.status = "running",
         NEW o \in {"synced", "skipped", "failed"}
  PROVE  LET c == Count(e, o) IN
         /\ c \in Entry(n) /\ c.status = "running"
         /\ c.completed = e.completed + 1
         /\ c.completed = c.synced + c.skipped + c.failed
         /\ c.synced + c.skipped = e.synced + e.skipped + (IF o = "failed" THEN 0 ELSE 1)
         /\ \A a \in Answers : c[a] = e[a] + (IF a = o THEN 1 ELSE 0)
         /\ Later(c, e)
  <1> USE DEF Entry
  <1>1. /\ e.completed \in Nat /\ e.synced \in Nat /\ e.skipped \in Nat /\ e.failed \in Nat
        /\ e.synced + 1 \in 0 .. n /\ e.skipped + 1 \in 0 .. n /\ e.failed + 1 \in 0 .. n
        /\ e.completed + 1 \in 0 .. n
    OBVIOUS
  <1>2. LET c == [e EXCEPT !.completed = @ + 1, !.synced = @ + 1] IN
        /\ c \in Entry(n) /\ c.status = e.status /\ c.completed = e.completed + 1
        /\ c.synced = e.synced + 1 /\ c.skipped = e.skipped /\ c.failed = e.failed
    BY <1>1
  <1>3. LET c == [e EXCEPT !.completed = @ + 1, !.skipped = @ + 1] IN
        /\ c \in Entry(n) /\ c.status = e.status /\ c.completed = e.completed + 1
        /\ c.synced = e.synced /\ c.skipped = e.skipped + 1 /\ c.failed = e.failed
    BY <1>1
  <1>4. LET c == [e EXCEPT !.completed = @ + 1, !.failed = @ + 1] IN
        /\ c \in Entry(n) /\ c.status = e.status /\ c.completed = e.completed + 1
        /\ c.synced = e.synced /\ c.skipped = e.skipped /\ c.failed = e.failed + 1
    BY <1>1
  <1>5. /\ Count(e, "synced") = [e EXCEPT !.completed = @ + 1, !.synced = @ + 1]
        /\ Count(e, "skipped") = [e EXCEPT !.completed = @ + 1, !.skipped = @ + 1]
        /\ Count(e, "failed") = [e EXCEPT !.completed = @ + 1, !.failed = @ + 1]
    BY DEF Count
  <1> DEFINE c == Count(e, o)
  <1>6. /\ c \in Entry(n) /\ c.status = e.status /\ c.completed = e.completed + 1
        /\ c.synced = (IF o = "synced" THEN e.synced + 1 ELSE e.synced)
        /\ c.skipped = (IF o = "skipped" THEN e.skipped + 1 ELSE e.skipped)
        /\ c.failed = (IF o = "failed" THEN e.failed + 1 ELSE e.failed)
    <2>1. CASE o = "synced"
      BY <1>2, <1>5, <2>1
    <2>2. CASE o = "skipped"
      BY <1>3, <1>5, <2>2
    <2>3. CASE o = "failed"
      BY <1>4, <1>5, <2>3
    <2>4. QED
      BY <2>1, <2>2, <2>3
  <1> HIDE DEF c
  <1>7. \A a \in Answers : c[a] = e[a] + (IF a = o THEN 1 ELSE 0)
    BY <1>1, <1>6 DEF Answers
  <1>8. QED
    BY <1>1, <1>6, <1>7 DEF c, Later

LEMMA PInvMark ==
  ASSUME PInv, NEW r \in Runs, Mark(r)
  PROVE  PInv'
  <1> USE RunFacts DEF At
  <1> DEFINE o == thread[r].outcome
  <1>1. /\ thread[r].pc = "mark" /\ thread[r].done < Total[r] /\ committed[r] =< thread[r].done + 1
        /\ o \in {"synced", "skipped", "failed"} /\ committed' = committed
    BY DEF Mark, Advanced, Batch
  <1>2. OnlyOf(r) /\ registry'[r] = {Count(e, o) : e \in registry[r]}
    BY DEF Mark, Update, OnlyOf, page
  <1>3. /\ thread'[r] \in Batch(Total[r]) /\ thread'[r].pc \in {"codes", "abort"}
        /\ thread'[r].done = thread[r].done + 1
    <2>1. PICK pc \in {"codes", "abort"} :
            thread'[r] = [thread[r] EXCEPT !.done = @ + 1, !.outcome = "failed", !.pc = pc]
      BY DEF Mark, NoBatch
    <2>2. thread'[r].pc = pc /\ thread'[r].done = thread[r].done + 1
      BY <2>1 DEF Batch
    <2>3. thread[r].done + 1 \in 0 .. Total[r]
      BY <1>1
    <2>4. thread'[r] \in Batch(Total[r])
      BY <2>1, <2>3 DEF Batch
    <2>5. QED
      BY <2>2, <2>4
  <1>4. ASSUME NEW e \in registry[r]
        PROVE  LET c == Count(e, o) IN
               /\ c \in Entry(Total[r]) /\ c.status = "running"
               /\ c.completed = thread[r].done + 1 /\ Truthful(c, r)
               /\ Later(c, e)
    <2>1. /\ Truthful(e, r) /\ e.status = "running" /\ e.completed = thread[r].done
          /\ o # "failed" => e.synced + e.skipped < committed[r]
      BY <1>1 DEF Registered
    <2>2. e \in Entry(Total[r]) /\ e.synced \in Nat /\ e.skipped \in Nat
      BY DEF Entry
    <2>3. e.completed = e.synced + e.skipped + e.failed
      BY <2>1 DEF Truthful
    <2> DEFINE c == Count(e, o)
    <2>4. /\ c \in Entry(Total[r]) /\ c.status = "running"
          /\ c.completed = e.completed + 1
          /\ c.completed = c.synced + c.skipped + c.failed
          /\ c.synced + c.skipped = e.synced + e.skipped + (IF o = "failed" THEN 0 ELSE 1)
          /\ Later(c, e)
      BY <1>1, <2>1, <2>2, <2>3, Counted
    <2> HIDE DEF c
    <2>5. c.synced + c.skipped =< committed[r]
      BY <1>1, <2>1, <2>2, <2>4 DEF Truthful
    <2>6. Truthful(c, r)
      BY <2>4, <2>5 DEF Truthful
    <2>7. QED
      BY <2>1, <2>4, <2>6 DEF c
  <1> HIDE DEF o
  <1>5. registry'[r] \subseteq Entry(Total[r]) /\ AtMostOne(registry'[r])
    BY <1>2, <1>4 DEF AtMostOne
  <1>6. Advanced(r)'
    BY <1>1, <1>3 DEF Advanced
  <1>7. \A c \in registry'[r] : /\ Truthful(c, r)' /\ c.status = "running"
                                /\ c.completed = thread[r].done + 1
                                /\ \E e \in registry[r] : Later(c, e)
    <2>1. \A c : Truthful(c, r)' <=> Truthful(c, r)
      BY <1>1 DEF Truthful
    <2>2. QED
      BY <1>2, <1>4, <2>1
  <1>8. Registered(r)'
    BY <1>3, <1>7 DEF Registered
  <1>9. committed'[r] \in committed[r] .. Total[r]
    BY <1>1
  <1>10. QED
    BY <1>2, <1>3, <1>5, <1>6, <1>7, <1>8, <1>9, ThreadStep

LEMMA PInvBreak ==
  ASSUME PInv, NEW r \in Runs, Break(r)
  PROVE  PInv'
  <1> USE RunFacts DEF At, Break
  <1>1. /\ thread[r].pc = "codes" /\ registry' = registry /\ committed' = committed
    OBVIOUS
  <1>2. OnlyOf(r) /\ thread'[r] = [thread[r] EXCEPT !.pc = "abort"]
    BY DEF OnlyOf, page
  <1>3. thread'[r] \in Batch(Total[r]) /\ thread'[r].pc = "abort"
    BY <1>2 DEF Batch
  <1>4. Advanced(r)' /\ Registered(r)'
    BY <1>1, <1>3 DEF Advanced, Registered, Truthful
  <1>5. committed'[r] \in committed[r] .. Total[r]
    BY <1>1
  <1>6. QED
    BY <1>1, <1>2, <1>3, <1>4, <1>5, ThreadStep

LEMMA PInvRestart ==
  ASSUME PInv, RestartServer
  PROVE  PInv'
  <1> USE DEF RestartServer, Fault, page
  <1>1. /\ DOMAIN registry' = Runs /\ DOMAIN thread' = Runs /\ DOMAIN committed' = Runs
        /\ UNCHANGED <<committed, page>> /\ faults' \in 0 .. MaxFaults
    BY ProgressAssumption DEF PInv, ProgressTypeOK, Empty
  <1>2. ASSUME NEW r \in Runs
        PROVE  /\ registry'[r] = {} /\ thread'[r] \in Batch(Total[r])
               /\ \/ thread'[r] = thread[r] /\ thread[r].pc \in {"none", "ended"}
                  \/ thread'[r].pc = "ended" /\ thread[r].pc # "none"
    <2>1. registry'[r] = {} /\ thread'[r] = IF Working(r) THEN Over ELSE thread[r]
      BY DEF Empty
    <2>2. thread[r] \in Batch(Total[r]) /\ Total[r] \in Nat
      BY RunFacts
    <2>3. NoBatch \in Batch(Total[r])
      BY <2>2 DEF NoBatch, Batch, Kinds
    <2>4. Over \in Batch(Total[r]) /\ Over.pc = "ended"
      BY <2>3 DEF Over, Batch
    <2>5. CASE Working(r)
      BY <2>1, <2>4, <2>5 DEF Working
    <2>6. CASE ~ Working(r)
      <3>1. thread[r].pc \in {"none", "queued", "codes", "mark", "abort", "ended"}
        BY <2>2 DEF Batch
      <3>2. QED
        BY <2>1, <2>2, <2>6, <3>1 DEF Working
    <2>7. QED
      BY <2>5, <2>6
  <1>3. ProgressTypeOK'
    <2>1. \A r \in Runs : /\ registry'[r] \subseteq Entry(Total[r])
                          /\ AtMostOne(registry'[r])
                          /\ thread'[r] \in Batch(Total[r])
                          /\ committed'[r] \in 0 .. Total[r]
      BY <1>1, <1>2, RunFacts DEF AtMostOne
    <2>2. QED
      BY <1>1, <2>1 DEF PInv, ProgressTypeOK, AtMostOne
  <1>4. ASSUME NEW r \in Runs PROVE Advanced(r)' /\ Registered(r)'
    BY <1>1, <1>2, RunFacts DEF Advanced, Registered
  <1>5. Followed'
    <2>1. \A r \in Runs : committed'[r] \in Nat /\ committed[r] =< committed'[r]
      BY <1>1, RunFacts
    <2>2. \A r \in Runs : thread[r].pc \notin {"none", "queued"} =>
                            thread'[r].pc \notin {"none", "queued"} /\ registry'[r] = {}
      BY <1>2
    <2>3. QED
      BY <1>1, <2>1, <2>2, FollowedKept
  <1>6. QED
    BY <1>3, <1>4, <1>5 DEF PInv

-----------------------------------------------------------------------------
(* The page's steps leave the registry and the committed codes.            *)

\* A thread that only its page's step touched.
Same(r) ==
  /\ thread'[r] \in Batch(Total[r])
  /\ thread'[r].done = thread[r].done /\ thread'[r].outcome = thread[r].outcome
  /\ thread'[r].pc = thread[r].pc \/ (thread[r].pc = "none" /\ thread'[r].pc = "queued")

LEMMA ServerKept ==
  ASSUME PInv, UNCHANGED <<registry, committed>>,
         DOMAIN thread' = Runs, \A r \in Runs : Same(r)
  PROVE  \A r \in Runs : /\ Advanced(r)' /\ Registered(r)'
                         /\ registry'[r] \subseteq Entry(Total[r])
                         /\ AtMostOne(registry'[r])
                         /\ thread'[r] \in Batch(Total[r])
                         /\ committed'[r] \in 0 .. Total[r]
  <1> SUFFICES ASSUME NEW r \in Runs
               PROVE  Advanced(r)' /\ Registered(r)'
    BY RunFacts DEF Same, AtMostOne
  <1>1. Advanced(r) /\ Registered(r)
    BY RunFacts
  <1>2. QED
    BY <1>1 DEF Advanced, Registered, Truthful, Same

(* The page turns to a run, or to none.                                    *)
LEMMA PInvFollow ==
  ASSUME PInv, UNCHANGED <<registry, committed>>,
         DOMAIN thread' = Runs, \A r \in Runs : Same(r),
         NEW r \in Runs \cup {NoRun}, NEW b \in BOOLEAN, Follow(r, b),
         faults' \in 0 .. MaxFaults
  PROVE  PInv'
  <1> USE DEF Follow
  <1>1. Sent' = {} /\ UNION reply' = {}
    BY DEF Sent
  <1>2. Followed'
    BY <1>1 DEF Followed
  <1>3. ProgressTypeOK'
    BY ServerKept DEF PInv, ProgressTypeOK, AtMostOne
  <1>4. QED
    BY <1>2, <1>3, ServerKept DEF PInv

LEMMA SameThreads ==
  ASSUME PInv, thread' = thread
  PROVE  DOMAIN thread' = Runs /\ \A r \in Runs : Same(r)
  BY RunFacts DEF Same, PInv, ProgressTypeOK

LEMMA PInvStart ==
  ASSUME PInv, NEW r \in Runs, Start(r)
  PROVE  PInv'
  <1> USE RunFacts DEF At
  <1>1. PICK k \in Kinds :
          thread' = [thread EXCEPT ![r].pc = "queued", ![r].kind = k, ![r].pending = TRUE]
    BY DEF Start
  <1>2. /\ thread[r].pc = "none" /\ Follow(r, TRUE)
        /\ UNCHANGED <<registry, committed, faults>>
    BY DEF Start
  <1>3. Same(r)
    BY <1>1, <1>2 DEF Same, Batch
  <1>4. DOMAIN thread' = Runs /\ \A x \in Runs : Same(x)
    BY <1>1, <1>3 DEF Same
  <1>5. faults' \in 0 .. MaxFaults
    BY <1>2 DEF PInv, ProgressTypeOK
  <1>6. QED
    BY <1>2, <1>4, <1>5, PInvFollow

LEMMA PInvReload ==
  ASSUME PInv, Reload
  PROVE  PInv'
  <1> USE RunFacts DEF Reload, Fault
  <1>1. ASSUME NEW r \in Runs PROVE Same(r)
    <2>1. thread'[r] = [thread[r] EXCEPT !.pending = FALSE]
      OBVIOUS
    <2>2. QED
      BY <2>1 DEF Same, Batch
  <1>2. DOMAIN thread' = Runs /\ UNCHANGED <<registry, committed>>
    OBVIOUS
  <1>3. faults' \in 0 .. MaxFaults /\ active \in Runs \cup {NoRun} /\ young \in BOOLEAN
    BY ProgressAssumption DEF PInv, ProgressTypeOK
  <1>4. QED
    BY <1>1, <1>2, <1>3, PInvFollow

\* Turning to no run, with the server as it is.
LEMMA PInvForget ==
  ASSUME PInv, Follow(NoRun, FALSE),
         UNCHANGED <<server, faults>>
  PROVE  PInv'
  <1>1. DOMAIN thread' = Runs /\ (\A r \in Runs : Same(r)) /\ UNCHANGED <<registry, committed>>
    BY SameThreads DEF server
  <1>2. faults' \in 0 .. MaxFaults
    BY DEF PInv, ProgressTypeOK
  <1>3. QED
    BY <1>1, <1>2, PInvFollow

(* A step that only takes answers away, or moves one into view: whoever    *)
(* follows a run sees nothing that was not sent before.                    *)
LEMMA PInvPage ==
  ASSUME PInv, UNCHANGED <<server, active>>,
         reply' \subseteq reply,
         view' = view \/ (view' \in reply /\ reply' = {}),
         young' \in BOOLEAN, missed' \in BOOLEAN, faults' \in 0 .. MaxFaults
  PROVE  PInv'
  <1> USE DEF server
  <1>1. DOMAIN thread' = Runs /\ \A r \in Runs : Same(r)
    BY SameThreads
  <1>2. AtMostOne(view')
    <2>1. CASE view' = view
      BY <2>1 DEF PInv, ProgressTypeOK
    <2>2. CASE view' \in reply
      <3>1. active \in Runs
        BY <2>2 DEF PInv, ProgressTypeOK
      <3>2. QED
        BY <2>2, <3>1 DEF PInv, Followed, Sent, AtMostOne, ProgressTypeOK
    <2>3. QED
      BY <2>1, <2>2
  <1>3. ProgressTypeOK'
    BY <1>1, <1>2, ServerKept DEF PInv, ProgressTypeOK
  <1>4. Sent' \subseteq Sent
    BY DEF Sent
  <1>5. UNCHANGED <<committed, registry, thread, active>>
    OBVIOUS
  <1>6. \A e : Truthful(e, active)' <=> Truthful(e, active)
    BY <1>5 DEF Truthful
  <1>7. \A new \in UNION reply', old \in view' : Later(new, old)
    BY DEF PInv, Followed
  <1>8. Followed'
    BY <1>4, <1>5, <1>6, <1>7 DEF PInv, Followed
  <1>9. QED
    BY <1>1, <1>3, <1>8, ServerKept DEF PInv

LEMMA PInvPoll ==
  ASSUME PInv, Poll
  PROVE  PInv'
  <1> USE DEF Poll, server
  <1>1. /\ active \in Runs /\ reply' = {registry[active]} /\ reply = {}
        /\ UNCHANGED <<registry, thread, committed, active, young, view, missed, faults>>
    BY DEF PInv, ProgressTypeOK
  <1>2. /\ registry[active] \subseteq Entry(Total[active])
        /\ AtMostOne(registry[active])
        /\ Advanced(active) /\ Registered(active)
        /\ \A e \in registry[active] : Later(e, e)
    BY <1>1, RunFacts
  <1>3. Sent' = Sent \cup registry[active] /\ Sent = view /\ UNION reply' = registry[active]
    BY <1>1 DEF Sent
  <1>4. registry[active] # {} => thread[active].pc \notin {"none", "queued"}
    BY <1>2 DEF Advanced
  <1>5. /\ \A e \in registry[active] : Truthful(e, active)
        /\ \A e : Truthful(e, active)' <=> Truthful(e, active)
    BY <1>1, <1>2 DEF Registered, Truthful
  <1>6. \A old \in view, new \in registry[active] : Later(new, old)
    BY <1>3 DEF PInv, Followed
  <1>7. \A x, y \in registry[active] : Later(x, y)
    BY <1>2 DEF AtMostOne
  <1>8. Followed'
    <2>1. /\ \A a, b \in reply' : a = b
          /\ \A a \in reply' : AtMostOne(a)
      BY <1>1, <1>2
    <2>2. Sent' # {} => thread[active].pc \notin {"none", "queued"}
      BY <1>3, <1>4 DEF PInv, Followed
    <2>3. \A e \in Sent' : Truthful(e, active)'
      BY <1>3, <1>5 DEF PInv, Followed
    <2>4. \A old \in Sent', new \in registry[active] : Later(new, old)
      BY <1>3, <1>6, <1>7
    <2>5. \A new \in UNION reply', old \in view : Later(new, old)
      BY <1>3, <1>6
    <2>6. QED
      BY <1>1, <2>1, <2>2, <2>3, <2>4, <2>5 DEF Followed, AtMostOne
  <1>9. DOMAIN thread' = Runs /\ \A r \in Runs : Same(r)
    BY <1>1, SameThreads
  <1>10. ProgressTypeOK'
    <2>1. \A answer \in reply' \cup {view'} : answer \subseteq Entry(Total[active])
      BY <1>1, <1>2 DEF PInv, ProgressTypeOK
    <2>2. active # NoRun
      BY <1>1, ProgressAssumption
    <2>3. QED
      BY <1>1, <1>9, <2>1, <2>2, ServerKept DEF PInv, ProgressTypeOK, AtMostOne
  <1>11. QED
    BY <1>1, <1>8, <1>9, <1>10, ServerKept DEF PInv

LEMMA PInvAnswer ==
  ASSUME PInv, Answer
  PROVE  PInv'
  <1>1. PICK answer \in reply : Show(answer) \/ Unknown(answer)
    BY DEF Answer
  <1>2. reply = {answer}
    BY <1>1 DEF PInv, Followed
  <1>3. young \in BOOLEAN /\ missed \in BOOLEAN /\ faults \in 0 .. MaxFaults
    BY DEF PInv, ProgressTypeOK
  <1>4. CASE Show(answer)
    <2>1. /\ UNCHANGED <<server, active, young, faults>>
          /\ view' = answer /\ missed' = FALSE /\ reply' = {}
      BY <1>2, <1>4 DEF Show
    <2>2. QED
      BY <1>1, <1>3, <2>1, PInvPage
  <1>5. CASE Unknown(answer)
    <2>1. CASE Follow(NoRun, FALSE)
      BY <1>5, <2>1, PInvForget DEF Unknown
    <2>2. CASE ~ Follow(NoRun, FALSE)
      <3>1. /\ UNCHANGED <<server, active, young, view, faults>>
            /\ missed' = TRUE /\ reply' \subseteq reply
        BY <1>5, <2>2 DEF Unknown
      <3>2. QED
        BY <1>3, <3>1, PInvPage
    <2>3. QED
      BY <2>1, <2>2
  <1>6. QED
    BY <1>1, <1>4, <1>5

LEMMA PInvLosePoll ==
  ASSUME PInv, LosePoll
  PROVE  PInv'
  <1>1. /\ UNCHANGED <<server, active, young, view>> /\ reply' = {} /\ missed' = young
        /\ young \in BOOLEAN /\ faults' \in 0 .. MaxFaults
    BY ProgressAssumption DEF PInv, ProgressTypeOK, LosePoll, Fault
  <1>2. QED
    BY <1>1, PInvPage

LEMMA PInvGraceEnds ==
  ASSUME PInv, GraceEnds
  PROVE  PInv'
  <1>1. /\ UNCHANGED <<server, active, view, reply, faults>>
        /\ young' = FALSE /\ missed' = FALSE /\ faults \in 0 .. MaxFaults
    BY DEF PInv, ProgressTypeOK, GraceEnds
  <1>2. QED
    BY <1>1, PInvPage

LEMMA PInvDismiss ==
  ASSUME PInv, Dismiss
  PROVE  PInv'
  BY PInvForget DEF Dismiss

LEMMA PInvStutter ==
  ASSUME PInv, UNCHANGED progress
  PROVE  PInv'
  <1>1. /\ UNCHANGED <<server, active, young, view, missed, reply, faults>>
        /\ young \in BOOLEAN /\ missed \in BOOLEAN /\ faults \in 0 .. MaxFaults
    BY DEF PInv, ProgressTypeOK, progress, server
  <1>2. QED
    BY <1>1, PInvPage

LEMMA PInvStep == PInv /\ [ProgressNext]_progress => PInv'
  <1> SUFFICES ASSUME PInv, [ProgressNext]_progress
               PROVE  PInv'
    OBVIOUS
  <1>1. ASSUME NEW r \in Runs, Thread(r)
        PROVE  PInv'
    BY <1>1, PInvBegin, PInvRefuse, PInvWork, PInvMark, PInvBreak, PInvAbort, PInvComplete
       DEF Thread
  <1>2. ASSUME NEW r \in Runs, Start(r)
        PROVE  PInv'
    BY <1>2, PInvStart
  <1>3. CASE Poll \/ Answer \/ LosePoll
    BY <1>3, PInvPoll, PInvAnswer, PInvLosePoll
  <1>4. CASE GraceEnds \/ Dismiss \/ Reload \/ RestartServer
    BY <1>4, PInvGraceEnds, PInvDismiss, PInvReload, PInvRestart
  <1>5. CASE UNCHANGED progress
    BY <1>5, PInvStutter
  <1>6. QED
    BY <1>1, <1>2, <1>3, <1>4, <1>5 DEF ProgressNext

LEMMA ProgressInvariant == ProgressSpec => []PInv
  <1>1. ProgressInit => PInv
    BY PInvInit
  <1>2. PInv /\ [ProgressNext]_progress => PInv'
    BY PInvStep
  <1>3. QED
    BY <1>1, <1>2, PTL DEF ProgressSpec

(* Type correctness of the registry, the threads and the page, for any     *)
(* runs, numbers of codes and faults.                                      *)
THEOREM ProgressTyped == ProgressSpec => []ProgressTypeOK
  <1>1. PInv => ProgressTypeOK
    BY DEF PInv
  <1>2. QED
    BY <1>1, ProgressInvariant, PTL

(* What the page shows of a run is committed and adds up, for any number   *)
(* of runs, restarts, lost polls and reloads.                              *)
THEOREM ProgressShownIsCommitted ==
  ProgressSpec => []ShownIsCommitted
  <1>1. PInv => ShownIsCommitted
    BY DEF PInv, Followed, Sent, Truthful, ShownIsCommitted
  <1>2. QED
    BY <1>1, ProgressInvariant, PTL

(* A step replaces what is shown of a run by an answer at or after it:     *)
(* answers are sent one at a time, and the registry never goes back while  *)
(* it has the run.                                                         *)
THEOREM ProgressNeverBackwards ==
  ProgressSpec => NeverBackwards
  <1>1. PInv /\ [ProgressNext]_progress =>
          [active' = active =>
             \A new \in view', old \in view : Later(new, old)]_progress
    <2> SUFFICES ASSUME PInv, ProgressNext, active' = active,
                        NEW new \in view', NEW old \in view
                 PROVE  Later(new, old)
      OBVIOUS
    <2>1. CASE view' = view
      <3>1. active \in Runs
        BY DEF PInv, ProgressTypeOK
      <3>2. new \in Entry(Total[active]) /\ Total[active] \in Nat /\ new = old
        BY <2>1, <3>1, RunFacts DEF PInv, ProgressTypeOK, AtMostOne
      <3>3. QED
        BY <3>2, LaterOrder
    <2>2. CASE view' \in reply
      BY <2>2 DEF PInv, Followed
    <2>3. view' = view \/ view' \in reply \/ view' = {}
      BY DEF ProgressNext, Thread, Start, Poll, Answer,
             LosePoll, GraceEnds, Dismiss, Reload,
             RestartServer, Begin, Refuse, Work, Mark,
             Break, Abort, Complete, Show, Unknown,
             Follow, page
    <2>4. QED
      BY <2>1, <2>2, <2>3
  <1>2. ProgressSpec => []PInv
    BY ProgressInvariant
  <1>3. QED
    BY <1>1, <1>2, PTL DEF ProgressSpec, NeverBackwards

-----------------------------------------------------------------------------
(* The two as one system.  A step of it is a step of each part, or leaves   *)
(* the part alone: what is proved of the parts holds of it.                 *)

LEMMA StepOfHistory == [SyncedNext]_synced => [Next]_vars
  BY SyncedAssumption
     DEF SyncedNext, synced, StartRun, BeginRun, GoOn, WorkOn, AnswerCode, CompleteRun, Aside,
         OnPage, Elsewhere, RestartProcess, Next, Step, Batches

LEMMA StepOfProgress == [SyncedNext]_synced => [ProgressNext]_progress
  BY DEF SyncedNext, synced, StartRun, BeginRun, GoOn, WorkOn, CompleteRun, Aside,
         OnPage, Elsewhere, RestartProcess, ProgressNext, Thread

(* A synchronisation that is started and watched from a page does to the   *)
(* bars what HistorySync says, and no more.                                 *)
THEOREM SyncedIsHistory == SyncedSpec => Spec
  <1>1. SyncedInit => Init
    BY DEF SyncedInit
  <1>2. QED
    BY <1>1, StepOfHistory, PTL DEF SyncedSpec, Spec

(* It shows what SyncProgress says.                                         *)
THEOREM SyncedIsProgress == SyncedSpec => ProgressSpec
  <1>1. SyncedInit => ProgressInit
    BY DEF SyncedInit
  <1>2. QED
    BY <1>1, StepOfProgress, PTL DEF SyncedSpec, ProgressSpec

-----------------------------------------------------------------------------
(* What ties a run to its batch.                                            *)

Asleep(r) == thread[r].pc \in {"none", "queued"}
Tally(r, o) == Cardinality(AnsweredAs(r, o))

\* The code that is answered and not marked yet.
Unmarked(r, o) == IF At(r, "mark") /\ thread[r].outcome = o THEN 1 ELSE 0

SyncedTyped ==
  /\ overdue \in [Runs -> [Codes -> SUBSET Days]]
  /\ guessed \in [Runs -> SUBSET Codes]

\* A batch begins with its thread, and the registry is one mark behind its answers.
Coupled(r) ==
  /\ Asleep(r) => batch[r] = Idle
  /\ batch[r].todo \cap DOMAIN batch[r].answer = {}
  /\ \A e \in registry[r] :
       /\ \A o \in Answers : e[o] + Unmarked(r, o) = Tally(r, o)
       /\ e.status = "completed" => batch[r].pc = "done"

\* What is overdue was so before the batch looked at the code, and is then answered for.
Owed(r) ==
  \A c \in Codes :
    /\ \A d \in overdue[r][c] : d \in published[c] /\ d < day
    /\ batch[r].pc \in {"codes", "fetch", "store"} =>
         overdue[r][c] \subseteq batch[r].from .. batch[r].to
    /\ Fetching(r) /\ batch[r].code = c =>
         \A d \in overdue[r][c] : d < batch[r].asOf
    /\ c \in DOMAIN batch[r].answer /\ batch[r].answer[c] # "failed" /\ c \notin guessed[r] =>
         overdue[r][c] \subseteq due[c]

\* What was sent counts answers that were given and still stand.
Card ==
  \A e \in Sent : batch[active].asked # {} =>
    \A o \in Answers :
      /\ e[o] =< Tally(active, o)
      /\ e.status = "completed" => batch[active].pc = "done" /\ e[o] = Tally(active, o)

SInv == /\ HInv /\ PInv /\ SyncedTyped
        /\ \A r \in Runs : Coupled(r) /\ Owed(r)
        /\ Card

LEMMA RunIsBatch == \A r \in Runs : r \in Manual /\ r \in Batches /\ r # Close
  BY SyncedAssumption, HistoryAssumption DEF Batches

(* The answers of a run are finitely many.                                  *)
LEMMA TallyType ==
  ASSUME HInv, NEW r \in Runs, NEW o
  PROVE  IsFiniteSet(AnsweredAs(r, o)) /\ Tally(r, o) \in Nat
  <1>1. AnsweredAs(r, o) \subseteq DOMAIN batch[r].answer
    BY DEF AnsweredAs
  <1>2. batch[r] \in BatchType
    BY RunIsBatch DEF HInv, TypeOK
  <1>3. DOMAIN batch[r].answer \subseteq Codes
    BY <1>2 DEF BatchType
  <1>4. IsFiniteSet(AnsweredAs(r, o))
    BY <1>1, <1>3, SyncedAssumption, FS_Subset
  <1>5. QED
    BY <1>4, FS_CardinalityType DEF Tally

(* The world only goes on.                                                  *)
LEMMA WorldForward ==
  ASSUME HInv, [Next]_vars
  PROVE  /\ day \in Int /\ day' \in Int /\ day =< day'
         /\ \A c \in Codes : published[c] \subseteq published'[c] /\ due[c] \subseteq due'[c]
  <1> USE DEF HInv, TypeOK, WorldOK, Days
  <1>1. day \in Int
    BY HistoryAssumption
  <1>2. CASE Tick
    BY <1>1, <1>2 DEF Tick
  <1>3. CASE \E c \in Codes : Publish(c)
    BY <1>1, <1>3 DEF Publish
  <1>4. CASE StartClose \/ (\E b \in Manual : StartManual(b)) \/ Restart \/ UNCHANGED vars
    BY <1>1, <1>4 DEF StartClose, StartManual, Restart, vars
  <1>5. ASSUME NEW b \in Batches, Step(b)
        PROVE  /\ day' = day /\ published' = published
               /\ \A c \in Codes : due[c] \subseteq due'[c]
    <2>1. CASE \E c \in Codes : Cover(b, c)
      BY <2>1 DEF Cover, Vouch
    <2>2. CASE Fetch(b) \/ Finish(b) \/ \E c \in Codes : Fail(b, c)
      BY <2>2 DEF Fetch, Finish, Fail
    <2>3. CASE Store(b)
      BY <2>3 DEF Store, Vouch
    <2>4. QED
      BY <1>5, <2>1, <2>2, <2>3 DEF Step
  <1>6. QED
    BY <1>1, <1>2, <1>3, <1>4, <1>5 DEF Next

(* What a run is owed stays so while its batch stands.                      *)
LEMMA OwedKept ==
  ASSUME HInv, [Next]_vars, NEW r \in Runs, Owed(r),
         batch'[r] = batch[r], UNCHANGED <<overdue[r], guessed[r]>>
  PROVE  Owed(r)'
  <1>1. ASSUME NEW c \in Codes, NEW d \in overdue[r][c]
        PROVE  d \in published'[c] /\ d < day'
    <2>1. overdue[r][c] \subseteq published[c] /\ d < day /\ d \in Days
      BY DEF Owed, HInv, TypeOK, WorldOK
    <2>2. QED
      BY <2>1, WorldForward DEF Days
  <1>2. QED
    BY <1>1, WorldForward DEF Owed, Fetching

(* So does the tie between the run and a batch that gives no answer.        *)
LEMMA CoupledKept ==
  ASSUME NEW r \in Runs, Coupled(r),
         Asleep(r)' => Asleep(r) /\ batch'[r] = batch[r],
         batch'[r].todo \subseteq batch[r].todo, batch'[r].answer = batch[r].answer,
         batch[r].pc = "done" => batch'[r].pc = "done",
         registry'[r] = registry[r],
         \A o \in Answers : Unmarked(r, o)' = Unmarked(r, o)
  PROVE  Coupled(r)'
  <1>1. \A o \in Answers : AnsweredAs(r, o)' = AnsweredAs(r, o)
    BY DEF AnsweredAs
  <1>2. \A o \in Answers : Tally(r, o)' = Tally(r, o)
    BY <1>1 DEF Tally
  <1>3. \A e \in registry'[r] :
          /\ \A o \in Answers : e[o] + Unmarked(r, o)' = Tally(r, o)'
          /\ e.status = "completed" => batch'[r].pc = "done"
    BY <1>2 DEF Coupled
  <1>4. /\ Asleep(r)' => batch'[r] = Idle
        /\ batch'[r].todo \cap DOMAIN batch'[r].answer = {}
    BY DEF Coupled
  <1>5. QED
    BY <1>3, <1>4 DEF Coupled

(* The page gets no more than the registry has of its run, and every batch *)
(* stands by its answers or has lost what it was asked.                     *)
LEMMA CardKept ==
  ASSUME SInv,
         \/ Sent' = {}
         \/ /\ active' = active
            /\ active \in Runs => Sent' \subseteq Sent \cup registry[active]
            /\ active \notin Runs => Sent' \subseteq Sent,
         \A r \in Runs : \/ batch'[r].asked = {}
                         \/ /\ batch'[r].asked = batch[r].asked
                            /\ batch'[r].answer = batch[r].answer
                            /\ batch[r].pc = "done" => batch'[r].pc = "done"
  PROVE  Card'
  <1> SUFFICES ASSUME NEW e \in Sent', batch'[active'].asked # {}, NEW o \in Answers
               PROVE  /\ e[o] =< Cardinality(AnsweredAs(active, o))'
                      /\ e.status = "completed" =>
                           /\ batch'[active'].pc = "done"
                           /\ e[o] = Cardinality(AnsweredAs(active, o))'
    BY DEF Card, Tally
  <1>1. Sent' # {} /\ batch'[active'].asked # {}
    OBVIOUS
  <1>2. active' = active
    BY <1>1
  <1>3. active \in Runs
    BY <1>1, <1>2 DEF SInv, PInv, ProgressTypeOK, Sent
  <1>4. /\ batch'[active].asked = batch[active].asked
        /\ batch'[active].answer = batch[active].answer
        /\ batch[active].pc = "done" => batch'[active].pc = "done"
    BY <1>1, <1>2, <1>3
  <1>5. AnsweredAs(active, o)' = AnsweredAs(active, o)
    BY <1>2, <1>4 DEF AnsweredAs
  <1>6. Cardinality(AnsweredAs(active, o))' = Tally(active, o) /\ Tally(active, o) \in Nat
    BY <1>3, <1>5, TallyType DEF Tally, SInv
  <1>7. CASE e \in Sent
    <2>1. batch[active].asked # {}
      BY <1>1, <1>2, <1>4
    <2>2. /\ e[o] =< Tally(active, o)
          /\ e.status = "completed" => batch[active].pc = "done" /\ e[o] = Tally(active, o)
      BY <1>7, <2>1 DEF SInv, Card
    <2>3. QED
      BY <1>2, <1>4, <1>6, <2>2
  <1>8. CASE e \in registry[active]
    <2>1. e \in Entry(Total[active]) /\ Total[active] \in Nat
      BY <1>3, <1>8, RunTypes DEF SInv, PInv
    <2>2. e[o] \in Nat
      BY <2>1 DEF Entry, Answers
    <2>3. /\ e[o] + Unmarked(active, o) = Tally(active, o)
          /\ e.status = "completed" => batch[active].pc = "done"
          /\ thread[active].pc = "mark" => e.status = "running"
      BY <1>3, <1>8 DEF SInv, Coupled, PInv, Registered
    <2>4. Unmarked(active, o) \in {0, 1} /\ (thread[active].pc # "mark" => Unmarked(active, o) = 0)
      BY DEF Unmarked, At
    <2>5. e[o] =< Tally(active, o) /\ (e.status = "completed" => e[o] = Tally(active, o))
      BY <1>6, <2>2, <2>3, <2>4
    <2>6. QED
      BY <1>2, <1>4, <1>6, <2>3, <2>5
  <1>9. QED
    BY <1>1, <1>2, <1>3, <1>7, <1>8

-----------------------------------------------------------------------------
(* The steps.                                                               *)

LEMMA SInvInit == SyncedInit => SInv
  <1> SUFFICES ASSUME SyncedInit PROVE SInv
    OBVIOUS
  <1>1. HInv /\ PInv
    BY HInvInit, PInvInit DEF SyncedInit
  <1>2. SyncedTyped
    BY DEF SyncedInit, SyncedTyped
  <1>3. /\ \A r \in Runs : batch[r] = Idle /\ registry[r] = {}
        /\ Sent = {}
    BY RunIsBatch DEF SyncedInit, Init, ProgressInit, Empty, Sent
  <1>4. Idle.todo = {} /\ Idle.pc = "idle" /\ DOMAIN Idle.answer = {}
    BY DEF Idle
  <1>5. \A r \in Runs : Coupled(r)
    BY <1>3, <1>4 DEF Coupled
  <1>6. \A r \in Runs, c \in Codes : overdue[r][c] = {}
    BY DEF SyncedInit
  <1>7. \A r \in Runs : Owed(r)
    BY <1>3, <1>4, <1>6 DEF Owed, Fetching
  <1>8. Card
    BY <1>3 DEF Card
  <1>9. QED
    BY <1>1, <1>2, <1>5, <1>7, <1>8 DEF SInv

(* A step that leaves the batches of the runs and the ghosts alone.         *)
LEMMA SInvSameBatches ==
  ASSUME SInv, [SyncedNext]_synced, UNCHANGED ghosts,
         \A r \in Runs : batch'[r] = batch[r],
         \A r \in Runs : Coupled(r)',
         Card'
  PROVE  SInv'
  <1>1. HInv' /\ PInv'
    BY StepOfHistory, StepOfProgress, HInvStep, PInvStep DEF SInv
  <1>2. \A r \in Runs : Owed(r)'
    BY StepOfHistory, OwedKept DEF SInv, ghosts
  <1>3. SyncedTyped'
    BY DEF SInv, SyncedTyped, ghosts
  <1>4. QED
    BY <1>1, <1>2, <1>3 DEF SInv

\* What is shown does not depend on the threads but for an answer on its way to the
\* registry.
LEMMA SInvThreadsKept ==
  ASSUME SInv, [SyncedNext]_synced, UNCHANGED ghosts,
         \A r \in Runs : batch'[r] = batch[r],
         UNCHANGED registry,
         \A r \in Runs : \/ thread'[r].pc = thread[r].pc /\ thread'[r].outcome = thread[r].outcome
                         \/ thread[r].pc = "none" /\ thread'[r].pc = "queued",
         \/ Sent' = {}
         \/ /\ active' = active
            /\ active \in Runs => Sent' \subseteq Sent \cup registry[active]
            /\ active \notin Runs => Sent' \subseteq Sent
  PROVE  SInv'
  <1>1. \A r \in Runs : /\ Asleep(r)' => Asleep(r)
                        /\ \A o \in Answers : Unmarked(r, o)' = Unmarked(r, o)
    BY DEF Asleep, Unmarked, At
  <1>2. \A r \in Runs : Coupled(r)'
    BY <1>1, CoupledKept DEF SInv
  <1>3. Card'
    BY CardKept
  <1>4. QED
    BY <1>2, <1>3, SInvSameBatches

LEMMA SInvStartRun ==
  ASSUME SInv, NEW r \in Runs, StartRun(r)
  PROVE  SInv'
  <1>1. /\ UNCHANGED <<vars, ghosts, registry>> /\ Sent' = {}
        /\ thread[r].pc = "none"
    BY DEF StartRun, Start, Follow, Sent, At
  <1>2. PICK k \in Kinds :
          thread' = [thread EXCEPT ![r].pc = "queued", ![r].kind = k, ![r].pending = TRUE]
    BY DEF StartRun, Start
  <1>3. DOMAIN thread = Runs /\ thread[r] \in Batch(Total[r])
    BY DEF SInv, PInv, ProgressTypeOK
  <1>4. \A x \in Runs : IF x = r THEN thread'[x].pc = "queued" ELSE thread'[x] = thread[x]
    BY <1>2, <1>3 DEF Batch
  <1>5. \A x \in Runs : batch'[x] = batch[x]
    BY <1>1 DEF vars
  <1>6. [SyncedNext]_synced
    BY DEF SyncedNext
  <1>7. QED
    BY <1>1, <1>4, <1>5, <1>6, SInvThreadsKept

LEMMA SInvOnPage ==
  ASSUME SInv, OnPage
  PROVE  SInv'
  <1>1. UNCHANGED <<vars, ghosts>> /\ [SyncedNext]_synced /\ \A x \in Runs : batch'[x] = batch[x]
    BY DEF OnPage, SyncedNext, vars
  <1>2. UNCHANGED registry
    BY DEF OnPage, Poll, Answer, Show, Unknown, LosePoll, GraceEnds, Dismiss, Reload, server
  <1>3. \A x \in Runs : thread'[x].pc = thread[x].pc /\ thread'[x].outcome = thread[x].outcome
    <2>1. CASE Reload
      <3>1. \A x \in Runs : thread[x] \in Batch(Total[x])
        BY DEF SInv, PInv, ProgressTypeOK
      <3>2. \A x \in Runs : thread'[x] = [thread[x] EXCEPT !.pending = FALSE]
        BY <2>1 DEF Reload
      <3>3. QED
        BY <3>1, <3>2 DEF Batch
    <2>2. CASE Poll \/ Answer \/ LosePoll \/ GraceEnds \/ Dismiss
      BY <2>2 DEF Poll, Answer, Show, Unknown, LosePoll, GraceEnds, Dismiss, server
    <2>3. QED
      BY <2>1, <2>2 DEF OnPage
  <1>4. \/ Sent' = {}
        \/ /\ active' = active
           /\ active \in Runs => Sent' \subseteq Sent \cup registry[active]
           /\ active \notin Runs => Sent' \subseteq Sent
    <2>1. CASE Poll
      <3>1. active \in Runs
        BY <2>1 DEF Poll, SInv, PInv, ProgressTypeOK
      <3>2. QED
        BY <2>1, <3>1 DEF Poll, Sent
    <2>2. CASE Answer
      BY <2>2 DEF Answer, Show, Unknown, Follow, Sent
    <2>3. CASE LosePoll \/ GraceEnds \/ Dismiss \/ Reload
      BY <2>3 DEF LosePoll, GraceEnds, Dismiss, Reload, Follow, Sent
    <2>4. QED
      BY <2>1, <2>2, <2>3 DEF OnPage
  <1>5. QED
    BY <1>1, <1>2, <1>3, <1>4, SInvThreadsKept

LEMMA SInvElsewhere ==
  ASSUME SInv, Elsewhere
  PROVE  SInv'
  <1>1. UNCHANGED <<progress, ghosts>> /\ [SyncedNext]_synced
    BY DEF Elsewhere, SyncedNext
  <1>2. UNCHANGED <<registry, thread, active>> /\ Sent' = Sent
    BY <1>1 DEF progress, Sent
  <1>3. \A x \in Runs : batch'[x] = batch[x]
    <2> USE RunIsBatch DEF SInv, HInv, TypeOK
    <2>1. CASE Tick \/ \E c \in Codes : Publish(c)
      BY <2>1 DEF Tick, Publish
    <2>2. CASE StartClose
      BY <2>2 DEF StartClose
    <2>3. CASE Step(Close)
      BY <2>3 DEF Step, Cover, Fetch, Store, Fail, Finish, Answered
    <2>4. QED
      BY <2>1, <2>2, <2>3 DEF Elsewhere
  <1>4. QED
    BY <1>1, <1>2, <1>3, SInvThreadsKept

\* A thread that only closes or counts: the batch and the page stand.
LEMMA SInvThread ==
  ASSUME SInv, [SyncedNext]_synced, UNCHANGED <<ghosts, page>>, NEW r \in Runs,
         \A x \in Runs : batch'[x] = batch[x],
         \A x \in Runs \ {r} : registry'[x] = registry[x] /\ thread'[x] = thread[x],
         Coupled(r)'
  PROVE  SInv'
  <1>1. ASSUME NEW x \in Runs \ {r}
        PROVE  Coupled(x)'
    <2>1. /\ Asleep(x)' => Asleep(x)
          /\ \A o \in Answers : Unmarked(x, o)' = Unmarked(x, o)
      BY DEF Asleep, Unmarked, At
    <2>2. QED
      BY <2>1, CoupledKept DEF SInv
  <1>2. \A x \in Runs : Coupled(x)'
    BY <1>1
  <1>3. Sent' = Sent /\ active' = active
    BY DEF page, Sent
  <1>4. Card'
    BY <1>3, CardKept
  <1>5. QED
    BY <1>2, <1>4, SInvSameBatches

\* The entry of a run that ends with a failure keeps its counts.
LEMMA CoupledClosed ==
  ASSUME SInv, NEW r \in Runs, batch'[r] = batch[r], thread[r].pc # "mark",
         thread'[r].pc = "ended", registry'[r] = {Closed(e, "failed") : e \in registry[r]}
  PROVE  Coupled(r)'
  <1>1. \A o \in Answers : Unmarked(r, o) = 0 /\ Unmarked(r, o)' = 0
    BY DEF Unmarked, At
  <1>2. \A o \in Answers : Tally(r, o)' = Tally(r, o)
    BY DEF Tally, AnsweredAs
  <1>3. ASSUME NEW e \in registry[r], NEW o \in Answers
        PROVE  Closed(e, "failed")[o] = e[o] /\ Closed(e, "failed").status = "failed"
    <2>1. e \in Entry(Total[r])
      BY RunFacts DEF SInv
    <2>2. QED
      BY <2>1 DEF Entry, Closed, Answers
  <1>4. \A e \in registry[r], o \in Answers : e[o] + Unmarked(r, o) = Tally(r, o)
    BY DEF SInv, Coupled
  <1>5. \A e \in registry'[r], o \in Answers :
          e[o] + Unmarked(r, o)' = Tally(r, o)' /\ e.status = "failed"
    BY <1>1, <1>2, <1>3, <1>4
  <1>6. \A e \in registry'[r] :
          /\ \A o \in Answers : e[o] + Unmarked(r, o)' = Tally(r, o)'
          /\ e.status = "completed" => batch'[r].pc = "done"
    BY <1>5 DEF Answers
  <1>7. ~ Asleep(r)' /\ batch'[r].todo \cap DOMAIN batch'[r].answer = {}
    BY DEF Asleep, SInv, Coupled
  <1>8. QED
    BY <1>6, <1>7 DEF Coupled

LEMMA CoupledMark ==
  ASSUME SInv, NEW r \in Runs, batch'[r] = batch[r], Mark(r)
  PROVE  Coupled(r)'
  <1> DEFINE out == thread[r].outcome
  <1>1. /\ thread[r].pc = "mark" /\ thread[r] \in Batch(Total[r]) /\ DOMAIN thread = Runs
        /\ Total[r] \in Nat /\ Advanced(r) /\ Registered(r)
        /\ registry[r] \subseteq Entry(Total[r]) /\ DOMAIN registry = Runs
    BY RunFacts DEF SInv, Mark, At
  <1>2. out \in Answers
    BY <1>1 DEF Batch, Answers
  <1>3. registry'[r] = {Count(e, out) : e \in registry[r]}
    BY <1>1 DEF Mark, Update
  <1>4. thread'[r].pc \in {"codes", "abort"}
    BY <1>1 DEF Mark, Batch
  <1>5. \A o \in Answers : /\ Unmarked(r, o) = IF o = out THEN 1 ELSE 0
                           /\ Unmarked(r, o)' = 0
    BY <1>1, <1>4 DEF Unmarked, At
  <1>6. \A o \in Answers : Tally(r, o)' = Tally(r, o)
    BY DEF Tally, AnsweredAs
  <1> HIDE DEF out
  <1>7. ASSUME NEW e \in registry[r]
        PROVE  /\ \A o \in Answers : Count(e, out)[o] = e[o] + (IF o = out THEN 1 ELSE 0)
               /\ \A o \in Answers : Count(e, out)[o] \in Nat
               /\ Count(e, out).status = "running"
    <2>1. /\ e \in Entry(Total[r]) /\ e.completed = thread[r].done /\ thread[r].done < Total[r]
          /\ e.status = "running" /\ e.completed = e.synced + e.skipped + e.failed
      BY <1>1 DEF Registered, Advanced, Truthful
    <2>2. /\ \A o \in Answers : Count(e, out)[o] = e[o] + (IF o = out THEN 1 ELSE 0)
          /\ Count(e, out) \in Entry(Total[r]) /\ Count(e, out).status = "running"
      BY <1>1, <1>2, <2>1, Counted DEF Answers
    <2>3. \A o \in Answers : Count(e, out)[o] \in Nat
      BY <1>1, <2>2 DEF Entry, Answers
    <2>4. QED
      BY <2>2, <2>3
  <1>8. \A e \in registry[r], o \in Answers : e[o] + Unmarked(r, o) = Tally(r, o)
    BY DEF SInv, Coupled
  <1>9. \A e \in registry'[r] : /\ \A o \in Answers : e[o] + Unmarked(r, o)' = Tally(r, o)'
                                /\ e.status = "completed" => batch'[r].pc = "done"
    BY <1>3, <1>5, <1>6, <1>7, <1>8
  <1>10. ~ Asleep(r)' /\ batch'[r].todo \cap DOMAIN batch'[r].answer = {}
    BY <1>4 DEF Asleep, SInv, Coupled
  <1>11. QED
    BY <1>9, <1>10 DEF Coupled

LEMMA SInvAside ==
  ASSUME SInv, NEW r \in Runs, Aside(r)
  PROVE  SInv'
  <1>1. /\ UNCHANGED <<vars, ghosts>> /\ [SyncedNext]_synced
        /\ \A x \in Runs : batch'[x] = batch[x]
    BY DEF Aside, SyncedNext, vars
  <1>2. DOMAIN registry = Runs /\ DOMAIN thread = Runs /\ thread[r] \in Batch(Total[r])
    BY RunFacts DEF SInv
  <1>3. UNCHANGED page
    BY DEF Aside, Refuse, Mark, Break, Abort
  <1>4. \A x \in Runs \ {r} : registry'[x] = registry[x] /\ thread'[x] = thread[x]
    BY <1>2 DEF Aside, Refuse, Mark, Break, Abort, Update
  <1>5. Coupled(r)'
    <2>1. CASE Refuse(r) \/ Abort(r)
      <3>1. /\ thread[r].pc # "mark" /\ thread'[r].pc = "ended"
            /\ registry'[r] = {Closed(e, "failed") : e \in registry[r]}
        BY <1>2, <2>1 DEF Refuse, Abort, Update, At, Over, NoBatch
      <3>2. QED
        BY <1>1, <3>1, CoupledClosed
    <2>2. CASE Mark(r)
      BY <1>1, <2>2, CoupledMark
    <2>3. CASE Break(r)
      <3>1. /\ thread[r].pc = "codes" /\ thread'[r].pc = "abort" /\ registry'[r] = registry[r]
        BY <1>2, <2>3 DEF Break, At, Batch
      <3>2. ~ Asleep(r)' /\ \A o \in Answers : Unmarked(r, o)' = Unmarked(r, o)
        BY <3>1 DEF Asleep, Unmarked, At
      <3>3. QED
        BY <1>1, <3>1, <3>2, CoupledKept DEF SInv
    <2>4. QED
      BY <2>1, <2>2, <2>3 DEF Aside
  <1>6. QED
    BY <1>1, <1>3, <1>4, <1>5, SInvThread

\* A step in the batch of one run.
LEMMA SInvOwn ==
  ASSUME SInv, [SyncedNext]_synced, NEW r \in Runs, SyncedTyped',
         \A x \in Runs \ {r} :
           UNCHANGED <<batch[x], registry[x], thread[x], overdue[x], guessed[x]>>,
         Coupled(r)', Owed(r)', Card'
  PROVE  SInv'
  <1>1. HInv' /\ PInv'
    BY StepOfHistory, StepOfProgress, HInvStep, PInvStep DEF SInv
  <1>2. ASSUME NEW x \in Runs \ {r}
        PROVE  Coupled(x)' /\ Owed(x)'
    <2>1. /\ Asleep(x)' => Asleep(x)
          /\ \A o \in Answers : Unmarked(x, o)' = Unmarked(x, o)
      BY DEF Asleep, Unmarked, At
    <2>2. Coupled(x)'
      BY <2>1, CoupledKept DEF SInv
    <2>3. Owed(x)'
      BY StepOfHistory, OwedKept DEF SInv
    <2>4. QED
      BY <2>2, <2>3
  <1>3. QED
    BY <1>1, <1>2 DEF SInv

LEMMA SInvGoOn ==
  ASSUME SInv, NEW r \in Runs, GoOn(r)
  PROVE  SInv'
  <1>1. UNCHANGED <<progress, ghosts>> /\ [SyncedNext]_synced
    BY DEF GoOn, SyncedNext
  <1>2. /\ batch \in [Batches -> BatchType] /\ batch[r] \in BatchType /\ r \in Batches
        /\ HInv /\ published \in [Codes -> SUBSET Days] /\ day \in Days
    BY RunIsBatch DEF SInv, HInv, TypeOK, WorldOK
  <1>3. PICK new \in BatchType :
          /\ batch' = [batch EXCEPT ![r] = new]
          /\ batch[r].pc \in {"codes", "fetch"} /\ new.pc \in {"fetch", "store"}
          /\ new.todo = batch[r].todo /\ new.answer = batch[r].answer
          /\ new.asked = batch[r].asked /\ new.from = batch[r].from /\ new.to = batch[r].to
          /\ \/ Fetching(r) /\ new.code = batch[r].code /\ new.asOf = batch[r].asOf
             \/ new.code \in Codes /\ batch[r].pc = "codes" /\ new.asOf = day
          /\ UNCHANGED <<published, day, due>>
    <2>1. CASE Fetch(r)
      <3>1. Fetching(r) /\ batch[r].pc = "fetch" /\ published[batch[r].code] \in SUBSET Days
            /\ UNCHANGED <<published, day, due>>
        BY <1>2, <2>1, CodeInHand DEF Fetch, Fetching, HInv
      <3>2. PICK found \in SUBSET Days :
              batch' = [batch EXCEPT ![r].pc = "store", ![r].found = found]
        BY <2>1, <3>1 DEF Fetch
      <3> DEFINE new == [batch[r] EXCEPT !.pc = "store", !.found = found]
      <3>3. /\ new \in BatchType /\ new.pc = "store" /\ new.code = batch[r].code
            /\ new.todo = batch[r].todo /\ new.asked = batch[r].asked
            /\ new.from = batch[r].from /\ new.to = batch[r].to
            /\ new.answer = batch[r].answer /\ new.asOf = batch[r].asOf
        BY <1>2, <3>2 DEF BatchType
      <3>4. batch' = [batch EXCEPT ![r] = new]
        BY <1>2, <3>2
      <3> HIDE DEF new
      <3>5. QED
        BY <3>1, <3>3, <3>4
    <2>2. ASSUME NEW c \in Codes, Cover(r, c), batch'[r].pc = "fetch"
          PROVE  \E new \in BatchType :
          /\ batch' = [batch EXCEPT ![r] = new]
          /\ batch[r].pc \in {"codes", "fetch"} /\ new.pc \in {"fetch", "store"}
          /\ new.todo = batch[r].todo /\ new.answer = batch[r].answer
          /\ new.asked = batch[r].asked /\ new.from = batch[r].from /\ new.to = batch[r].to
          /\ \/ Fetching(r) /\ new.code = batch[r].code /\ new.asOf = batch[r].asOf
             \/ new.code \in Codes /\ batch[r].pc = "codes" /\ new.asOf = day
          /\ UNCHANGED <<published, day, due>>
      <3>1. batch' # Answered(r, c, "skipped")
        <4>1. Answered(r, c, "skipped")[r].pc = "codes"
          BY <1>2, ReplyType, AnsweredIsReply DEF HInv, Answers
        <4>2. QED
          BY <2>2, <4>1
      <3>2. /\ batch[r].pc = "codes" /\ UNCHANGED <<published, day, due>>
            /\ batch' = [batch EXCEPT ![r].pc = "fetch", ![r].code = c, ![r].asOf = day]
        BY <2>2, <3>1 DEF Cover
      <3> DEFINE new == [batch[r] EXCEPT !.pc = "fetch", !.code = c, !.asOf = day]
      <3>3. /\ new \in BatchType /\ new.pc = "fetch" /\ new.code = c
            /\ new.todo = batch[r].todo /\ new.asked = batch[r].asked /\ new.asOf = day
            /\ new.answer = batch[r].answer /\ new.from = batch[r].from /\ new.to = batch[r].to
        BY <1>2 DEF BatchType
      <3>4. batch' = [batch EXCEPT ![r] = new]
        BY <1>2, <3>2
      <3> HIDE DEF new
      <3>5. QED
        BY <3>2, <3>3, <3>4
    <2>3. QED
      BY <2>1, <2>2 DEF GoOn
  <1>4. batch'[r] = new /\ \A x \in Runs \ {r} : batch'[x] = batch[x]
    BY <1>2, <1>3, RunIsBatch
  <1>5. UNCHANGED <<registry, thread, active, view, reply, overdue, guessed>> /\ Sent' = Sent
    BY <1>1 DEF progress, ghosts, Sent
  <1>6. Coupled(r)'
    <2>1. ~ Asleep(r)
      <3>1. Idle.pc = "idle"
        BY DEF Idle
      <3>2. QED
        BY <1>3, <3>1 DEF SInv, Coupled
    <2>2. ~ Asleep(r)' /\ \A o \in Answers : Unmarked(r, o)' = Unmarked(r, o)
      BY <1>5, <2>1 DEF Asleep, Unmarked, At
    <2>3. QED
      BY <1>3, <1>4, <1>5, <2>2, CoupledKept DEF SInv
  <1>7. Owed(r)'
    <2> SUFFICES ASSUME NEW c \in Codes
                 PROVE  /\ \A d \in overdue[r][c] : d \in published[c] /\ d < day
                        /\ overdue[r][c] \subseteq new.from .. new.to
                        /\ new.code = c => \A d \in overdue[r][c] : d < new.asOf
                        /\ c \in DOMAIN new.answer /\ new.answer[c] # "failed" /\ c \notin guessed[r] =>
                             overdue[r][c] \subseteq due[c]
      BY <1>3, <1>4, <1>5 DEF Owed, Fetching
    <2>1. /\ \A d \in overdue[r][c] : d \in published[c] /\ d < day
          /\ overdue[r][c] \subseteq batch[r].from .. batch[r].to
          /\ Fetching(r) /\ batch[r].code = c =>
               \A d \in overdue[r][c] : d < batch[r].asOf
          /\ c \in DOMAIN batch[r].answer /\ batch[r].answer[c] # "failed" /\ c \notin guessed[r] =>
               overdue[r][c] \subseteq due[c]
      BY <1>3 DEF SInv, Owed
    <2>2. QED
      BY <1>3, <2>1
  <1>8. Card'
    BY <1>3, <1>4, <1>5, CardKept
  <1>9. SyncedTyped'
    BY <1>5 DEF SInv, SyncedTyped
  <1>10. QED
    BY <1>1, <1>4, <1>5, <1>6, <1>7, <1>8, <1>9, SInvOwn

LEMMA SInvBeginRun ==
  ASSUME SInv, NEW r \in Runs, BeginRun(r)
  PROVE  SInv'
  <1>1. /\ thread[r].pc = "queued" /\ [SyncedNext]_synced
        /\ UNCHANGED <<guessed, page, published, day, due>>
    BY DEF BeginRun, Begin, StartManual, At, SyncedNext
  <1>2. /\ DOMAIN registry = Runs /\ DOMAIN thread = Runs /\ thread[r] \in Batch(Total[r])
        /\ batch \in [Batches -> BatchType] /\ r \in Batches /\ \A x \in Runs : x \in Batches
        /\ published \in [Codes -> SUBSET Days] /\ day \in Days
    BY RunFacts, RunIsBatch DEF SInv, HInv, TypeOK, WorldOK
  <1>3. PICK w \in Windows, codes \in (SUBSET Codes) \ {{}} :
          batch' = [batch EXCEPT ![r] = Started(w[1], w[2], codes)]
    BY DEF BeginRun, StartManual
  <1> DEFINE new == Started(w[1], w[2], codes)
  <1>4. w[1] \in Days /\ w[2] \in Days
    BY HistoryAssumption
  <1>5. new \in BatchType /\ new.asked = codes /\ DOMAIN new.answer = {} /\ new.pc = "codes"
    BY <1>4, StartedType
  <1>6. batch'[r] = new /\ \A x \in Runs \ {r} : batch'[x] = batch[x]
    BY <1>2, <1>3
  <1> HIDE DEF new
  <1>7. /\ registry'[r] = {[status |-> "running", completed |-> 0, synced |-> 0,
                            skipped |-> 0, failed |-> 0]}
        /\ thread'[r].pc = "codes"
        /\ \A x \in Runs \ {r} : registry'[x] = registry[x] /\ thread'[x] = thread[x]
    BY <1>2 DEF BeginRun, Begin, Update, Batch
  <1>8. Coupled(r)'
    <2>1. \A o \in Answers : AnsweredAs(r, o)' = {}
      BY <1>5, <1>6 DEF AnsweredAs
    <2>2. \A o \in Answers : Tally(r, o)' = 0
      BY <2>1, FS_EmptySet DEF Tally
    <2>3. ~ Asleep(r)' /\ \A o \in Answers : Unmarked(r, o)' = 0
      BY <1>7 DEF Asleep, Unmarked, At
    <2>4. \A e \in registry'[r], o \in Answers : e[o] = 0 /\ e.status = "running"
      BY <1>7 DEF Answers
    <2>5. \A e \in registry'[r] : /\ \A o \in Answers : e[o] + Unmarked(r, o)' = Tally(r, o)'
                                  /\ e.status = "completed" => batch'[r].pc = "done"
      BY <2>2, <2>3, <2>4 DEF Answers
    <2>6. QED
      BY <1>5, <1>6, <2>3, <2>5 DEF Coupled
  <1>9. overdue' = [overdue EXCEPT ![r] =
          [c \in Codes |-> {d \in published[c] \cap (new.from .. new.to) : d < day}]]
    BY <1>6 DEF BeginRun
  <1>10. SyncedTyped'
    <2>1. [c \in Codes |-> {d \in published[c] \cap (new.from .. new.to) : d < day}]
            \in [Codes -> SUBSET Days]
      BY <1>2
    <2>2. QED
      BY <1>1, <1>9, <2>1 DEF SInv, SyncedTyped
  <1>11. /\ \A c \in Codes : overdue'[r][c] = {d \in published[c] \cap (new.from .. new.to) : d < day}
         /\ \A x \in Runs \ {r} : overdue'[x] = overdue[x]
    BY <1>9 DEF SInv, SyncedTyped
  <1>12. Owed(r)'
    BY <1>1, <1>5, <1>6, <1>11 DEF Owed, Fetching
  <1>13. Card'
    <2>1. active' = active /\ Sent' = Sent
      BY <1>1 DEF page, Sent
    <2>2. CASE active = r
      <3>1. Sent = {}
        BY <1>1, <2>2 DEF SInv, PInv, Followed
      <3>2. QED
        BY <2>1, <3>1 DEF Card
    <2>3. CASE active # r
      <3>1. SUFFICES ASSUME NEW e \in Sent PROVE (batch[active])' = batch[active]
        <4>1. ASSUME Sent # {} PROVE Card'
          <5>1. (batch[active])' = batch[active]
            BY <3>1, <4>1
          <5>2. \A o \in Answers : Tally(active, o)' = Tally(active, o)
            BY <2>1, <5>1 DEF Tally, AnsweredAs
          <5>3. Card
            BY DEF SInv
          <5>4. QED
            BY <2>1, <5>1, <5>2, <5>3 DEF Card
        <4>2. QED
          BY <2>1, <4>1 DEF Card
      <3>2. active \in Runs
        BY DEF SInv, PInv, ProgressTypeOK, Sent
      <3>3. QED
        BY <1>6, <2>1, <2>3, <3>2
    <2>4. QED
      BY <2>2, <2>3
  <1>14. QED
    BY <1>1, <1>6, <1>7, <1>8, <1>10, <1>11, <1>12, <1>13, SInvOwn

\* What an answer leaves of the record.
LEMMA ReplyKeeps ==
  ASSUME NEW old \in BatchType, NEW c \in Codes, NEW a \in Answers
  PROVE  /\ Reply(old, c, a).from = old.from /\ Reply(old, c, a).to = old.to
         /\ \A x \in DOMAIN old.answer \cup {c} :
              Reply(old, c, a).answer[x] = IF x = c THEN a ELSE old.answer[x]
  BY DEF Reply, BatchType

\* An answer, and what it vouches for: the code failed, was guessed, or is owed
\* nothing more.
LEMMA AnswerOf ==
  ASSUME SInv, NEW r \in Runs, NEW c \in Codes, AnswerCode(r, c)
  PROVE  /\ c \in batch[r].todo /\ batch[r].pc \in {"codes", "fetch", "store"}
         /\ UNCHANGED <<published, day>>
         /\ overdue' \in [Runs -> [Codes -> SUBSET Days]]
         /\ \A x \in Runs : /\ x # r => overdue'[x] = overdue[x]
                            /\ \A y \in Codes : overdue'[x][y] \subseteq overdue[x][y]
         /\ guessed' \in [Runs -> SUBSET Codes]
         /\ \A x \in Runs : guessed[x] \subseteq guessed'[x] /\ (x # r => guessed'[x] = guessed[x])
         /\ \E a \in Answers :
              /\ batch' = [batch EXCEPT ![r] = Reply(batch[r], c, a)]
              /\ a # "failed" /\ c \notin guessed'[r] => overdue'[r][c] \subseteq due'[c]
  <1>1. /\ HInv /\ TypeOK /\ r \in Batches /\ batch[r] \in BatchType
        /\ due \in [Codes -> SUBSET Days] /\ calendar # "error"
        /\ guessed \in [Runs -> SUBSET Codes] /\ overdue \in [Runs -> [Codes -> SUBSET Days]]
    BY RunIsBatch DEF SInv, HInv, TypeOK, WorldOK, SyncedTyped
  <1>2. Owed(r)
    BY DEF SInv
  <1>3. batch'[r].pc = "codes"
    BY DEF AnswerCode
  <1>4. CASE /\ Cover(r, c) /\ UNCHANGED overdue
             /\ guessed' = [guessed EXCEPT ![r] = IF calendar' = "unknown" THEN @ \cup {c} ELSE @]
    <2> DEFINE all == published[c] \cap (batch[r].from .. batch[r].to)
    <2>1. batch' # [batch EXCEPT ![r].pc = "fetch", ![r].code = c, ![r].asOf = day]
      BY <1>1, <1>3 DEF TypeOK, BatchType
    <2>2. PICK cal \in Consulted \cup {calendar} :
            /\ calendar' = Cached(cal)
            /\ batch' = Answered(r, c, "skipped")
            /\ IF cal = "error" THEN UNCHANGED <<due, served>> ELSE Vouch(r, c, all, day)
      BY <1>4, <2>1 DEF Cover
    <2>3. /\ c \in batch[r].todo /\ batch[r].pc = "codes" /\ UNCHANGED <<published, day>>
      BY <1>4 DEF Cover
    <2>4. batch' = [batch EXCEPT ![r] = Reply(batch[r], c, "skipped")]
      BY <1>1, <2>2, AnsweredIsReply DEF Answers
    <2>5. cal = "error" => c \in guessed'[r]
      BY <1>1, <1>4, <2>2 DEF Consulted, Cached
    <2>6. cal # "error" => overdue[r][c] \subseteq due'[c]
      <3>1. \A d \in overdue[r][c] : d \in all /\ d < day
        BY <1>2, <2>3 DEF Owed
      <3> HIDE DEF all
      <3>2. cal # "error" => {d \in all : d < day} \subseteq due'[c]
        BY <1>1, <2>2 DEF Vouch
      <3>3. QED
        BY <3>1, <3>2
    <2>7. guessed' \in [Runs -> SUBSET Codes]
          /\ \A x \in Runs : guessed[x] \subseteq guessed'[x] /\ (x # r => guessed'[x] = guessed[x])
      BY <1>1, <1>4
    <2>8. QED
      BY <1>1, <1>4, <2>3, <2>4, <2>5, <2>6, <2>7 DEF Answers
  <1>5. CASE /\ Store(r) /\ c = batch[r].code /\ UNCHANGED guessed
             /\ overdue' = [overdue EXCEPT ![r][c] = @ \cap batch[r].found]
    <2> DEFINE a == IF batch[r].found \ bars[c] = {} THEN "skipped" ELSE "synced"
    <2>1. /\ batch[r].pc = "store" /\ Fetching(r) /\ batch' = Answered(r, c, a)
          /\ Vouch(r, c, batch[r].found, batch[r].asOf) /\ UNCHANGED <<published, day>>
      BY <1>5 DEF Store, Fetching
    <2>2. a \in Answers
      BY DEF Answers
    <2> HIDE DEF a
    <2>3. batch' = [batch EXCEPT ![r] = Reply(batch[r], c, a)] /\ c \in batch[r].todo
      BY <1>1, <1>5, <2>1, <2>2, AnsweredIsReply, CodeInHand
    <2>4. \A d \in overdue'[r][c] : d \in batch[r].found /\ d < batch[r].asOf
      BY <1>1, <1>2, <1>5, <2>1 DEF Owed
    <2>5. {d \in batch[r].found : d < batch[r].asOf} \subseteq due'[c]
      BY <1>1, <2>1 DEF Vouch
    <2>6. overdue'[r][c] \subseteq due'[c]
      BY <2>4, <2>5
    <2>7. /\ overdue' \in [Runs -> [Codes -> SUBSET Days]]
          /\ \A x \in Runs : /\ x # r => overdue'[x] = overdue[x]
                             /\ \A y \in Codes : overdue'[x][y] \subseteq overdue[x][y]
      BY <1>1, <1>5
    <2>8. QED
      BY <1>1, <1>5, <2>1, <2>2, <2>3, <2>6, <2>7
  <1>6. CASE Fail(r, c) /\ UNCHANGED ghosts
    <2>1. batch' = Answered(r, c, "failed") /\ UNCHANGED <<published, day>> /\ AtCode(r, c)
      BY <1>6 DEF Fail
    <2>2. c \in batch[r].todo /\ batch[r].pc \in {"codes", "fetch", "store"}
      BY <1>1, <2>1, CodeInHand DEF AtCode, Fetching
    <2>3. batch' = [batch EXCEPT ![r] = Reply(batch[r], c, "failed")]
      BY <1>1, <2>1, AnsweredIsReply DEF Answers
    <2>4. QED
      BY <1>1, <1>6, <2>1, <2>2, <2>3 DEF Answers, ghosts
  <1>7. QED
    BY <1>4, <1>5, <1>6 DEF AnswerCode

(* One code more is answered.                                               *)
LEMMA TallyOfReply ==
  ASSUME SInv, NEW r \in Runs, NEW c \in batch[r].todo, c \in Codes, NEW a \in Answers,
         batch'[r] = Reply(batch[r], c, a)
  PROVE  \A o \in Answers : Tally(r, o)' = Tally(r, o) + (IF o = a THEN 1 ELSE 0)
  <1> SUFFICES ASSUME NEW o \in Answers
               PROVE  Tally(r, o)' = Tally(r, o) + (IF o = a THEN 1 ELSE 0)
    OBVIOUS
  <1>1. batch[r] \in BatchType /\ c \notin DOMAIN batch[r].answer
    BY RunIsBatch DEF SInv, HInv, TypeOK, Coupled
  <1>2. /\ DOMAIN batch'[r].answer = DOMAIN batch[r].answer \cup {c}
        /\ \A x \in DOMAIN batch[r].answer \cup {c} :
             batch'[r].answer[x] = IF x = c THEN a ELSE batch[r].answer[x]
    BY <1>1, ReplyType, ReplyKeeps
  <1>3. AnsweredAs(r, o)' = IF o = a THEN AnsweredAs(r, o) \cup {c} ELSE AnsweredAs(r, o)
    BY <1>1, <1>2 DEF AnsweredAs
  <1>4. c \notin AnsweredAs(r, o)
    BY <1>1 DEF AnsweredAs
  <1>5. IsFiniteSet(AnsweredAs(r, o)) /\ Tally(r, o) \in Nat
    BY TallyType DEF SInv
  <1>6. Cardinality(AnsweredAs(r, o) \cup {c}) = Cardinality(AnsweredAs(r, o)) + 1
    BY <1>4, <1>5, FS_AddElement
  <1>7. QED
    BY <1>3, <1>5, <1>6 DEF Tally

LEMMA SInvWorkOn ==
  ASSUME SInv, NEW r \in Runs, WorkOn(r)
  PROVE  SInv'
  <1>1. PICK c \in Codes : AnswerCode(r, c) /\ thread'[r].outcome = batch'[r].answer[c]
    BY DEF WorkOn, MarkedAs
  <1>2. PICK a \in Answers :
          /\ batch' = [batch EXCEPT ![r] = Reply(batch[r], c, a)]
          /\ a # "failed" /\ c \notin guessed'[r] => overdue'[r][c] \subseteq due'[c]
    BY <1>1, AnswerOf
  <1>3. /\ c \in batch[r].todo /\ batch[r].pc \in {"codes", "fetch", "store"}
        /\ UNCHANGED <<published, day>>
        /\ overdue' \in [Runs -> [Codes -> SUBSET Days]]
        /\ \A x \in Runs : /\ x # r => overdue'[x] = overdue[x]
                           /\ \A y \in Codes : overdue'[x][y] \subseteq overdue[x][y]
        /\ guessed' \in [Runs -> SUBSET Codes]
        /\ \A x \in Runs : guessed[x] \subseteq guessed'[x] /\ (x # r => guessed'[x] = guessed[x])
    BY <1>1, AnswerOf
  <1>4. batch \in [Batches -> BatchType] /\ \A x \in Runs : x \in Batches
    BY RunIsBatch DEF SInv, HInv, TypeOK
  <1>5. batch'[r] = Reply(batch[r], c, a) /\ \A x \in Runs \ {r} : batch'[x] = batch[x]
    BY <1>2, <1>4
  <1>6. /\ DOMAIN thread = Runs /\ thread[r] \in Batch(Total[r])
    BY RunFacts DEF SInv
  <1>7. /\ thread[r].pc = "codes" /\ thread'[r].pc = "mark"
        /\ \A x \in Runs \ {r} : thread'[x] = thread[x]
        /\ UNCHANGED <<registry, page>>
    BY <1>6 DEF WorkOn, Work, At, Batch
  <1>8. /\ batch'[r].pc = "codes" /\ batch'[r].todo = batch[r].todo \ {c}
        /\ batch'[r].asked = batch[r].asked
        /\ DOMAIN batch'[r].answer = DOMAIN batch[r].answer \cup {c}
        /\ batch'[r].from = batch[r].from /\ batch'[r].to = batch[r].to
        /\ \A x \in DOMAIN batch[r].answer \cup {c} :
             batch'[r].answer[x] = IF x = c THEN a ELSE batch[r].answer[x]
    BY <1>4, <1>5, ReplyType, ReplyKeeps
  <1>9. thread'[r].outcome = a
    BY <1>1, <1>8
  <1>10. \A o \in Answers : /\ Tally(r, o)' = Tally(r, o) + (IF o = a THEN 1 ELSE 0)
                            /\ Tally(r, o) \in Nat
    BY <1>3, <1>5, TallyOfReply, TallyType DEF SInv
  <1>11. Coupled(r)'
    <2>1. ~ Asleep(r)' /\ \A o \in Answers : /\ Unmarked(r, o) = 0
                                             /\ Unmarked(r, o)' = IF o = a THEN 1 ELSE 0
      BY <1>7, <1>9 DEF Asleep, Unmarked, At
    <2>2. \A e \in registry[r], o \in Answers : e[o] + Unmarked(r, o) = Tally(r, o)
      BY DEF SInv, Coupled
    <2>3. \A e \in registry[r], o \in Answers : e[o] \in Nat
      BY RunFacts DEF SInv, Entry, Answers
    <2>4. \A e \in registry[r], o \in Answers : e[o] + Unmarked(r, o)' = Tally(r, o)'
      BY <1>10, <2>1, <2>2, <2>3
    <2>5. \A e \in registry[r] : e.status = "running"
      BY <1>7 DEF SInv, PInv, Registered
    <2>6. batch'[r].todo \cap DOMAIN batch'[r].answer = {}
      BY <1>8 DEF SInv, Coupled
    <2>7. \A e \in registry'[r] : /\ \A o \in Answers : e[o] + Unmarked(r, o)' = Tally(r, o)'
                                  /\ e.status = "completed" => batch'[r].pc = "done"
      BY <1>7, <2>4, <2>5
    <2>8. QED
      BY <2>1, <2>6, <2>7 DEF Coupled
  <1>12. Owed(r)'
    <2> SUFFICES ASSUME NEW x \in Codes
                 PROVE  /\ \A d \in overdue'[r][x] : d \in published[x] /\ d < day
                        /\ overdue'[r][x] \subseteq batch[r].from .. batch[r].to
                        /\ /\ x \in DOMAIN batch[r].answer \cup {c}
                           /\ batch'[r].answer[x] # "failed" /\ x \notin guessed'[r]
                           => overdue'[r][x] \subseteq due'[x]
      BY <1>3, <1>8 DEF Owed, Fetching
    <2>1. /\ \A d \in overdue[r][x] : d \in published[x] /\ d < day
          /\ overdue[r][x] \subseteq batch[r].from .. batch[r].to
          /\ x \in DOMAIN batch[r].answer /\ batch[r].answer[x] # "failed" /\ x \notin guessed[r] =>
               overdue[r][x] \subseteq due[x]
      BY <1>3 DEF SInv, Owed
    <2>2. due[x] \subseteq due'[x]
      <3>1. [SyncedNext]_synced
        BY DEF SyncedNext
      <3>2. QED
        BY <3>1, StepOfHistory, WorldForward DEF SInv
    <2>3. QED
      BY <1>2, <1>3, <1>8, <2>1, <2>2
  <1>13. Card'
    <2>1. Sent' = Sent /\ active' = active
      BY <1>7 DEF page, Sent
    <2> SUFFICES ASSUME NEW e \in Sent, batch'[active].asked # {}, NEW o \in Answers
                 PROVE  /\ e[o] =< Tally(active, o)'
                        /\ e.status = "completed" =>
                             batch'[active].pc = "done" /\ e[o] = Tally(active, o)'
      BY <2>1 DEF Card
    <2>2. active \in Runs
      BY DEF SInv, PInv, ProgressTypeOK, Sent
    <2>3. batch[active].asked # {}
      BY <1>5, <1>8, <2>2
    <2>4. /\ e[o] =< Tally(active, o)
          /\ e.status = "completed" => batch[active].pc = "done" /\ e[o] = Tally(active, o)
      BY <2>3 DEF SInv, Card
    <2>5. CASE active = r
      <3>1. e[o] \in Nat
        BY <2>2 DEF SInv, PInv, ProgressTypeOK, Sent, Entry, Answers
      <3>2. Tally(active, o)' = Tally(r, o) + (IF o = a THEN 1 ELSE 0)
        BY <1>10, <2>1, <2>5 DEF Tally
      <3>3. QED
        BY <1>3, <1>10, <2>4, <2>5, <3>1, <3>2
    <2>6. CASE active # r
      <3>1. batch'[active] = batch[active]
        BY <1>5, <2>2, <2>6
      <3>2. Tally(active, o)' = Tally(active, o)
        BY <2>1, <3>1 DEF Tally, AnsweredAs
      <3>3. QED
        BY <2>4, <3>1, <3>2
    <2>7. QED
      BY <2>5, <2>6
  <1>14. SyncedTyped' /\ [SyncedNext]_synced
    BY <1>3 DEF SInv, SyncedTyped, SyncedNext
  <1>15. QED
    BY <1>3, <1>5, <1>7, <1>11, <1>12, <1>13, <1>14, SInvOwn

LEMMA SInvCompleteRun ==
  ASSUME SInv, NEW r \in Runs, CompleteRun(r)
  PROVE  SInv'
  <1> DEFINE new == [Idle EXCEPT !.pc = "done", !.asked = batch[r].asked,
                                 !.answer = batch[r].answer]
  <1>1. /\ batch' = [batch EXCEPT ![r] = new] /\ batch[r].pc = "codes" /\ thread[r].pc = "codes"
        /\ UNCHANGED <<page, ghosts, published, day, due>> /\ [SyncedNext]_synced
    BY DEF CompleteRun, Complete, Finish, At, SyncedNext
  <1>2. /\ batch \in [Batches -> BatchType] /\ \A x \in Runs : x \in Batches
        /\ DOMAIN registry = Runs /\ DOMAIN thread = Runs
    BY RunFacts, RunIsBatch DEF SInv, HInv, TypeOK
  <1>3. /\ new.pc = "done" /\ new.asked = batch[r].asked /\ new.answer = batch[r].answer
        /\ new.todo = {}
    BY DEF Idle
  <1> HIDE DEF new
  <1>4. batch'[r] = new /\ \A x \in Runs \ {r} : batch'[x] = batch[x]
    BY <1>1, <1>2
  <1>5. /\ registry'[r] = {Closed(e, "completed") : e \in registry[r]}
        /\ thread'[r].pc = "ended"
        /\ \A x \in Runs \ {r} : registry'[x] = registry[x] /\ thread'[x] = thread[x]
    BY <1>2 DEF CompleteRun, Complete, Update, Over, NoBatch
  <1>6. Coupled(r)'
    <2>1. \A o \in Answers : Unmarked(r, o) = 0 /\ Unmarked(r, o)' = 0
      BY <1>1, <1>5 DEF Unmarked, At
    <2>2. \A o \in Answers : Tally(r, o)' = Tally(r, o)
      BY <1>3, <1>4 DEF Tally, AnsweredAs
    <2>3. \A e \in registry[r], o \in Answers : Closed(e, "completed")[o] = e[o]
      BY RunFacts DEF SInv, Entry, Closed, Answers
    <2>4. \A e \in registry[r], o \in Answers : e[o] + Unmarked(r, o) = Tally(r, o)
      BY DEF SInv, Coupled
    <2>5. \A e \in registry'[r] : /\ \A o \in Answers : e[o] + Unmarked(r, o)' = Tally(r, o)'
                                  /\ e.status = "completed" => batch'[r].pc = "done"
      BY <1>3, <1>4, <1>5, <2>1, <2>2, <2>3, <2>4
    <2>6. ~ Asleep(r)' /\ batch'[r].todo \cap DOMAIN batch'[r].answer = {}
      BY <1>3, <1>4, <1>5 DEF Asleep
    <2>7. QED
      BY <2>5, <2>6 DEF Coupled
  <1>7. Owed(r)'
    BY <1>1, <1>3, <1>4 DEF SInv, Owed, Fetching, ghosts
  <1>8. Card'
    <2>1. Sent' = Sent /\ active' = active
      BY <1>1 DEF page, Sent
    <2>2. QED
      BY <1>3, <1>4, <2>1, CardKept
  <1>9. SyncedTyped'
    BY <1>1 DEF SInv, SyncedTyped, ghosts
  <1>10. UNCHANGED <<overdue, guessed>>
    BY <1>1 DEF ghosts
  <1>11. QED
    BY <1>1, <1>4, <1>5, <1>6, <1>7, <1>8, <1>9, <1>10, SInvOwn

LEMMA SInvRestartProcess ==
  ASSUME SInv, RestartProcess
  PROVE  SInv'
  <1> DEFINE Stopped == [Idle EXCEPT !.pc = "done"]
  <1>1. /\ UNCHANGED <<page, ghosts, published, day, due>> /\ [SyncedNext]_synced
        /\ registry' = Empty
        /\ thread' = [r \in Runs |-> IF Working(r) THEN Over ELSE thread[r]]
    BY DEF RestartProcess, Restart, RestartServer, SyncedNext
  <1>2. /\ Stopped.asked = {} /\ Stopped.todo = {} /\ DOMAIN Stopped.answer = {}
        /\ Stopped.pc = "done"
    BY DEF Idle
  <1>3. \A r \in Runs : \/ batch'[r] = batch[r]
                        \/ batch[r].pc # "idle" /\ batch'[r] = Stopped
    BY RunIsBatch DEF RestartProcess, Restart
  <1> HIDE DEF Stopped
  <1>4. ASSUME NEW r \in Runs
        PROVE  Coupled(r)'
    <2>1. Asleep(r)' => Asleep(r) /\ thread[r].pc = "none"
      BY <1>1 DEF Asleep, Working, Over, NoBatch
    <2>2. Idle.pc = "idle" /\ Idle.todo = {}
      BY DEF Idle
    <2>3. registry'[r] = {}
      BY <1>1 DEF Empty
    <2>4. Coupled(r)
      BY DEF SInv
    <2>5. Asleep(r)' => batch'[r] = Idle
      BY <1>3, <2>1, <2>2, <2>4 DEF Coupled
    <2>6. batch'[r].todo \cap DOMAIN batch'[r].answer = {}
      BY <1>2, <1>3, <2>4 DEF Coupled
    <2>7. QED
      BY <2>3, <2>5, <2>6 DEF Coupled
  <1>5. ASSUME NEW r \in Runs
        PROVE  Owed(r)'
    <2>1. CASE batch'[r] = batch[r]
      BY <1>1, <2>1, StepOfHistory, OwedKept DEF SInv, ghosts
    <2>2. CASE batch'[r] = Stopped
      BY <1>1, <1>2, <2>2 DEF SInv, Owed, Fetching, ghosts
    <2>3. QED
      BY <1>3, <2>1, <2>2
  <1>6. Card'
    <2>1. Sent' = Sent /\ active' = active
      BY <1>1 DEF page, Sent
    <2>2. QED
      BY <1>2, <1>3, <2>1, CardKept
  <1>7. SyncedTyped'
    BY <1>1 DEF SInv, SyncedTyped, ghosts
  <1>8. HInv' /\ PInv'
    BY <1>1, StepOfHistory, StepOfProgress, HInvStep, PInvStep DEF SInv
  <1>9. QED
    BY <1>4, <1>5, <1>6, <1>7, <1>8 DEF SInv

LEMMA SInvStep == SInv /\ [SyncedNext]_synced => SInv'
  <1> SUFFICES ASSUME SInv, [SyncedNext]_synced
               PROVE  SInv'
    OBVIOUS
  <1>1. ASSUME NEW r \in Runs,
               StartRun(r) \/ BeginRun(r) \/ GoOn(r) \/ WorkOn(r) \/ CompleteRun(r) \/ Aside(r)
        PROVE  SInv'
    BY <1>1, SInvStartRun, SInvBeginRun, SInvGoOn, SInvWorkOn, SInvCompleteRun, SInvAside
  <1>2. CASE OnPage \/ Elsewhere \/ RestartProcess
    BY <1>2, SInvOnPage, SInvElsewhere, SInvRestartProcess
  <1>3. CASE UNCHANGED synced
    <2>1. /\ UNCHANGED ghosts /\ Sent' = Sent
          /\ UNCHANGED <<batch, registry, thread, active>>
      BY <1>3 DEF synced, vars, progress, Sent
    <2>2. QED
      BY <2>1, SInvThreadsKept
  <1>4. QED
    BY <1>1, <1>2, <1>3 DEF SyncedNext

LEMMA SyncedInvariant == SyncedSpec => []SInv
  BY SInvInit, SInvStep, PTL DEF SyncedSpec

(* The card of a run, once it shows its end, has the numbers of codes that *)
(* the batch answered each way, and never more before: for any codes, runs *)
(* and restarts, and whatever polls are lost.                               *)
THEOREM SyncedCountsAreAnswers == SyncedSpec => []CountsAreAnswers
  <1>1. SInv => CountsAreAnswers
    BY DEF SInv, Card, Sent, CountsAreAnswers, Tally
  <1>2. QED
    BY <1>1, SyncedInvariant, PTL

(* A card that reads completed without a failure vouches for the database:  *)
(* its counts say that no code failed, each code answered otherwise has     *)
(* what the batch vouched for, and the batch vouched for what was overdue,  *)
(* but for what the exchange left out of its answer.                        *)
THEOREM SyncedShownIsStored == SyncedSpec => []ShownIsStored
  <1>1. SInv => ShownIsStored
    <2> SUFFICES ASSUME SInv, NEW e \in view, e.status = "completed", e.failed = 0,
                        NEW c \in batch[active].asked \ guessed[active]
                 PROVE  overdue[active][c] \subseteq bars[c]
      BY DEF ShownIsStored
    <2>1. active \in Runs /\ e \in Sent
      BY DEF SInv, PInv, ProgressTypeOK, Sent
    <2>2. "failed" \in Answers
      BY DEF Answers
    <2>3. batch[active].pc = "done" /\ Tally(active, "failed") = 0
      BY <2>1, <2>2 DEF SInv, Card
    <2>4. AnsweredAs(active, "failed") = {}
      BY <2>1, <2>3, TallyType, FS_EmptySet DEF SInv, Tally
    <2>5. c \in DOMAIN batch[active].answer /\ batch[active].answer[c] # "failed"
      <3>1. batch[active].asked = DOMAIN batch[active].answer
        BY <2>1, <2>3, RunIsBatch DEF SInv, HInv, Accounted
      <3>2. QED
        BY <2>4, <3>1 DEF AnsweredAs
    <2>6. c \in Codes
      BY <2>1, <2>5, RunIsBatch DEF SInv, HInv, TypeOK, BatchType
    <2>7. overdue[active][c] \subseteq due[c]
      BY <2>1, <2>5, <2>6 DEF SInv, Owed
    <2>8. QED
      BY <2>6, <2>7 DEF SInv, HInv, NothingOverdue
  <1>2. QED
    BY <1>1, SyncedInvariant, PTL
================================================================================
