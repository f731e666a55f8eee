---------------------------- MODULE WorkspaceProofs ----------------------------
(***************************************************************************)
(* The rows of the workspace stay whole for any number of requests, on     *)
(* both databases.                                                         *)
(*                                                                         *)
(* UniqueRows is not inductive: a commit stores keys that were free when   *)
(* they were flushed.  They still are, because a session has locked every  *)
(* key it has pending (Held), no two sessions have locked the same         *)
(* (LocksApart), and what is pending is not taken (Fresh).                 *)
(*                                                                         *)
(* That a committed request has left all it was asked for (AllOfCommitted) *)
(* is a second invariant over the first: before it commits, every row is   *)
(* stored, among its writes or still to come (Complete).                   *)
(***************************************************************************)
EXTENDS Workspace, TLAPS

(* Where the transaction of a session is over, its answer given or not.    *)
Ended == {"answer", "ok", "refused", "error", "lost"}

(* Where a session has written nothing yet.                                *)
CleanPlaces ==
  {"idle", "locate", "find", "identify", "insertUser", "look", "upsert", "insertConfig", "updateConfig",
   "remove"} \cup Ended

Places == CleanPlaces \cup {"adopt", "stock", "insertStock", "save", "check", "insertItem", "commit"}

(* The unique keys a session has written and not committed.                *)
Pending(r) ==
  txn[r].insert \cup {Name(k, txn[r].identity[k]) : k \in {n \in Names : txn[r].identity[n] # Keep}}

(* The user of session r is not committed.                                 *)
New(r) == loc[r].user \notin DOMAIN users \cup {NoUser}

Shape(r) ==
  /\ pc[r] \in Places
  /\ IF pc[r] = "idle" THEN op[r] = [kind |-> "none"] ELSE op[r] \in Operations
  /\ DOMAIN loc[r] = {"user", "seen", "todo"}
  /\ loc[r].user \in Nat \cup {NoUser}
  /\ loc[r].todo \in Seq(Codes)
  /\ DOMAIN txn[r] = {"identity", "settings", "insert", "delete"}
  /\ DOMAIN txn[r].identity = Names
  /\ DOMAIN txn[r].settings = Columns
  /\ pc[r] \in CleanPlaces => txn[r] = NoWrites /\ locks[r] = {}

Held(r) == \A k \in Pending(r) : Wanted({k}) \subseteq locks[r]

Fresh(r) == Pending(r) \cap Taken(r) = {}

(* A user that is not committed will be stored with both names and an      *)
(* account, under the next id (SQLite) or one the sequence has given out.  *)
NewUser(r) ==
  New(r) =>
    /\ loc[r].user # 0
    /\ \A k \in Names : txn[r].identity[k] # Keep
    /\ Account(loc[r].user) \in txn[r].insert
    /\ engine = "sqlite" => DOMAIN users = 1 .. (loc[r].user - 1) /\ <<"db">> \in locks[r]
    /\ engine = "postgres" => loc[r].user <= sequence

(* What a session writes is what it was asked.                             *)
WritesAsked(r) ==
  /\ \A k \in Names : txn[r].identity[k] # Keep =>
       /\ op[r].kind \in {"create", "bootstrap"}
       /\ txn[r].identity[k] = op[r].identity[k]
       /\ loc[r].user \in Nat
  /\ \A k \in Columns : txn[r].settings[k] # Keep =>
       /\ op[r].kind \in {"readConfig", "saveConfig"}
       /\ txn[r].settings[k] = Asked(r)[k]
       /\ loc[r].user = op[r].user
       /\ loc[r].user \in DOMAIN users
       /\ Config(loc[r].user) \in Stored \cup txn[r].insert
  /\ txn[r].delete # {} => op[r].kind = "unwatch" /\ txn[r].delete = {Item(op[r].user, op[r].code)}

(* An inserted row comes with, or after, the rows it needs.                *)
Inserts(r) ==
  \A key \in txn[r].insert :
    \/ key = Account(loc[r].user) /\ loc[r].user \in Nat
    \/ \E c \in Codes : key = Stock(c)
    \/ /\ key = Config(loc[r].user)
       /\ loc[r].user \in DOMAIN users
       /\ \A k \in Columns : txn[r].settings[k] # Keep
    \/ /\ key = Item(op[r].user, op[r].code)
       /\ op[r].user \in DOMAIN users
       /\ Stock(op[r].code) \in Stored \cup txn[r].insert

Place(r) ==
  /\ pc[r] = "locate" => op[r].kind = "bootstrap"
  /\ pc[r] \in {"locate", "find", "identify", "insertUser"} => loc[r].user = NoUser
  /\ pc[r] = "adopt" => op[r].kind = "bootstrap" /\ loc[r].user \in Nat
  /\ pc[r] \in {"find", "identify", "insertUser"} => op[r].kind \in {"create", "bootstrap"}
  /\ pc[r] \in {"stock", "insertStock"} => op[r].kind \in {"watch", "bootstrap", "universe"}
  /\ pc[r] \in {"stock", "insertStock"} /\ op[r].kind = "watch" => loc[r].todo = <<op[r].code>>
  /\ pc[r] = "insertStock" => loc[r].todo # <<>>
  /\ pc[r] \in {"check", "insertItem"} =>
       op[r].kind = "watch" /\ Stock(op[r].code) \in Stored \cup txn[r].insert
  /\ pc[r] = "remove" => op[r].kind = "unwatch"
  /\ pc[r] \in {"look", "upsert", "insertConfig", "updateConfig"} => op[r].kind \in {"readConfig", "saveConfig"}
  /\ pc[r] \in {"upsert", "insertConfig", "updateConfig"} =>
       loc[r].user = op[r].user /\ loc[r].user \in DOMAIN users
  /\ pc[r] = "updateConfig" => Config(loc[r].user) \in Stored
  /\ pc[r] = "save" => op[r].kind = "universe"
  /\ pc[r] # "idle" /\ op[r].kind = "universe" => \A key \in txn[r].insert : \E c \in Codes : key = Stock(c)

SessionOK(r) ==
  Shape(r) /\ Held(r) /\ Fresh(r) /\ NewUser(r) /\ WritesAsked(r) /\ Inserts(r) /\ Place(r)

(* No two sessions have locked the same, or made the same user.            *)
LocksApart == \A q, r \in Requests : q # r => locks[q] \cap locks[r] = {}
UsersApart == \A q, r \in Requests : q # r /\ New(q) /\ New(r) => loc[q].user # loc[r].user

Tables ==
  /\ engine \in Engines
  /\ sequence \in Nat
  /\ DOMAIN users \subseteq Nat \ {0}
  /\ \A u \in DOMAIN users : DOMAIN users[u] = Names
  /\ \A row \in rows : DOMAIN row = {"key", "by"} /\ row.by \in Requests \cup {Founder}
  /\ \A u \in DOMAIN settings : DOMAIN settings[u] = Columns
  /\ engine = "sqlite" => \E n \in Nat : DOMAIN users = 1 .. n
  /\ engine = "postgres" => \A u \in DOMAIN users : u <= sequence

Arrays ==
  /\ DOMAIN pc = Requests /\ DOMAIN op = Requests /\ DOMAIN loc = Requests
  /\ DOMAIN locks = Requests /\ DOMAIN txn = Requests

Inv ==
  /\ Arrays
  /\ Tables
  /\ UniqueRows
  /\ WholeWorkspaces
  /\ NothingOfFailed
  /\ LocksApart
  /\ UsersApart
  /\ \A r \in Requests : SessionOK(r)

-----------------------------------------------------------------------------
(* The keys of different tables differ.                                    *)
LEMMA KeysDiffer ==
  /\ \A k, l, v, w : Name(k, v) = Name(l, w) => k = l /\ v = w
  /\ \A k, v, u : Name(k, v) # Account(u) /\ Name(k, v) # Config(u)
  /\ \A k, v, u, c : Name(k, v) # Item(u, c) /\ Name(k, v) # Stock(c)
  /\ \A u, v : Account(u) # Config(v) /\ (Account(u) = Account(v) => u = v) /\ (Config(u) = Config(v) => u = v)
  /\ \A u, v, c : Account(u) # Item(v, c) /\ Account(u) # Stock(c) /\ Config(u) # Item(v, c) /\ Config(u) # Stock(c)
  /\ \A u, c, d : Item(u, c) # Stock(d)
  /\ \A u, v, c, d : Item(u, c) = Item(v, d) => u = v /\ c = d
  BY DEF Name, Account, Config, Item, Stock

LEMMA KeyTables ==
  /\ \A u : Account(u)[1] = "accounts" /\ Account(u)[2] = u
  /\ \A u : Config(u)[1] = "automation_configs" /\ Config(u)[2] = u
  /\ \A u, c : Item(u, c)[1] = "watchlist_items" /\ Item(u, c)[2] = u /\ Item(u, c)[3] = c
  /\ \A c : Stock(c)[1] = "stocks"
  BY DEF Account, Config, Item, Stock

(* What each kind of operation carries.                                    *)
LEMMA OperationShape ==
  ASSUME NEW o \in Operations
  PROVE  /\ o.kind \in {"create", "bootstrap", "readConfig", "saveConfig", "watch", "unwatch", "universe"}
         /\ o.kind \in {"create", "bootstrap"} => o.identity \in Identities
         /\ o.kind = "bootstrap" => o.user \in Nat \cup {NoUser} /\ o.codes \in Seq(Codes)
         /\ o.kind \in {"readConfig", "saveConfig", "watch", "unwatch"} => o.user \in Nat
         /\ o.kind = "saveConfig" => o.settings \in Settings
         /\ o.kind \in {"watch", "unwatch"} => o.code \in Codes
  <1>1. o \in AllOperations
    BY WorkspaceAssumption
  <1>2. QED
    BY <1>1 DEF AllOperations

LEMMA AskedColumns ==
  ASSUME NEW r \in Requests, op[r] \in Operations, op[r].kind \in {"readConfig", "saveConfig"}
  PROVE  DOMAIN Asked(r) = Columns /\ \A k \in Columns : Asked(r)[k] # Keep
  BY OperationShape, WorkspaceAssumption DEF Asked

LEMMA NoWritesPending ==
  ASSUME NEW r \in Requests, txn[r] = NoWrites
  PROVE  Pending(r) = {}
  BY DEF Pending, NoWrites, Names

(* A session whose transaction, locals and place stay as they are is not   *)
(* disturbed by a step that commits nothing.                               *)
Same(q) == pc'[q] = pc[q] /\ op'[q] = op[q] /\ loc'[q] = loc[q] /\ locks'[q] = locks[q] /\ txn'[q] = txn[q]

LEMMA QuietOther ==
  ASSUME NEW q \in Requests, SessionOK(q), Same(q), UNCHANGED <<engine, users, rows, settings>>,
         sequence \in Nat, sequence' \in Nat, sequence <= sequence',
         loc[q].user \in Nat \cup {NoUser}
  PROVE  SessionOK(q)' /\ (New(q)' <=> New(q))
  <1>0. Stored' = Stored
    BY DEF Stored
  <1>1. Shape(q)'
    BY DEF SessionOK, Shape, Same
  <1>2. Pending(q)' = Pending(q)
    BY DEF Pending, Same
  <1>3. Held(q)'
    BY <1>2 DEF SessionOK, Held, Same, Wanted
  <1>4. Fresh(q)'
    BY <1>2, <1>0 DEF SessionOK, Fresh, Same, Taken
  <1>5. New(q)' <=> New(q)
    BY DEF New, Same
  <1>6. NewUser(q)'
    BY <1>5 DEF SessionOK, NewUser, Same, New
  <1>7. WritesAsked(q)'
    BY <1>0 DEF SessionOK, WritesAsked, Same, Asked
  <1>8. Inserts(q)'
    BY <1>0 DEF SessionOK, Inserts, Same
  <1>9. Place(q)'
    BY <1>0 DEF SessionOK, Place, Same
  <1>10. QED
    BY <1>1, <1>3, <1>4, <1>5, <1>6, <1>7, <1>8, <1>9 DEF SessionOK

LEMMA QuietStep ==
  ASSUME Inv, NEW r \in Requests, UNCHANGED <<engine, users, rows, settings>>, Arrays',
         sequence' \in Nat, sequence <= sequence',
         \A q \in Requests \ {r} : Same(q),
         pc[r] \notin Ended \/ Committed(r)',
         pc[r] # "idle" => op'[r] = op[r],
         SessionOK(r)',
         \A q \in Requests \ {r} : locks'[r] \cap locks[q] = {},
         New(r)' => \A q \in Requests \ {r} : New(q) => loc[q].user # loc'[r].user
  PROVE  Inv'
  <1>0. Stored' = Stored
    BY DEF Stored
  <1>1. \A q \in Requests \ {r} : SessionOK(q)' /\ (New(q)' <=> New(q))
    BY QuietOther DEF Inv, Tables, SessionOK, Shape
  <1>2. Tables'
    <2>1. engine = "postgres" => \A u \in DOMAIN users : u <= sequence'
      BY DEF Inv, Tables
    <2>2. QED
      BY <2>1 DEF Inv, Tables
  <1>3. UniqueRows'
    BY DEF Inv, UniqueRows
  <1>4. WholeWorkspaces'
    BY <1>0 DEF Inv, WholeWorkspaces
  <1>5. NothingOfFailed'
    <2>1. \A q \in Requests : Committed(q) => Committed(q)' /\ op'[q] = op[q]
      BY DEF Ended, Same, Committed
    <2>2. \A q \in Requests : op[q].kind = "universe" => op'[q] = op[q]
      BY DEF Same, Inv, SessionOK, Shape
    <2>3. \A q \in Requests : \A K : CommittedAs(q, K) => CommittedAs(q, K)' /\ op'[q] = op[q]
      BY <2>1 DEF CommittedAs
    <2>4. \A row \in rows : row.by \in Requests \cup {Founder}
      BY DEF Inv, Tables
    <2>5. QED
      BY <2>1, <2>2, <2>3, <2>4 DEF Inv, NothingOfFailed
  <1>6. LocksApart'
    BY DEF Inv, LocksApart, Same
  <1>7. UsersApart'
    BY <1>1 DEF Inv, UsersApart, Same
  <1>8. QED
    BY <1>1, <1>2, <1>3, <1>4, <1>5, <1>6, <1>7 DEF Inv

-----------------------------------------------------------------------------
(* The three ways a request goes on without committing.                    *)

LEMMA RollBackOK ==
  ASSUME Inv, NEW r \in Requests, NEW how \in Ended, RollBack(r, how),
         pc[r] # "idle", pc[r] \notin Ended \/ how \in {"ok", "lost"},
         UNCHANGED <<engine, op>>, sequence' \in Nat, sequence <= sequence'
  PROVE  Inv'
  <1>1. Arrays' /\ \A q \in Requests \ {r} : Same(q)
    BY DEF Inv, Arrays, RollBack, End, Go, Same
  <1>2. pc'[r] = how /\ loc'[r] = NoLocals /\ locks'[r] = {} /\ txn'[r] = NoWrites /\ op'[r] = op[r]
    BY DEF Inv, Arrays, RollBack, End, Go
  <1>3. UNCHANGED <<engine, users, rows, settings>>
    BY DEF RollBack, tables
  <1>4. Pending(r)' = {}
    BY <1>2 DEF Pending, NoWrites, Names
  <1>5. ~ New(r)'
    BY <1>2 DEF New, NoLocals
  <1>6. Shape(r)'
    <2>1. pc'[r] \in Places /\ op'[r] \in Operations /\ pc'[r] # "idle"
      BY <1>2 DEF Inv, SessionOK, Shape, Places, CleanPlaces, Ended
    <2>2. QED
      BY <2>1, <1>2 DEF Shape, NoLocals, NoWrites
  <1>7. WritesAsked(r)' /\ Inserts(r)'
    BY <1>2 DEF WritesAsked, Inserts, NoWrites
  <1>8. Place(r)'
    BY <1>2 DEF Place, Ended, NoWrites
  <1>9. SessionOK(r)'
    BY <1>4, <1>5, <1>6, <1>7, <1>8 DEF SessionOK, Held, Fresh, NewUser
  <1>10. QED
    <2>1. pc[r] \notin Ended \/ Committed(r)'
      BY <1>2 DEF Committed
    <2>2. QED
      BY <1>1, <1>2, <1>3, <1>5, <1>9, <2>1, QuietStep

LEMMA StepOK ==
  ASSUME Inv, NEW r \in Requests, NEW where \in Places, NEW local, Step(r, where, local),
         UNCHANGED <<engine, op, sequence>>, pc[r] \notin Ended \cup {"idle"}, where # "idle",
         DOMAIN local = {"user", "seen", "todo"}, local.todo \in Seq(Codes),
         local.user = loc[r].user \/ (txn[r] = NoWrites /\ local.user \in DOMAIN users),
         where \in CleanPlaces => pc[r] \in CleanPlaces,
         Place(r)'
  PROVE  Inv'
  <1>1. Arrays' /\ \A q \in Requests \ {r} : Same(q)
    BY DEF Inv, Arrays, Step, Go, Same
  <1>2. pc'[r] = where /\ loc'[r] = local /\ locks'[r] = locks[r] /\ txn'[r] = txn[r] /\ op'[r] = op[r]
    BY DEF Inv, Arrays, Step, Go
  <1>3. UNCHANGED <<engine, users, rows, settings>>
    BY DEF Step
  <1>4. Pending(r)' = Pending(r) /\ Stored' = Stored
    BY <1>2, <1>3 DEF Pending, Stored
  <1>5. SessionOK(r)
    BY DEF Inv
  <1>6. Shape(r)'
    BY <1>2, <1>5 DEF Inv, Tables, SessionOK, Shape
  <1>7. Held(r)'
    BY <1>2, <1>3, <1>4, <1>5 DEF SessionOK, Held, Wanted
  <1>8. CASE local.user = loc[r].user
    <2>1. Fresh(r)'
      BY <1>2, <1>3, <1>4, <1>5, <1>8 DEF SessionOK, Fresh, Taken
    <2>2. (New(r)' <=> New(r)) /\ NewUser(r)'
      BY <1>2, <1>3, <1>5, <1>8 DEF SessionOK, NewUser, New
    <2>3. WritesAsked(r)' /\ Inserts(r)'
      BY <1>2, <1>3, <1>4, <1>5, <1>8 DEF SessionOK, WritesAsked, Asked, Inserts
    <2>4. SessionOK(r)'
      BY <1>6, <1>7, <2>1, <2>2, <2>3 DEF SessionOK
    <2>5. \A q \in Requests \ {r} : locks'[r] \cap locks[q] = {}
      BY <1>2 DEF Inv, LocksApart
    <2>6. New(r)' => \A q \in Requests \ {r} : New(q) => loc[q].user # loc'[r].user
      BY <1>2, <1>8, <2>2 DEF Inv, UsersApart
    <2>7. QED
      BY <1>1, <1>2, <1>3, <2>4, <2>5, <2>6, QuietStep DEF Inv, Tables
  <1>9. CASE txn[r] = NoWrites /\ local.user \in DOMAIN users
    <2>1. Fresh(r)'
      BY <1>4, <1>9, NoWritesPending DEF Fresh
    <2>2. ~ New(r)'
      BY <1>2, <1>3, <1>9 DEF New
    <2>3. WritesAsked(r)' /\ Inserts(r)'
      BY <1>2, <1>9 DEF WritesAsked, Inserts, NoWrites
    <2>4. SessionOK(r)'
      BY <1>6, <1>7, <2>1, <2>2, <2>3 DEF SessionOK, NewUser
    <2>5. \A q \in Requests \ {r} : locks'[r] \cap locks[q] = {}
      BY <1>2 DEF Inv, LocksApart
    <2>6. QED
      BY <1>1, <1>2, <1>3, <2>2, <2>4, <2>5, QuietStep DEF Inv, Tables
  <1>10. QED
    BY <1>8, <1>9

LEMMA WriteOK ==
  ASSUME Inv, NEW r \in Requests, NEW where \in Places \ CleanPlaces, NEW local, NEW held, NEW writes,
         Write(r, held, writes, where, local),
         UNCHANGED <<engine, op>>, sequence' \in Nat, sequence <= sequence',
         pc[r] \notin Ended \cup {"idle"},
         DOMAIN local = {"user", "seen", "todo"}, local.todo \in Seq(Codes),
         local.user \in Nat \cup {NoUser},
         DOMAIN writes = {"identity", "settings", "insert", "delete"},
         DOMAIN writes.identity = Names, DOMAIN writes.settings = Columns,
         Pending(r)' \subseteq Pending(r) \cup held,
         Fresh(r)', NewUser(r)', WritesAsked(r)', Inserts(r)', Place(r)',
         New(r)' => \A q \in Requests \ {r} : New(q) => loc[q].user # loc'[r].user
  PROVE  Inv'
  <1>1. Arrays' /\ \A q \in Requests \ {r} : Same(q)
    BY DEF Inv, Arrays, Write, Go, Same
  <1>2. /\ pc'[r] = where /\ loc'[r] = local /\ locks'[r] = locks[r] \cup Wanted(held)
        /\ txn'[r] = writes /\ op'[r] = op[r]
    BY DEF Inv, Arrays, Write, Go
  <1>3. UNCHANGED <<engine, users, rows, settings>>
    BY DEF Write, tables
  <1>4. SessionOK(r)
    BY DEF Inv
  <1>5. Shape(r)'
    <2>1. where # "idle"
      BY DEF CleanPlaces
    <2>2. QED
      BY <2>1, <1>2, <1>4 DEF SessionOK, Shape
  <1>6. Held(r)'
    <2> SUFFICES ASSUME NEW k \in Pending(r)' PROVE Wanted({k})' \subseteq locks'[r]
      BY DEF Held
    <2>1. Wanted({k})' = Wanted({k})
      BY DEF Wanted
    <2>2. CASE k \in Pending(r)
      BY <2>1, <2>2, <1>2, <1>4 DEF SessionOK, Held
    <2>3. CASE k \in held
      BY <2>1, <2>3, <1>2 DEF Wanted
    <2>4. QED
      BY <2>2, <2>3
  <1>7. \A q \in Requests \ {r} : locks'[r] \cap locks[q] = {}
    BY <1>2 DEF Inv, LocksApart, Write, Free
  <1>8. SessionOK(r)'
    BY <1>5, <1>6 DEF SessionOK
  <1>9. QED
    BY <1>1, <1>2, <1>3, <1>7, <1>8, QuietStep

-----------------------------------------------------------------------------
(* The steps that only read.                                               *)

LEMMA StepEffect ==
  ASSUME Inv, NEW r \in Requests, NEW where, NEW local, Step(r, where, local)
  PROVE  /\ pc'[r] = where /\ loc'[r] = local /\ txn'[r] = txn[r]
         /\ users' = users /\ Stored' = Stored
  BY DEF Inv, Arrays, Step, Go, Stored

(* What is known of a session that runs.                                   *)
LEMMA RunningSession ==
  ASSUME Inv, NEW r \in Requests, pc[r] \notin Ended \cup {"idle"}
  PROVE  /\ op[r] \in Operations
         /\ DOMAIN loc[r] = {"user", "seen", "todo"}
         /\ loc[r].user \in Nat \cup {NoUser}
         /\ loc[r].todo \in Seq(Codes)
         /\ DOMAIN txn[r] = {"identity", "settings", "insert", "delete"}
         /\ DOMAIN txn[r].identity = Names
         /\ DOMAIN txn[r].settings = Columns
         /\ pc[r] \in CleanPlaces => txn[r] = NoWrites /\ locks[r] = {}
  BY DEF Inv, SessionOK, Shape

LEMMA LocateOK ==
  ASSUME Inv, NEW r \in Requests, Locate(r), UNCHANGED <<engine, op>>
  PROVE  Inv'
  <1> DEFINE u == IF op[r].user = NoUser THEN WorkspaceUser(users) ELSE op[r].user
  <1>0. pc[r] = "locate" /\ sequence' = sequence
    BY DEF Locate
  <1>1. pc[r] \notin Ended \cup {"idle"} /\ pc[r] \in CleanPlaces
    BY <1>0 DEF Ended, CleanPlaces
  <1>2. op[r].kind = "bootstrap"
    BY <1>0 DEF Inv, SessionOK, Place
  <1>3. CASE u \in DOMAIN users /\ Step(r, "adopt", [loc[r] EXCEPT !.user = u, !.seen = users[u]])
    <2> DEFINE local == [loc[r] EXCEPT !.user = u, !.seen = users[u]]
    <2>1. DOMAIN local = {"user", "seen", "todo"} /\ local.user = u /\ local.todo = loc[r].todo
      BY <1>1, RunningSession
    <2>2. u \in Nat
      BY <1>3 DEF Inv, Tables
    <2>3. Place(r)'
      <3>1. pc'[r] = "adopt" /\ loc'[r] = local /\ txn'[r] = txn[r]
        BY <1>3, StepEffect
      <3> HIDE DEF local, u
      <3> QED
        BY <1>2, <2>1, <2>2, <3>1 DEF Place
    <2>4. "adopt" \in Places /\ "adopt" \notin CleanPlaces
      BY DEF Places, CleanPlaces, Ended
    <2>5. Inv'
      <3> HIDE DEF local, u
      <3> QED
        BY <1>0, <1>1, <1>3, <2>1, <2>3, <2>4, StepOK, RunningSession DEF local
    <2>6. QED
      BY <2>5
  <1>4. CASE Step(r, "find", loc[r])
    <2>1. Place(r)'
      <3>1. loc[r].user = NoUser
        BY <1>0 DEF Inv, SessionOK, Place
      <3>2. QED
        BY <3>1, <1>2, <1>4, StepEffect DEF Place
    <2>2. "find" \in Places
      BY DEF Places, CleanPlaces
    <2>3. QED
      BY <1>0, <1>1, <1>4, <2>1, <2>2, StepOK, RunningSession
  <1>5. CASE RollBack(r, "refused")
    BY <1>0, <1>1, <1>5, RollBackOK DEF Ended, Inv, Tables
  <1>6. QED
    BY <1>3, <1>4, <1>5 DEF Locate

LEMMA RejectOK ==
  ASSUME Inv, NEW r \in Requests, Reject(r), pc[r] \notin Ended \cup {"idle"}, UNCHANGED <<engine, op, sequence>>
  PROVE  Inv'
  BY RollBackOK DEF Reject, Ended, Inv, Tables

LEMMA FindOK ==
  ASSUME Inv, NEW r \in Requests, Find(r) \/ Identify(r), UNCHANGED <<engine, op>>
  PROVE  Inv'
  <1>0. pc[r] \in {"find", "identify"} /\ sequence' = sequence
    BY DEF Find, Identify
  <1>1. pc[r] \notin Ended \cup {"idle"} /\ pc[r] \in CleanPlaces
    BY <1>0 DEF Ended, CleanPlaces
  <1>2. op[r].kind \in {"create", "bootstrap"} /\ loc[r].user = NoUser
    BY <1>0 DEF Inv, SessionOK, Place
  <1>3. ASSUME NEW where \in {"identify", "insertUser"}, Step(r, where, loc[r])
        PROVE  Inv'
    <2>1. Place(r)'
      BY <1>2, <1>3, StepEffect DEF Place
    <2>2. where \in Places /\ where # "idle"
      BY DEF Places, CleanPlaces
    <2>3. QED
      BY <1>0, <1>1, <1>3, <2>1, <2>2, StepOK, RunningSession
  <1>4. CASE Reject(r)
    BY <1>0, <1>1, <1>4, RejectOK
  <1>5. QED
    BY <1>3, <1>4 DEF Find, Identify

(* Once the stock of a code is there, the request goes on.                 *)
LEMMA ThenPlaces ==
  ASSUME NEW r \in Requests, op[r].kind \in {"watch", "bootstrap", "universe"}
  PROVE  /\ Then(op[r].kind) \in {"check", "stock", "save"}
         /\ op[r].kind = "watch" <=> Then(op[r].kind) = "check"
         /\ op[r].kind = "bootstrap" <=> Then(op[r].kind) = "stock"
         /\ op[r].kind = "universe" <=> Then(op[r].kind) = "save"
  BY DEF Then

LEMMA LookStockOK ==
  ASSUME Inv, NEW r \in Requests, LookStock(r), UNCHANGED <<engine, op>>
  PROVE  Inv'
  <1> DEFINE where == Then(op[r].kind)
  <1>0. pc[r] = "stock" /\ loc[r].todo # <<>> /\ sequence' = sequence
    BY DEF LookStock
  <1>1. pc[r] \notin Ended \cup {"idle"} /\ pc[r] \notin CleanPlaces
    BY <1>0 DEF Ended, CleanPlaces
  <1>2. Place(r) /\ op[r].kind \in {"watch", "bootstrap", "universe"}
    BY <1>0 DEF Inv, SessionOK, Place
  <1>3. CASE Stock(Head(loc[r].todo)) \in Keys(r) /\ Step(r, where, Drop(r))
    <2>1. /\ DOMAIN Drop(r) = {"user", "seen", "todo"} /\ Drop(r).user = loc[r].user
          /\ Drop(r).todo \in Seq(Codes)
      BY <1>0, <1>1, RunningSession DEF Drop
    <2>2. op[r].kind = "watch" => Stock(op[r].code) \in Stored \cup txn[r].insert
      <3>1. op[r].kind = "watch" => Head(loc[r].todo) = op[r].code
        BY <1>0, <1>2 DEF Place
      <3>2. QED
        BY <1>3, <3>1 DEF Keys
    <2>3. where \in {"check", "stock", "save"} /\ (op[r].kind = "watch" <=> where = "check")
          /\ (op[r].kind = "universe" <=> where = "save") /\ (op[r].kind = "bootstrap" <=> where = "stock")
      BY <1>2, ThenPlaces
    <2>4. Place(r)'
      <3> HIDE DEF where
      <3> QED
        BY <1>0, <1>2, <1>3, <2>2, <2>3, StepEffect DEF Place
    <2>5. where \in Places /\ where \notin CleanPlaces /\ where # "idle"
      BY <2>3 DEF Places, CleanPlaces, Ended
    <2>6. QED
      <3> HIDE DEF where
      <3> QED
        BY <1>0, <1>1, <1>3, <2>1, <2>4, <2>5, StepOK
  <1>4. CASE Step(r, "insertStock", loc[r])
    <2>1. Place(r)'
      BY <1>0, <1>2, <1>4, StepEffect DEF Place
    <2>2. "insertStock" \in Places /\ "insertStock" \notin CleanPlaces
      BY DEF Places, CleanPlaces, Ended
    <2>3. QED
      BY <1>0, <1>1, <1>4, <2>1, <2>2, StepOK, RunningSession
  <1>5. QED
    BY <1>3, <1>4 DEF LookStock

LEMMA EndOfCodesOK ==
  ASSUME Inv, NEW r \in Requests, EndOfCodes(r), UNCHANGED <<engine, op>>
  PROVE  Inv'
  <1>0. pc[r] = "stock" /\ sequence' = sequence
    BY DEF EndOfCodes
  <1>1. pc[r] \notin Ended \cup {"idle"} /\ pc[r] \notin CleanPlaces
    BY <1>0 DEF Ended, CleanPlaces
  <1>2. Place(r)
    BY DEF Inv, SessionOK
  <1>3. CASE RollBack(r, "error")
    BY <1>0, <1>1, <1>3, RollBackOK DEF Ended, Inv, Tables
  <1>4. CASE Step(r, "commit", loc[r])
    <2>1. Place(r)'
      BY <1>0, <1>2, <1>4, StepEffect DEF Place
    <2>2. "commit" \in Places /\ "commit" \notin CleanPlaces
      BY DEF Places, CleanPlaces, Ended
    <2>3. QED
      BY <1>0, <1>1, <1>4, <2>1, <2>2, StepOK, RunningSession
  <1>5. QED
    BY <1>3, <1>4 DEF EndOfCodes

LEMMA CheckOK ==
  ASSUME Inv, NEW r \in Requests, Check(r), UNCHANGED <<engine, op>>
  PROVE  Inv'
  <1>0. pc[r] = "check" /\ sequence' = sequence
    BY DEF Check
  <1>1. pc[r] \notin Ended \cup {"idle"} /\ pc[r] \notin CleanPlaces
    BY <1>0 DEF Ended, CleanPlaces
  <1>2. Place(r)
    BY DEF Inv, SessionOK
  <1>3. CASE RollBack(r, "refused")
    BY <1>0, <1>1, <1>3, RollBackOK DEF Ended, Inv, Tables
  <1>4. CASE Step(r, "insertItem", loc[r])
    <2>1. Place(r)'
      BY <1>0, <1>2, <1>4, StepEffect DEF Place
    <2>2. "insertItem" \in Places /\ "insertItem" \notin CleanPlaces
      BY DEF Places, CleanPlaces, Ended
    <2>3. QED
      BY <1>0, <1>1, <1>4, <2>1, <2>2, StepOK, RunningSession
  <1>5. QED
    BY <1>3, <1>4 DEF Check

LEMMA LookOK ==
  ASSUME Inv, NEW r \in Requests, Look(r), UNCHANGED <<engine, op>>
  PROVE  Inv'
  <1> DEFINE where == IF op[r].kind = "readConfig" /\ Config(op[r].user) \in Stored THEN "commit" ELSE "upsert"
             local == [loc[r] EXCEPT !.user = op[r].user]
  <1>0. pc[r] = "look" /\ sequence' = sequence
    BY DEF Look
  <1>1. pc[r] \notin Ended \cup {"idle"} /\ pc[r] \in CleanPlaces
    BY <1>0 DEF Ended, CleanPlaces
  <1>2. op[r].kind \in {"readConfig", "saveConfig"}
    BY <1>0 DEF Inv, SessionOK, Place
  <1>3. CASE RollBack(r, "refused")
    BY <1>0, <1>1, <1>3, RollBackOK DEF Ended, Inv, Tables
  <1>4. CASE op[r].user \in DOMAIN users /\ Step(r, where, local)
    <2>1. DOMAIN local = {"user", "seen", "todo"} /\ local.user = op[r].user /\ local.todo = loc[r].todo
      BY <1>1, RunningSession
    <2>2. where \in {"commit", "upsert"}
      OBVIOUS
    <2>3. where \in Places /\ where # "idle"
      BY <2>2 DEF Places, CleanPlaces
    <2>4. Place(r)'
      <3> HIDE DEF where, local
      <3> QED
        BY <1>2, <1>4, <2>1, <2>2, StepEffect DEF Place
    <2>5. QED
      <3> HIDE DEF where, local
      <3> QED
        BY <1>0, <1>1, <1>4, <2>1, <2>3, <2>4, StepOK, RunningSession
  <1>5. QED
    BY <1>3, <1>4 DEF Look

LEMMA UpsertOK ==
  ASSUME Inv, NEW r \in Requests, Upsert(r), UNCHANGED <<engine, op>>
  PROVE  Inv'
  <1> DEFINE local == [loc[r] EXCEPT !.seen = settings[loc[r].user]]
  <1>0. pc[r] = "upsert" /\ sequence' = sequence
    BY DEF Upsert
  <1>1. pc[r] \notin Ended \cup {"idle"} /\ pc[r] \in CleanPlaces
    BY <1>0 DEF Ended, CleanPlaces
  <1>2. op[r].kind \in {"readConfig", "saveConfig"} /\ loc[r].user = op[r].user /\ loc[r].user \in DOMAIN users
    BY <1>0 DEF Inv, SessionOK, Place
  <1>3. CASE Config(loc[r].user) \in Stored /\ Step(r, "updateConfig", local)
    <2>1. DOMAIN local = {"user", "seen", "todo"} /\ local.user = loc[r].user /\ local.todo = loc[r].todo
      BY <1>1, RunningSession
    <2>2. "updateConfig" \in Places
      BY DEF Places, CleanPlaces
    <2>3. Place(r)'
      <3> HIDE DEF local
      <3> QED
        BY <1>2, <1>3, <2>1, StepEffect DEF Place
    <2>4. QED
      <3> HIDE DEF local
      <3> QED
        BY <1>0, <1>1, <1>3, <2>1, <2>2, <2>3, StepOK, RunningSession
  <1>4. CASE Step(r, "insertConfig", loc[r])
    <2>1. "insertConfig" \in Places
      BY DEF Places, CleanPlaces
    <2>2. Place(r)'
      BY <1>2, <1>4, StepEffect DEF Place
    <2>3. QED
      BY <1>0, <1>1, <1>4, <2>1, <2>2, StepOK, RunningSession
  <1>5. QED
    BY <1>3, <1>4 DEF Upsert

-----------------------------------------------------------------------------
(* The steps that write.                                                   *)

LEMMA WriteEffect ==
  ASSUME Inv, NEW r \in Requests, NEW held, NEW writes, NEW where, NEW local, Write(r, held, writes, where, local)
  PROVE  /\ pc'[r] = where /\ loc'[r] = local /\ txn'[r] = writes /\ locks'[r] = locks[r] \cup Wanted(held)
         /\ users' = users /\ settings' = settings /\ rows' = rows /\ Stored' = Stored
  BY DEF Inv, Arrays, Write, Go, Stored, tables

(* An insert of one more key, under the same user.                         *)
LEMMA InsertMore ==
  ASSUME Inv, NEW r \in Requests, NEW key, NEW held, NEW where \in Places \ CleanPlaces, NEW local,
         key \notin Stored, key \in held, held = {key},
         \A k, v : key # Name(k, v),
         Write(r, held, [txn[r] EXCEPT !.insert = @ \cup {key}], where, local),
         UNCHANGED <<engine, op, sequence>>, pc[r] \notin Ended \cup {"idle"},
         DOMAIN local = {"user", "seen", "todo"}, local.todo \in Seq(Codes), local.user = loc[r].user,
         \/ \E c \in Codes : key = Stock(c)
         \/ /\ key = Item(op[r].user, op[r].code)
            /\ op[r].user \in DOMAIN users
            /\ Stock(op[r].code) \in Stored \cup txn[r].insert,
         Place(r)'
  PROVE  Inv'
  <1> DEFINE writes == [txn[r] EXCEPT !.insert = @ \cup {key}]
  <1>1. SessionOK(r)
    BY DEF Inv
  <1>2. /\ DOMAIN writes = {"identity", "settings", "insert", "delete"}
        /\ writes.identity = txn[r].identity /\ writes.settings = txn[r].settings
        /\ writes.insert = txn[r].insert \cup {key} /\ writes.delete = txn[r].delete
    BY RunningSession
  <1>3. Write(r, held, writes, where, local)
    OBVIOUS
  <1> HIDE DEF writes
  <1>4. /\ pc'[r] = where /\ loc'[r] = local /\ txn'[r] = writes
        /\ users' = users /\ Stored' = Stored
    BY <1>3, WriteEffect
  <1>5. Pending(r)' = Pending(r) \cup {key}
    BY <1>2, <1>4 DEF Pending
  <1>6. Taken(r)' = Taken(r)
    BY <1>4 DEF Taken
  <1>7. key \notin Taken(r)
    BY DEF Taken
  <1>8. Fresh(r)'
    BY <1>1, <1>5, <1>6, <1>7 DEF SessionOK, Fresh
  <1>9. New(r)' <=> New(r)
    BY <1>4 DEF New
  <1>10. NewUser(r)'
    <2>1. NewUser(r)
      BY <1>1 DEF SessionOK
    <2>2. locks[r] \subseteq locks'[r]
      BY <1>3, WriteEffect
    <2>3. QED
      BY <2>1, <2>2, <1>2, <1>4, <1>9 DEF NewUser
  <1>11. WritesAsked(r)'
    BY <1>1, <1>2, <1>4 DEF SessionOK, WritesAsked, Asked
  <1>12. Inserts(r)'
    BY <1>1, <1>2, <1>4 DEF SessionOK, Inserts
  <1>13. New(r)' => \A q \in Requests \ {r} : New(q) => loc[q].user # loc'[r].user
    BY <1>4, <1>9 DEF Inv, UsersApart
  <1>14. DOMAIN writes.identity = Names /\ DOMAIN writes.settings = Columns /\ local.user \in Nat \cup {NoUser}
    BY <1>2, RunningSession
  <1>15. QED
    BY <1>2, <1>3, <1>5, <1>8, <1>10, <1>11, <1>12, <1>13, <1>14, WriteOK DEF Inv, Tables

LEMMA InsertStockOK ==
  ASSUME Inv, NEW r \in Requests, InsertStock(r), UNCHANGED <<engine, op>>
  PROVE  Inv'
  <1> DEFINE key == Stock(Head(loc[r].todo))
             where == Then(op[r].kind)
             writes == [txn[r] EXCEPT !.insert = @ \cup {key}]
  <1>0. pc[r] = "insertStock" /\ sequence' = sequence
    BY DEF InsertStock
  <1>1. pc[r] \notin Ended \cup {"idle"}
    BY <1>0 DEF Ended
  <1>2. Place(r) /\ op[r].kind \in {"watch", "bootstrap", "universe"} /\ loc[r].todo # <<>>
    BY <1>0 DEF Inv, SessionOK, Place
  <1>3. CASE RollBack(r, "error")
    BY <1>0, <1>1, <1>3, RollBackOK DEF Ended, Inv, Tables
  <1>4. CASE {key} \cap Taken(r) = {} /\ Write(r, {key} \cup {}, writes, where, Drop(r))
    <2>1. /\ DOMAIN Drop(r) = {"user", "seen", "todo"} /\ Drop(r).user = loc[r].user
          /\ Drop(r).todo \in Seq(Codes) /\ Head(loc[r].todo) \in Codes
      BY <1>1, <1>2, RunningSession DEF Drop
    <2>2. key \notin Stored /\ (\E c \in Codes : key = Stock(c)) /\ \A k, v : key # Name(k, v)
      BY <1>4, <2>1, KeysDiffer DEF Taken
    <2>3. op[r].kind = "watch" => Stock(op[r].code) = key
      BY <1>0, <1>2 DEF Place
    <2>4. where \in {"check", "stock", "save"} /\ (op[r].kind = "watch" <=> where = "check")
          /\ (op[r].kind = "universe" <=> where = "save") /\ (op[r].kind = "bootstrap" <=> where = "stock")
      BY <1>2, ThenPlaces
    <2>5. writes.insert = txn[r].insert \cup {key}
      BY <1>1, RunningSession
    <2>6. where \in Places \ CleanPlaces
      <3> HIDE DEF where
      <3> QED
        BY <2>4 DEF Places, CleanPlaces, Ended
    <2>7. Write(r, {key}, writes, where, Drop(r))
      BY <1>4
    <2>8. Place(r)'
      <3> HIDE DEF key, where, writes
      <3>1. pc'[r] = where /\ loc'[r] = Drop(r) /\ txn'[r].insert = txn[r].insert \cup {key} /\ Stored' = Stored
        BY <2>5, <2>7, WriteEffect
      <3>2. op[r].kind = "universe" => \A k \in txn'[r].insert : \E c \in Codes : k = Stock(c)
        BY <3>1, <1>0, <1>2, <2>2 DEF Place
      <3>3. op[r].kind = "watch" => Stock(op[r].code) \in Stored' \cup txn'[r].insert
        BY <3>1, <2>3
      <3>4. op'[r] = op[r]
        OBVIOUS
      <3> QED
        BY <3>1, <3>2, <3>3, <3>4, <1>2, <2>4 DEF Place
    <2>9. QED
      <3> HIDE DEF key, where
      <3> QED
        BY <1>0, <1>1, <2>1, <2>2, <2>6, <2>7, <2>8, InsertMore
  <1>5. QED
    BY <1>3, <1>4 DEF InsertStock, WriteNew

LEMMA InsertItemOK ==
  ASSUME Inv, NEW r \in Requests, InsertItem(r), UNCHANGED <<engine, op>>
  PROVE  Inv'
  <1> DEFINE key == Item(op[r].user, op[r].code)
             writes == [txn[r] EXCEPT !.insert = @ \cup {key}]
  <1>0. pc[r] = "insertItem" /\ sequence' = sequence
    BY DEF InsertItem
  <1>1. pc[r] \notin Ended \cup {"idle"}
    BY <1>0 DEF Ended
  <1>2. Place(r) /\ op[r].kind = "watch" /\ Stock(op[r].code) \in Stored \cup txn[r].insert
    BY <1>0 DEF Inv, SessionOK, Place
  <1>3. CASE RollBack(r, "error")
    BY <1>0, <1>1, <1>3, RollBackOK DEF Ended, Inv, Tables
  <1>4. CASE op[r].user \in DOMAIN users /\ {key} \cap Taken(r) = {}
             /\ Write(r, {key} \cup {}, writes, "commit", loc[r])
    <2>1. key \notin Stored /\ \A k, v : key # Name(k, v)
      BY <1>4, KeysDiffer DEF Taken
    <2>2. Write(r, {key}, writes, "commit", loc[r])
      BY <1>4
    <2>3. Place(r)'
      BY <1>2, <2>2, WriteEffect DEF Place
    <2>4. "commit" \in Places \ CleanPlaces
      BY DEF Places, CleanPlaces, Ended
    <2>5. QED
      <3> HIDE DEF key
      <3> QED
        BY <1>0, <1>1, <1>2, <1>4, <2>1, <2>2, <2>3, <2>4, InsertMore, RunningSession DEF key
  <1>5. QED
    BY <1>3, <1>4 DEF InsertItem, WriteNew

(* The id of a new user is free, and the next one on SQLite.               *)
LEMMA NewIdFree ==
  ASSUME Inv
  PROVE  /\ NewId \in Nat \ {0}
         /\ NewId \notin DOMAIN users
         /\ engine = "sqlite" => DOMAIN users = 1 .. (NewId - 1)
         /\ engine = "postgres" => NewId = sequence + 1
  <1>1. CASE engine = "postgres"
    BY <1>1 DEF NewId, Inv, Tables
  <1>2. CASE engine = "sqlite"
    <2>1. PICK n \in Nat : DOMAIN users = 1 .. n
      BY <1>2 DEF Inv, Tables
    <2>2. CASE n = 0
      BY <1>2, <2>1, <2>2 DEF NewId
    <2>3. CASE n # 0
      <3> DEFINE max == CHOOSE u \in DOMAIN users : \A v \in DOMAIN users : v <= u
      <3>1. n \in DOMAIN users /\ \A v \in DOMAIN users : v <= n
        BY <2>1, <2>3
      <3>2. max \in DOMAIN users /\ \A v \in DOMAIN users : v <= max
        BY <3>1
      <3>3. max = n
        <4> HIDE DEF max
        <4>1. n <= max /\ max <= n
          BY <3>1, <3>2
        <4>2. max \in Nat
          BY <3>2, <2>1
        <4>3. QED
          BY <4>1, <4>2
      <3>4. NewId = 1 + n
        BY <1>2, <3>1, <3>3 DEF NewId
      <3>5. QED
        BY <1>2, <2>1, <3>4
    <2>4. QED
      BY <2>2, <2>3
  <1>3. QED
    BY <1>1, <1>2, WorkspaceAssumption DEF Inv, Tables

LEMMA InsertUserOK ==
  ASSUME Inv, NEW r \in Requests, InsertUser(r), UNCHANGED <<engine, op>>
  PROVE  Inv'
  <1> DEFINE where == IF op[r].kind = "create" THEN "commit" ELSE "adopt"
             local == [loc[r] EXCEPT !.user = NewId, !.seen = op[r].identity]
             held == NewNames(r) \cup {Account(NewId)}
  <1>0. pc[r] = "insertUser"
    BY DEF InsertUser
  <1>1. pc[r] \notin Ended \cup {"idle"} /\ pc[r] \in CleanPlaces
    BY <1>0 DEF Ended, CleanPlaces
  <1>2. op[r].kind \in {"create", "bootstrap"} /\ loc[r].user = NoUser
    BY <1>0 DEF Inv, SessionOK, Place
  <1>3. DOMAIN op[r].identity = Names /\ \A k \in Names : op[r].identity[k] # Keep
    BY <1>1, <1>2, RunningSession, OperationShape, WorkspaceAssumption
  <1>4. sequence' \in Nat /\ sequence <= sequence' /\ (engine = "postgres" => sequence' = NewId)
    BY NewIdFree DEF InsertUser, Inv, Tables
  <1>5. CASE RollBack(r, "error")
    BY <1>1, <1>4, <1>5, RollBackOK DEF Ended
  <1>6. CASE NewNames(r) \cap Taken(r) = {} /\ Write(r, held, CreateUser(r), where, local)
    <2>1. /\ DOMAIN local = {"user", "seen", "todo"} /\ local.user = NewId /\ local.todo = loc[r].todo
      BY <1>1, RunningSession
    <2>2. where \in {"commit", "adopt"} /\ where \in Places \ CleanPlaces
      <3>1. where \in {"commit", "adopt"}
        OBVIOUS
      <3>2. QED
        BY <3>1 DEF Places, CleanPlaces, Ended
    <2>3. where = "adopt" => op[r].kind = "bootstrap"
      BY <1>2
    <2>4. /\ DOMAIN CreateUser(r) = {"identity", "settings", "insert", "delete"}
          /\ CreateUser(r).identity = op[r].identity /\ CreateUser(r).settings = [k \in Columns |-> Keep]
          /\ CreateUser(r).insert = {Account(NewId)} /\ CreateUser(r).delete = {}
      BY DEF CreateUser, NoWrites
    <2> HIDE DEF where, local
    <2>5. /\ pc'[r] = where /\ loc'[r] = local /\ txn'[r] = CreateUser(r) /\ locks'[r] = locks[r] \cup Wanted(held)
          /\ users' = users /\ Stored' = Stored
      BY <1>6, WriteEffect
    <2>6. Pending(r)' = held
      BY <2>4, <2>5, <1>3 DEF Pending, NewNames
    <2>7. Fresh(r)'
      <3>1. Account(NewId) \notin Stored
        BY NewIdFree, KeyTables DEF Inv, WholeWorkspaces
      <3>2. Taken(r)' \subseteq Taken(r)
        BY <1>2, <2>5, WorkspaceAssumption DEF Taken, Inv, Tables
      <3>3. Account(NewId) \notin Taken(r)
        BY <3>1, KeysDiffer DEF Taken
      <3>4. QED
        BY <1>6, <2>6, <3>2, <3>3 DEF Fresh
    <2>8. NewUser(r)'
      <3>1. engine = "sqlite" => <<"db">> \in Wanted(held)
        BY DEF Wanted
      <3>2. QED
        BY <1>3, <1>4, <2>1, <2>4, <2>5, <3>1, NewIdFree DEF NewUser
    <2>9. WritesAsked(r)'
      BY <1>2, <2>1, <2>4, <2>5, NewIdFree DEF WritesAsked
    <2>10. Inserts(r)'
      BY <2>1, <2>4, <2>5, NewIdFree DEF Inserts
    <2>11. Place(r)'
      BY <1>2, <2>1, <2>2, <2>3, <2>5, NewIdFree DEF Place
    <2>12. \A q \in Requests \ {r} : New(q) => loc[q].user # loc'[r].user
      <3> SUFFICES ASSUME NEW q \in Requests \ {r}, New(q) PROVE loc[q].user # NewId
        BY <2>1, <2>5
      <3>1. NewUser(q) /\ loc[q].user \in Nat
        BY DEF Inv, SessionOK, Shape, New
      <3>2. CASE engine = "sqlite"
        BY <3>1, <3>2, <1>6 DEF NewUser, Write, Free, Wanted
      <3>3. CASE engine = "postgres"
        BY <3>1, <3>3, NewIdFree DEF NewUser, Inv, Tables
      <3>4. QED
        BY <3>2, <3>3, WorkspaceAssumption DEF Inv, Tables
    <2>13. local.user \in Nat \cup {NoUser} /\ local.todo \in Seq(Codes)
      BY <2>1, <1>1, NewIdFree, RunningSession
    <2>14. DOMAIN CreateUser(r).identity = Names /\ DOMAIN CreateUser(r).settings = Columns
      BY <2>4, <1>3
    <2>15. QED
      BY <1>1, <1>4, <1>6, <2>1, <2>2, <2>4, <2>6, <2>7, <2>8, <2>9, <2>10, <2>11, <2>12, <2>13, <2>14, WriteOK
  <1>7. QED
    BY <1>5, <1>6 DEF InsertUser, WriteNew

LEMMA AdoptOK ==
  ASSUME Inv, NEW r \in Requests, Adopt(r), UNCHANGED <<engine, op>>
  PROVE  Inv'
  <1> DEFINE u == loc[r].user
             renamed == Changed(loc[r].seen, op[r].identity)
             old == {Name(k, loc[r].seen[k]) : k \in renamed}
             new == {Name(k, op[r].identity[k]) : k \in renamed}
             held == new \cup (old \cup {Name("id", u), Account(u)})
             names == Written(txn[r].identity, loc[r].seen, op[r].identity)
             insert == txn[r].insert \cup ({Account(u)} \ Stored)
             writes == [txn[r] EXCEPT !.identity = Written(@, loc[r].seen, op[r].identity),
                                      !.insert = @ \cup ({Account(u)} \ Stored)]
  <1>0. pc[r] = "adopt" /\ sequence' = sequence
    BY DEF Adopt
  <1>1. pc[r] \notin Ended \cup {"idle"}
    BY <1>0 DEF Ended
  <1>2. op[r].kind = "bootstrap" /\ u \in Nat
    BY <1>0 DEF Inv, SessionOK, Place
  <1>3. DOMAIN op[r].identity = Names /\ \A k \in Names : op[r].identity[k] # Keep
    BY <1>1, <1>2, RunningSession, OperationShape, WorkspaceAssumption
  <1>4. SessionOK(r)
    BY DEF Inv
  <1>5. CASE RollBack(r, "error")
    BY <1>0, <1>1, <1>5, RollBackOK DEF Ended, Inv, Tables
  <1>6. CASE new \cap Taken(r) = {} /\ Write(r, held, writes, "stock", loc[r])
    <2>1. /\ DOMAIN writes = {"identity", "settings", "insert", "delete"}
          /\ writes.identity = names /\ writes.settings = txn[r].settings
          /\ writes.insert = insert /\ writes.delete = txn[r].delete
      BY <1>1, RunningSession
    <2>2. /\ DOMAIN names = Names
          /\ \A k \in Names : IF k \in renamed THEN names[k] = op[r].identity[k] ELSE names[k] = txn[r].identity[k]
      BY <1>3 DEF Written
    <2> HIDE DEF writes, names, held
    <2>3. /\ pc'[r] = "stock" /\ loc'[r] = loc[r] /\ txn'[r] = writes
          /\ locks'[r] = locks[r] \cup Wanted(held) /\ users' = users /\ Stored' = Stored
      BY <1>6, WriteEffect
    <2>4. Pending(r)' \subseteq Pending(r) \cup new \cup ({Account(u)} \ Stored)
      BY <2>1, <2>2, <2>3 DEF Pending
    <2>5. Fresh(r)'
      <3>1. Taken(r)' = Taken(r)
        BY <2>3 DEF Taken
      <3>2. ({Account(u)} \ Stored) \cap Taken(r) = {}
        BY KeysDiffer DEF Taken
      <3>3. QED
        BY <1>4, <1>6, <2>4, <3>1, <3>2 DEF SessionOK, Fresh
    <2>6. New(r)' <=> New(r)
      BY <2>3 DEF New
    <2>7. NewUser(r)'
      BY <1>3, <1>4, <2>1, <2>2, <2>3, <2>6, <1>0 DEF SessionOK, NewUser
    <2>8. WritesAsked(r)'
      BY <1>2, <1>4, <2>1, <2>2, <2>3 DEF SessionOK, WritesAsked, Asked
    <2>9. Inserts(r)'
      BY <1>2, <1>4, <2>1, <2>3 DEF SessionOK, Inserts
    <2>10. Place(r)'
      BY <1>2, <2>3 DEF Place
    <2>11. New(r)' => \A q \in Requests \ {r} : New(q) => loc[q].user # loc'[r].user
      BY <2>3, <2>6 DEF Inv, UsersApart
    <2>12. "stock" \in Places \ CleanPlaces
      BY DEF Places, CleanPlaces, Ended
    <2>13. Pending(r)' \subseteq Pending(r) \cup held
      BY <2>4 DEF held
    <2>14. DOMAIN writes.identity = Names /\ DOMAIN writes.settings = Columns
      BY <2>1, <2>2, <1>1, RunningSession
    <2>15. QED
      <3>1. sequence' \in Nat /\ sequence <= sequence'
        BY <1>0 DEF Inv, Tables
      <3>2. Write(r, held, writes, "stock", loc[r])
        BY <1>6
      <3>3. /\ DOMAIN loc[r] = {"user", "seen", "todo"} /\ loc[r].todo \in Seq(Codes)
            /\ loc[r].user \in Nat \cup {NoUser}
        BY <1>1, RunningSession
      <3>4. QED
        BY <1>1, <2>1, <2>5, <2>7, <2>8, <2>9, <2>10, <2>11, <2>12, <2>13, <2>14, <3>1, <3>2, <3>3, WriteOK
  <1>7. QED
    BY <1>5, <1>6 DEF Adopt, WriteNew

(* A write of a session that has written nothing before and whose user is  *)
(* there.                                                                  *)
LEMMA FirstWrite ==
  ASSUME Inv, NEW r \in Requests, NEW held, NEW writes, Write(r, held, writes, "commit", loc[r]),
         UNCHANGED <<engine, op, sequence>>, pc[r] \in CleanPlaces \ (Ended \cup {"idle"}),
         DOMAIN writes = {"identity", "settings", "insert", "delete"},
         writes.identity = [k \in Names |-> Keep], DOMAIN writes.settings = Columns,
         writes.insert \subseteq held, writes.insert \cap Stored = {},
         \A key \in writes.insert : \A k, v : key # Name(k, v),
         WritesAsked(r)', Inserts(r)',
         op[r].kind # "universe"
  PROVE  Inv'
  <1>1. /\ pc'[r] = "commit" /\ loc'[r] = loc[r] /\ txn'[r] = writes
        /\ users' = users /\ Stored' = Stored
    BY WriteEffect
  <1>2. Pending(r)' = writes.insert
    BY <1>1 DEF Pending, Names
  <1>3. Fresh(r)'
    BY <1>1, <1>2 DEF Fresh, Taken
  <1>4. ~ New(r)'
    <2>1. txn[r] = NoWrites /\ NewUser(r)
      BY DEF Inv, SessionOK, Shape
    <2>2. ~ New(r)
      BY <2>1 DEF NewUser, NoWrites, Names
    <2>3. QED
      BY <2>2, <1>1 DEF New
  <1>5. Place(r)'
    BY <1>1 DEF Place
  <1>6. "commit" \in Places \ CleanPlaces
    BY DEF Places, CleanPlaces, Ended
  <1>7. sequence' \in Nat /\ sequence <= sequence'
    BY DEF Inv, Tables
  <1>8. QED
    BY <1>2, <1>3, <1>4, <1>5, <1>6, <1>7, WriteOK, RunningSession DEF NewUser

LEMMA RemoveOK ==
  ASSUME Inv, NEW r \in Requests, Remove(r), UNCHANGED <<engine, op>>
  PROVE  Inv'
  <1> DEFINE key == Item(op[r].user, op[r].code)
             writes == [NoWrites EXCEPT !.delete = {key}]
  <1>0. pc[r] = "remove" /\ sequence' = sequence
    BY DEF Remove
  <1>1. pc[r] \in CleanPlaces \ (Ended \cup {"idle"})
    BY <1>0 DEF Ended, CleanPlaces
  <1>2. op[r].kind = "unwatch"
    BY <1>0 DEF Inv, SessionOK, Place
  <1>3. CASE RollBack(r, "refused")
    BY <1>0, <1>1, <1>3, RollBackOK DEF Ended, Inv, Tables
  <1>4. CASE Write(r, {key}, writes, "commit", loc[r])
    <2>1. /\ DOMAIN writes = {"identity", "settings", "insert", "delete"}
          /\ writes.identity = [k \in Names |-> Keep] /\ writes.settings = [k \in Columns |-> Keep]
          /\ writes.insert = {} /\ writes.delete = {key}
      BY DEF NoWrites
    <2> HIDE DEF writes
    <2>2. txn'[r] = writes
      BY <1>4, WriteEffect
    <2>3. WritesAsked(r)' /\ Inserts(r)'
      BY <1>2, <2>1, <2>2 DEF WritesAsked, Inserts
    <2>4. DOMAIN writes.settings = Columns
      BY <2>1
    <2>5. QED
      <3> HIDE DEF key
      <3> QED
        BY <1>0, <1>1, <1>2, <1>4, <2>1, <2>3, <2>4, FirstWrite
  <1>5. QED
    BY <1>3, <1>4 DEF Remove

LEMMA InsertConfigOK ==
  ASSUME Inv, NEW r \in Requests, InsertConfig(r), UNCHANGED <<engine, op>>
  PROVE  Inv'
  <1> DEFINE key == Config(loc[r].user)
             writes == [NoWrites EXCEPT !.settings = Asked(r), !.insert = {key}]
  <1>0. pc[r] = "insertConfig" /\ sequence' = sequence
    BY DEF InsertConfig
  <1>1. pc[r] \in CleanPlaces \ (Ended \cup {"idle"})
    BY <1>0 DEF Ended, CleanPlaces
  <1>2. op[r].kind \in {"readConfig", "saveConfig"} /\ loc[r].user = op[r].user /\ loc[r].user \in DOMAIN users
    BY <1>0 DEF Inv, SessionOK, Place
  <1>3. CASE RollBack(r, "error")
    BY <1>0, <1>1, <1>3, RollBackOK DEF Ended, Inv, Tables
  <1>4. CASE {key} \cap Taken(r) = {} /\ Write(r, {key} \cup {}, writes, "commit", loc[r])
    <2>0. DOMAIN Asked(r) = Columns /\ \A k \in Columns : Asked(r)[k] # Keep
      BY <1>1, <1>2, AskedColumns, RunningSession
    <2>1. /\ DOMAIN writes = {"identity", "settings", "insert", "delete"}
          /\ writes.identity = [k \in Names |-> Keep] /\ writes.settings = Asked(r)
          /\ writes.insert = {key} /\ writes.delete = {}
      BY DEF NoWrites
    <2> HIDE DEF writes
    <2>2. Write(r, {key}, writes, "commit", loc[r])
      BY <1>4
    <2>3. txn'[r] = writes /\ loc'[r] = loc[r] /\ users' = users /\ Asked(r)' = Asked(r)
      BY <2>2, WriteEffect DEF Asked
    <2>4. WritesAsked(r)'
      BY <1>2, <2>1, <2>3 DEF WritesAsked
    <2>5. Inserts(r)'
      BY <1>2, <2>0, <2>1, <2>3 DEF Inserts
    <2>6. key \notin Stored /\ \A k, v : key # Name(k, v)
      BY <1>4, KeysDiffer DEF Taken
    <2>7. QED
      <3> HIDE DEF key
      <3> QED
        BY <1>0, <1>1, <1>2, <2>0, <2>1, <2>2, <2>4, <2>5, <2>6, FirstWrite
  <1>5. QED
    BY <1>3, <1>4 DEF InsertConfig, WriteNew

LEMMA UpdateConfigOK ==
  ASSUME Inv, NEW r \in Requests, UpdateConfig(r), UNCHANGED <<engine, op>>
  PROVE  Inv'
  <1> DEFINE held == {Config(loc[r].user) : k \in Changed(loc[r].seen, Asked(r))}
             columns == Written([k \in Columns |-> Keep], loc[r].seen, Asked(r))
             writes == [NoWrites EXCEPT !.settings = Written(@, loc[r].seen, Asked(r))]
  <1>0. pc[r] = "updateConfig" /\ sequence' = sequence /\ Write(r, held, writes, "commit", loc[r])
    BY DEF UpdateConfig
  <1>1. pc[r] \in CleanPlaces \ (Ended \cup {"idle"})
    BY <1>0 DEF Ended, CleanPlaces
  <1>2. /\ op[r].kind \in {"readConfig", "saveConfig"} /\ loc[r].user = op[r].user
        /\ loc[r].user \in DOMAIN users /\ Config(loc[r].user) \in Stored
    BY <1>0 DEF Inv, SessionOK, Place
  <1>3. DOMAIN Asked(r) = Columns
    BY <1>1, <1>2, AskedColumns, RunningSession
  <1>4. DOMAIN columns = Columns /\ \A k \in Columns : columns[k] # Keep => columns[k] = Asked(r)[k]
    BY <1>3 DEF Written
  <1>5. /\ DOMAIN writes = {"identity", "settings", "insert", "delete"}
        /\ writes.identity = [k \in Names |-> Keep] /\ writes.settings = columns
        /\ writes.insert = {} /\ writes.delete = {}
    BY DEF NoWrites
  <1> HIDE DEF writes, columns, held
  <1>6. txn'[r] = writes /\ loc'[r] = loc[r] /\ users' = users /\ Stored' = Stored /\ Asked(r)' = Asked(r)
    BY <1>0, WriteEffect DEF Asked
  <1>7. WritesAsked(r)' /\ Inserts(r)'
    BY <1>2, <1>4, <1>5, <1>6 DEF WritesAsked, Inserts
  <1>8. QED
    BY <1>0, <1>1, <1>2, <1>4, <1>5, <1>7, FirstWrite

LEMMA StartOK ==
  ASSUME Inv, NEW r \in Requests, Start(r), UNCHANGED engine
  PROVE  Inv'
  <1>0. pc[r] = "idle" /\ sequence' = sequence
    BY DEF Start
  <1>1. PICK o \in Operations :
          op' = [op EXCEPT ![r] = o] /\ Step(r, First[o.kind], [NoLocals EXCEPT !.todo = CodesOf(o)])
    BY DEF Start
  <1> DEFINE local == [NoLocals EXCEPT !.todo = CodesOf(o)]
  <1>2. DOMAIN local = {"user", "seen", "todo"} /\ local.user = NoUser /\ local.todo = CodesOf(o)
    BY DEF NoLocals
  <1>3. CodesOf(o) \in Seq(Codes) /\ (o.kind = "watch" => CodesOf(o) = <<o.code>>)
    BY OperationShape, WorkspaceAssumption DEF CodesOf
  <1> HIDE DEF local
  <1>4. /\ pc'[r] = First[o.kind] /\ loc'[r] = local /\ txn'[r] = txn[r] /\ locks'[r] = locks[r]
        /\ op'[r] = o /\ users' = users /\ Stored' = Stored
    BY <1>1 DEF Inv, Arrays, Step, Go, Stored, local
  <1>5. Arrays' /\ \A q \in Requests \ {r} : Same(q)
    BY <1>1 DEF Inv, Arrays, Step, Go, Same
  <1>6. UNCHANGED <<engine, users, rows, settings>>
    BY <1>1 DEF Step
  <1>7. txn[r] = NoWrites /\ locks[r] = {}
    BY <1>0 DEF Inv, SessionOK, Shape, CleanPlaces
  <1>8. /\ o.kind = "create" => First[o.kind] = "find"
        /\ o.kind = "bootstrap" => First[o.kind] = "locate"
        /\ o.kind \in {"readConfig", "saveConfig"} => First[o.kind] = "look"
        /\ o.kind \in {"watch", "universe"} => First[o.kind] = "stock"
        /\ o.kind = "unwatch" => First[o.kind] = "remove"
    BY DEF First
  <1>9. First[o.kind] \in Places /\ First[o.kind] # "idle"
    BY <1>8, OperationShape DEF Places, CleanPlaces
  <1>10. Pending(r)' = {}
    BY <1>4, <1>7 DEF Pending, NoWrites, Names
  <1>11. ~ New(r)'
    BY <1>2, <1>4 DEF New
  <1>12. Shape(r)'
    BY <1>2, <1>3, <1>4, <1>7, <1>9 DEF Shape, NoWrites
  <1>13. WritesAsked(r)' /\ Inserts(r)'
    BY <1>4, <1>7 DEF WritesAsked, Inserts, NoWrites
  <1>14. Place(r)'
    <2>1. txn'[r].insert = {}
      BY <1>4, <1>7 DEF NoWrites
    <2>2. QED
      BY <2>1, <1>2, <1>3, <1>4, <1>8, OperationShape DEF Place
  <1>15. SessionOK(r)'
    BY <1>10, <1>11, <1>12, <1>13, <1>14 DEF SessionOK, Held, Fresh, NewUser
  <1>16. QED
    BY <1>0, <1>4, <1>5, <1>6, <1>7, <1>11, <1>15, QuietStep DEF Ended, Inv, Tables

-----------------------------------------------------------------------------
(* The commits.                                                            *)

(* What two sessions have pending differs: each has locked its own.        *)
LEMMA PendingApart ==
  ASSUME Inv, NEW q \in Requests, NEW r \in Requests, q # r
  PROVE  Pending(q) \cap Pending(r) = {}
  <1> SUFFICES ASSUME NEW k \in Pending(q), k \in Pending(r) PROVE FALSE
    OBVIOUS
  <1>1. Wanted({k}) \subseteq locks[q] /\ Wanted({k}) \subseteq locks[r]
    BY DEF Inv, SessionOK, Held
  <1>2. Wanted({k}) # {}
    BY DEF Wanted
  <1>3. QED
    BY <1>1, <1>2 DEF Inv, LocksApart

LEMMA StoredAfter ==
  ASSUME NEW r \in Requests, StoreAll(r)
  PROVE  Stored' = (Stored \ txn[r].delete) \cup txn[r].insert
  <1>1. rows' = {row \in rows : row.key \notin txn[r].delete} \cup {[key |-> k, by |-> r] : k \in txn[r].insert}
    BY DEF StoreAll
  <1>2. ASSUME NEW key \in Stored' PROVE key \in (Stored \ txn[r].delete) \cup txn[r].insert
    <2>1. PICK row \in rows' : row.key = key
      BY DEF Stored
    <2>2. QED
      BY <1>1, <2>1 DEF Stored
  <1>3. ASSUME NEW key \in Stored \ txn[r].delete PROVE key \in Stored'
    <2>1. PICK row \in rows : row.key = key
      BY DEF Stored
    <2>2. row \in rows'
      BY <1>1, <1>3, <2>1
    <2>3. QED
      BY <2>1, <2>2 DEF Stored
  <1>4. ASSUME NEW key \in txn[r].insert PROVE key \in Stored'
    <2>1. [key |-> key, by |-> r] \in rows'
      BY <1>1
    <2>2. QED
      BY <2>1 DEF Stored
  <1>5. QED
    BY <1>2, <1>3, <1>4

LEMMA UsersAfter ==
  ASSUME Inv, NEW r \in Requests, StoreAll(r)
  PROVE  \/ users' = users /\ \A k \in Names : txn[r].identity[k] = Keep
         \/ /\ \E k \in Names : txn[r].identity[k] # Keep
            /\ loc[r].user \in Nat
            /\ DOMAIN users' = DOMAIN users \cup {loc[r].user}
            /\ \A v \in DOMAIN users \ {loc[r].user} : users'[v] = users[v]
            /\ DOMAIN users'[loc[r].user] = Names
            /\ \A k \in Names : users'[loc[r].user][k] =
                 IF txn[r].identity[k] = Keep THEN users[loc[r].user][k] ELSE txn[r].identity[k]
  <1>1. DOMAIN txn[r].identity = Names /\ WritesAsked(r)
    BY DEF Inv, SessionOK, Shape
  <1>2. users' = Store(users, loc[r].user, txn[r].identity)
    BY DEF StoreAll
  <1>3. QED
    BY <1>1, <1>2 DEF Store, WritesAsked

(* A user after a commit: a new one, or one of before with each name kept  *)
(* or written.                                                             *)
LEMMA NewOrKept ==
  ASSUME Inv, NEW r \in Requests, StoreAll(r), NEW v \in DOMAIN users'
  PROVE  /\ v \in DOMAIN users \/ (New(r) /\ v = loc[r].user)
         /\ DOMAIN users'[v] = Names
         /\ \A k \in Names :
              \/ v \in DOMAIN users /\ users'[v][k] = users[v][k]
              \/ v = loc[r].user /\ txn[r].identity[k] # Keep /\ users'[v][k] = txn[r].identity[k]
  <1>1. NewUser(r) /\ \A u \in DOMAIN users : DOMAIN users[u] = Names
    BY DEF Inv, SessionOK, Tables
  <1>2. CASE users' = users
    BY <1>1, <1>2
  <1>3. CASE v # loc[r].user /\ users' # users
    <2>1. v \in DOMAIN users /\ users'[v] = users[v]
      BY <1>3, UsersAfter
    <2>2. QED
      BY <1>1, <2>1
  <1>4. CASE v = loc[r].user /\ users' # users
    <2>1. /\ loc[r].user \in Nat /\ DOMAIN users'[v] = Names
          /\ \A k \in Names : users'[v][k] =
               IF txn[r].identity[k] = Keep THEN users[v][k] ELSE txn[r].identity[k]
      BY <1>4, UsersAfter
    <2>2. v \in DOMAIN users \/ New(r)
      BY <1>4, <2>1, WorkspaceAssumption DEF New
    <2>3. CASE v \in DOMAIN users
      BY <1>4, <2>1, <2>3
    <2>4. CASE New(r)
      BY <1>1, <1>4, <2>1, <2>4 DEF NewUser
    <2>5. QED
      BY <2>2, <2>3, <2>4
  <1>5. QED
    BY <1>2, <1>3, <1>4

LEMMA SettingsAfter ==
  ASSUME Inv, NEW r \in Requests, StoreAll(r)
  PROVE  \/ settings' = settings /\ \A k \in Columns : txn[r].settings[k] = Keep
         \/ /\ \E k \in Columns : txn[r].settings[k] # Keep
            /\ DOMAIN settings' = DOMAIN settings \cup {loc[r].user}
            /\ \A v \in DOMAIN settings \ {loc[r].user} : settings'[v] = settings[v]
            /\ DOMAIN settings'[loc[r].user] = Columns
            /\ \A k \in Columns : settings'[loc[r].user][k] =
                 IF txn[r].settings[k] = Keep THEN settings[loc[r].user][k] ELSE txn[r].settings[k]
  <1>1. DOMAIN txn[r].settings = Columns
    BY DEF Inv, SessionOK, Shape
  <1>2. settings' = Store(settings, loc[r].user, txn[r].settings)
    BY DEF StoreAll
  <1>3. QED
    BY <1>1, <1>2 DEF Store

(* Only watchlist items are deleted.                                       *)
LEMMA KeptKeys ==
  ASSUME Inv, NEW r \in Requests, StoreAll(r)
  PROVE  /\ \A v : Account(v) \in Stored => Account(v) \in Stored'
         /\ \A v : Config(v) \in Stored => Config(v) \in Stored'
         /\ \A c : Stock(c) \in Stored => Stock(c) \in Stored'
  <1>1. \A key \in txn[r].delete : \E v, c : key = Item(v, c)
    BY DEF Inv, SessionOK, WritesAsked
  <1>2. QED
    BY <1>1, StoredAfter, KeysDiffer

LEMMA StoreTables ==
  ASSUME Inv, NEW r \in Requests, StoreAll(r), UNCHANGED <<engine, sequence>>
  PROVE  Tables'
  <1> DEFINE u == loc[r].user
  <1>1. NewUser(r)
    BY DEF Inv, SessionOK
  <1>2. users' = users \/ u \in DOMAIN users \/ (New(r) /\ u \in Nat \ {0})
    BY <1>1, UsersAfter, WorkspaceAssumption DEF New, NewUser
  <1>3. ASSUME NEW v \in DOMAIN users'
        PROVE  v \in Nat \ {0} /\ DOMAIN users'[v] = Names /\ (engine = "postgres" => v <= sequence)
    <2>1. DOMAIN users'[v] = Names /\ (v \in DOMAIN users \/ (New(r) /\ v = u))
      BY NewOrKept
    <2>2. CASE v \in DOMAIN users
      BY <2>1, <2>2 DEF Inv, Tables
    <2>3. CASE New(r) /\ v = u
      <3>1. u \in Nat
        BY <2>3 DEF New, Inv, SessionOK, Shape
      <3>2. QED
        BY <1>1, <2>1, <2>3, <3>1 DEF NewUser
    <2>4. QED
      BY <2>1, <2>2, <2>3
  <1>4. DOMAIN users' \subseteq Nat \ {0}
    BY <1>3
  <1>5. engine = "sqlite" => \E n \in Nat : DOMAIN users' = 1 .. n
    <2>1. CASE DOMAIN users' = DOMAIN users
      BY <2>1 DEF Inv, Tables
    <2>2. CASE DOMAIN users' # DOMAIN users /\ engine = "sqlite"
      <3>1. DOMAIN users' = DOMAIN users \cup {u} /\ u \notin DOMAIN users /\ u \in Nat \ {0}
        BY <1>2, <2>2, UsersAfter
      <3>2. DOMAIN users = 1 .. (u - 1)
        BY <1>1, <3>1, <2>2, WorkspaceAssumption DEF NewUser, New
      <3>3. DOMAIN users' = 1 .. u
        BY <3>1, <3>2
      <3>4. QED
        BY <3>1, <3>3
    <2>3. QED
      BY <2>1, <2>2
  <1>6. \A row \in rows' : DOMAIN row = {"key", "by"} /\ row.by \in Requests \cup {Founder}
    BY DEF StoreAll, Inv, Tables
  <1>7. ASSUME NEW v \in DOMAIN settings' PROVE DOMAIN settings'[v] = Columns
    <2>1. \A w \in DOMAIN settings : DOMAIN settings[w] = Columns
      BY DEF Inv, Tables
    <2>2. CASE settings' = settings
      BY <2>1, <2>2
    <2>3. CASE settings' # settings /\ v = u
      BY <2>3, SettingsAfter
    <2>4. CASE settings' # settings /\ v # u
      <3>1. v \in DOMAIN settings /\ settings'[v] = settings[v]
        BY <2>4, SettingsAfter
      <3>2. QED
        BY <2>1, <3>1
    <2>5. QED
      BY <2>2, <2>3, <2>4
  <1>8. QED
    BY <1>3, <1>4, <1>5, <1>6, <1>7 DEF Inv, Tables

LEMMA StoreUnique ==
  ASSUME Inv, NEW r \in Requests, StoreAll(r)
  PROVE  UniqueRows'
  <1> DEFINE u == loc[r].user
  <1>1. NewUser(r) /\ Fresh(r)
    BY DEF Inv, SessionOK
  <1>2. \A a, b \in rows' : a.key = b.key => a = b
    <2>1. \A k \in txn[r].insert : k \notin Stored
      BY <1>1 DEF Fresh, Pending, Taken
    <2>2. \A a \in rows : a.key \in Stored
      BY DEF Stored
    <2>3. \A a \in rows' : a \in rows \/ \E k \in txn[r].insert : a = [key |-> k, by |-> r]
      BY DEF StoreAll
    <2>4. QED
      BY <2>1, <2>2, <2>3 DEF Inv, UniqueRows
  <1>3. \A v, w \in DOMAIN users', k \in Names : users'[v][k] = users'[w][k] => v = w
    <2>1. CASE users' = users
      BY <2>1 DEF Inv, UniqueRows
    <2>2. CASE users' # users
      <3>1. ASSUME NEW w \in DOMAIN users \ {u}, NEW k \in Names PROVE users'[w][k] # users'[u][k]
        <4>1. u \in Nat /\ users'[w] = users[w]
          BY <2>2, UsersAfter
        <4>2. Name(k, users[w][k]) \in Taken(r)
          BY DEF Taken
        <4>3. CASE txn[r].identity[k] # Keep
          <5>1. Name(k, txn[r].identity[k]) \in Pending(r)
            BY <4>3 DEF Pending
          <5>2. users'[u][k] = txn[r].identity[k]
            BY <2>2, <4>3, UsersAfter
          <5>3. QED
            BY <4>1, <4>2, <5>1, <5>2, <1>1 DEF Fresh
        <4>4. CASE txn[r].identity[k] = Keep
          <5>1. u \in DOMAIN users
            BY <1>1, <4>1, <4>4, WorkspaceAssumption DEF NewUser, New
          <5>2. users'[u][k] = users[u][k]
            BY <2>2, <4>4, UsersAfter
          <5>3. QED
            BY <4>1, <5>1, <5>2 DEF Inv, UniqueRows
        <4>5. QED
          BY <4>3, <4>4
      <3>2. DOMAIN users' = DOMAIN users \cup {u} /\ \A v \in DOMAIN users \ {u} : users'[v] = users[v]
        BY <2>2, UsersAfter
      <3>3. QED
        BY <3>1, <3>2 DEF Inv, UniqueRows
    <2>3. QED
      BY <2>1, <2>2
  <1>4. QED
    BY <1>2, <1>3 DEF UniqueRows

LEMMA StoreWhole ==
  ASSUME Inv, NEW r \in Requests, StoreAll(r)
  PROVE  WholeWorkspaces'
  <1> DEFINE u == loc[r].user
  <1>1. NewUser(r) /\ WritesAsked(r) /\ Inserts(r) /\ WholeWorkspaces
    BY DEF Inv, SessionOK
  <1>2. DOMAIN users \subseteq DOMAIN users' /\ (u \in Nat => u \in DOMAIN users')
    BY <1>1, UsersAfter, WorkspaceAssumption DEF NewUser, New, Names
  <1>3. DOMAIN settings \subseteq DOMAIN settings'
    BY SettingsAfter
  <1>4. \A v \in DOMAIN users' : Account(v) \in Stored'
    <2> SUFFICES ASSUME NEW v \in DOMAIN users' PROVE Account(v) \in Stored'
      OBVIOUS
    <2>1. CASE v \in DOMAIN users
      BY <1>1, <2>1, KeptKeys DEF WholeWorkspaces
    <2>2. CASE v \notin DOMAIN users
      <3>1. v = u /\ New(r)
        BY <2>2, NewOrKept
      <3>2. QED
        BY <1>1, <3>1, StoredAfter DEF NewUser
    <2>3. QED
      BY <2>1, <2>2
  <1>5. ASSUME NEW key \in Stored'
        PROVE  /\ key[1] # "stocks" => key[2] \in DOMAIN users'
               /\ key[1] = "watchlist_items" => Stock(key[3]) \in Stored'
               /\ key[1] = "automation_configs" => key[2] \in DOMAIN settings'
    <2>1. CASE key \in Stored
      BY <1>1, <1>2, <1>3, <2>1, KeptKeys DEF WholeWorkspaces
    <2>2. CASE key \in txn[r].insert
      <3>1. CASE key = Account(u) /\ u \in Nat
        BY <3>1, <1>2, KeyTables
      <3>2. CASE \E c \in Codes : key = Stock(c)
        BY <3>2, KeyTables
      <3>3. CASE key = Config(u) /\ u \in DOMAIN users /\ \A k \in Columns : txn[r].settings[k] # Keep
        <4>1. u \in DOMAIN settings'
          BY <3>3, SettingsAfter, WorkspaceAssumption
        <4>2. QED
          BY <3>3, <4>1, <1>2, KeyTables
      <3>4. CASE /\ key = Item(op[r].user, op[r].code)
                 /\ op[r].user \in DOMAIN users
                 /\ Stock(op[r].code) \in Stored \cup txn[r].insert
        <4>1. Stock(op[r].code) \in Stored'
          BY <3>4, KeptKeys, StoredAfter
        <4>2. QED
          BY <3>4, <4>1, <1>2, KeyTables
      <3>5. QED
        BY <1>1, <2>2, <3>1, <3>2, <3>3, <3>4 DEF Inserts
    <2>3. QED
      BY <2>1, <2>2, StoredAfter
  <1>6. ASSUME NEW v \in DOMAIN settings' PROVE Config(v) \in Stored'
    <2>1. CASE v \in DOMAIN settings
      BY <1>1, <2>1, KeptKeys DEF WholeWorkspaces
    <2>2. CASE v \notin DOMAIN settings
      <3>1. v = loc[r].user /\ \E k \in Columns : txn[r].settings[k] # Keep
        BY <2>2, SettingsAfter
      <3>2. Config(v) \in Stored \cup txn[r].insert
        BY <1>1, <3>1 DEF WritesAsked
      <3>3. QED
        BY <3>2, KeptKeys, StoredAfter
    <2>3. QED
      BY <2>1, <2>2
  <1>7. QED
    BY <1>4, <1>5, <1>6 DEF WholeWorkspaces

LEMMA StoreOfCommitted ==
  ASSUME Inv, NEW r \in Requests, StoreAll(r), op' = op, pc[r] \notin Ended \cup {"idle"},
         \A q \in Requests \ {r} : Same(q),
         pc'[r] = "answer" \/ op[r].kind = "universe"
  PROVE  NothingOfFailed'
  <1>1. WritesAsked(r) /\ Place(r) /\ NothingOfFailed /\ Tables
    BY DEF Inv, SessionOK
  <1>2. \A q \in Requests : Committed(q) => Committed(q)'
    BY DEF Ended, Same, Committed
  <1>3. \A q \in Requests : \A K : CommittedAs(q, K) => CommittedAs(q, K)'
    BY <1>2 DEF CommittedAs
  <1>4. ASSUME NEW row \in rows'
        PROVE  \/ row.by = Founder
               \/ Committed(row.by)'
               \/ op'[row.by].kind = "universe" /\ row.key[1] = "stocks"
    <2>1. CASE row \in rows
      <3>1. row.by \in Requests \cup {Founder}
        BY <1>1, <2>1 DEF Tables
      <3>2. QED
        BY <1>1, <1>2, <2>1, <3>1 DEF NothingOfFailed
    <2>2. CASE row \notin rows
      <3>1. row.by = r /\ row.key \in txn[r].insert
        BY <2>2 DEF StoreAll
      <3>2. op[r].kind = "universe" => row.key[1] = "stocks"
        BY <1>1, <3>1, KeyTables DEF Place
      <3>3. QED
        BY <3>1, <3>2 DEF Committed
    <2>3. QED
      BY <2>1, <2>2
  <1>5. ASSUME NEW v \in DOMAIN users', NEW k \in Names
        PROVE  \/ users'[v][k] = Home[k]
               \/ \E q \in Requests : CommittedAs(q, {"create", "bootstrap"})' /\ op'[q].identity[k] = users'[v][k]
    <2>1. CASE v \in DOMAIN users /\ users'[v][k] = users[v][k]
      BY <1>1, <1>3, <2>1 DEF NothingOfFailed
    <2>2. CASE txn[r].identity[k] # Keep /\ users'[v][k] = txn[r].identity[k]
      BY <1>1, <2>2 DEF WritesAsked, CommittedAs, Committed
    <2>3. QED
      BY <2>1, <2>2, NewOrKept
  <1>6. ASSUME NEW v \in DOMAIN settings', NEW k \in Columns
        PROVE  \/ settings'[v][k] = Default[k]
               \/ \E q \in Requests : /\ CommittedAs(q, {"saveConfig"})' /\ op'[q].user = v
                                      /\ op'[q].settings[k] = settings'[v][k]
    <2>1. CASE v \in DOMAIN settings /\ settings'[v][k] = settings[v][k]
      BY <1>1, <1>3, <2>1 DEF NothingOfFailed
    <2>2. CASE v = loc[r].user /\ txn[r].settings[k] # Keep /\ settings'[v][k] = txn[r].settings[k]
      BY <1>1, <2>2 DEF WritesAsked, CommittedAs, Committed, Asked
    <2>3. CASE v = loc[r].user /\ v \notin DOMAIN settings /\ txn[r].settings[k] = Keep
                 /\ \E l \in Columns : txn[r].settings[l] # Keep
      <3>1. Config(v) \in Stored \cup txn[r].insert
        BY <1>1, <2>3 DEF WritesAsked
      <3>2. Config(v) \notin Stored
        BY <2>3, KeyTables DEF Inv, WholeWorkspaces
      <3>3. QED
        BY <2>3, <3>1, <3>2, KeysDiffer DEF Inv, SessionOK, Inserts
    <2>4. \/ v \in DOMAIN settings /\ settings'[v] = settings[v]
          \/ /\ v = loc[r].user
             /\ \E l \in Columns : txn[r].settings[l] # Keep
             /\ settings'[v][k] = IF txn[r].settings[k] = Keep THEN settings[v][k] ELSE txn[r].settings[k]
      <3>1. CASE settings' = settings
        BY <3>1
      <3>2. CASE settings' # settings /\ v # loc[r].user
        <4>1. /\ DOMAIN settings' = DOMAIN settings \cup {loc[r].user}
              /\ \A w \in DOMAIN settings \ {loc[r].user} : settings'[w] = settings[w]
          BY <3>2, SettingsAfter
        <4>2. QED
          BY <3>2, <4>1
      <3>3. CASE settings' # settings /\ v = loc[r].user
        <4>1. /\ \E l \in Columns : txn[r].settings[l] # Keep
              /\ \A l \in Columns : settings'[loc[r].user][l] =
                   IF txn[r].settings[l] = Keep THEN settings[loc[r].user][l] ELSE txn[r].settings[l]
          BY <3>3, SettingsAfter
        <4>2. QED
          BY <3>3, <4>1
      <3>4. QED
        BY <3>1, <3>2, <3>3
    <2>5. \/ v \in DOMAIN settings /\ settings'[v][k] = settings[v][k]
          \/ v = loc[r].user /\ txn[r].settings[k] # Keep /\ settings'[v][k] = txn[r].settings[k]
          \/ /\ v = loc[r].user /\ v \notin DOMAIN settings /\ txn[r].settings[k] = Keep
             /\ \E l \in Columns : txn[r].settings[l] # Keep
      BY <2>4
    <2>6. QED
      BY <2>1, <2>2, <2>3, <2>5
  <1>7. QED
    BY <1>4, <1>5, <1>6 DEF NothingOfFailed

LEMMA StoreOther ==
  ASSUME Inv, NEW r \in Requests, StoreAll(r), UNCHANGED <<engine, sequence>>, NEW q \in Requests \ {r}, Same(q)
  PROVE  SessionOK(q)' /\ (New(q)' => New(q))
  <1> DEFINE u == loc[r].user
  <1>0. SessionOK(q) /\ SessionOK(r)
    BY DEF Inv
  <1>1. DOMAIN users \subseteq DOMAIN users'
    BY UsersAfter
  <1>2. Shape(q)'
    BY <1>0 DEF SessionOK, Shape, Same
  <1>3. Pending(q)' = Pending(q)
    BY DEF Pending, Same
  <1>4. Held(q)'
    BY <1>0, <1>3 DEF SessionOK, Held, Same, Wanted
  <1>5. Fresh(q)'
    <2>1. Taken(q)' \subseteq Taken(q) \cup Pending(r)
      <3>1. Stored' \subseteq Stored \cup Pending(r)
        BY StoredAfter DEF Pending
      <3>2. ASSUME NEW k \in Names, NEW v \in DOMAIN users' \ {loc[q].user}
            PROVE  Name(k, users'[v][k]) \in Taken(q) \cup Pending(r)
        <4>1. CASE v \in DOMAIN users /\ users'[v][k] = users[v][k]
          BY <4>1 DEF Taken
        <4>2. CASE txn[r].identity[k] # Keep /\ users'[v][k] = txn[r].identity[k]
          BY <4>2 DEF Pending
        <4>3. QED
          BY <4>1, <4>2, NewOrKept
      <3>3. loc'[q] = loc[q]
        BY DEF Same
      <3>4. QED
        BY <3>1, <3>2, <3>3 DEF Taken
    <2>2. QED
      BY <2>1, <1>0, <1>3, PendingApart DEF SessionOK, Fresh
  <1>6. New(q)' => New(q)
    BY <1>1 DEF New, Same
  <1>7. NewUser(q)'
    <2>1. ASSUME engine = "sqlite", New(q) PROVE users' = users
      <3>1. <<"db">> \in locks[q]
        BY <1>0, <2>1 DEF SessionOK, NewUser
      <3>2. ASSUME NEW k \in Names, txn[r].identity[k] # Keep PROVE FALSE
        <4>1. Name(k, txn[r].identity[k]) \in Pending(r)
          BY <3>2 DEF Pending
        <4>2. <<"db">> \in locks[r]
          BY <1>0, <2>1, <4>1 DEF SessionOK, Held, Wanted
        <4>3. QED
          BY <3>1, <4>2 DEF Inv, LocksApart
      <3>3. QED
        BY <3>2, UsersAfter
    <2>2. QED
      BY <1>0, <1>6, <2>1 DEF SessionOK, NewUser, Same
  <1>8. WritesAsked(q)'
    <2>1. ASSUME NEW v, Config(v) \in Stored PROVE Config(v) \in Stored'
      BY <2>1, KeptKeys
    <2>2. QED
      BY <1>0, <1>1, <2>1 DEF SessionOK, WritesAsked, Same, Asked
  <1>9. Inserts(q)'
    BY <1>0, <1>1, KeptKeys DEF SessionOK, Inserts, Same
  <1>10. Place(q)'
    BY <1>0, <1>1, KeptKeys DEF SessionOK, Place, Same
  <1>11. QED
    BY <1>2, <1>4, <1>5, <1>6, <1>7, <1>8, <1>9, <1>10 DEF SessionOK

LEMMA CommitOK ==
  ASSUME Inv, NEW r \in Requests, Commit(r) \/ CommitStock(r), UNCHANGED <<engine, op>>
  PROVE  Inv'
  <1>0. sequence' = sequence /\ StoreAll(r)
    BY DEF Commit, CommitStock
  <1>1. /\ Arrays' /\ \A q \in Requests \ {r} : Same(q)
        /\ locks'[r] = {} /\ txn'[r] = NoWrites /\ pc[r] \in {"commit", "save"}
        /\ \/ pc'[r] = "answer" /\ loc'[r] = NoLocals
           \/ pc[r] = "save" /\ pc'[r] = "stock" /\ loc'[r] = loc[r]
    BY DEF Inv, Arrays, Commit, CommitStock, End, Go, Same
  <1>2. pc[r] \notin Ended \cup {"idle"}
    BY <1>1 DEF Ended
  <1>3. SessionOK(r)
    BY DEF Inv
  <1>4. pc[r] = "save" => op[r].kind = "universe"
    BY <1>3 DEF SessionOK, Place
  <1>5. Tables' /\ UniqueRows' /\ WholeWorkspaces'
    BY <1>0, StoreTables, StoreUnique, StoreWhole
  <1>6. NothingOfFailed'
    BY <1>0, <1>1, <1>2, <1>4, StoreOfCommitted
  <1>7. \A q \in Requests \ {r} : SessionOK(q)' /\ (New(q)' => New(q))
    BY <1>0, <1>1, StoreOther
  <1>8. ~ New(r)'
    <2>1. CASE loc'[r] = NoLocals
      BY <2>1 DEF New, NoLocals
    <2>2. CASE op[r].kind = "universe" /\ loc'[r] = loc[r]
      <3>1. ~ New(r)
        BY <1>3, <2>2 DEF SessionOK, NewUser, WritesAsked, Names
      <3>2. DOMAIN users \subseteq DOMAIN users'
        BY <1>0, UsersAfter
      <3>3. QED
        BY <2>2, <3>1, <3>2 DEF New
    <2>3. QED
      BY <1>1, <1>4, <2>1, <2>2
  <1>9. Pending(r)' = {}
    BY <1>1 DEF Pending, NoWrites, Names
  <1>10. Shape(r)'
    <2>1. pc'[r] \in Places /\ pc'[r] # "idle" /\ op'[r] \in Operations
      BY <1>1, <1>2, RunningSession DEF Places, CleanPlaces, Ended
    <2>2. /\ DOMAIN loc'[r] = {"user", "seen", "todo"} /\ loc'[r].user \in Nat \cup {NoUser}
          /\ loc'[r].todo \in Seq(Codes)
      <3>1. CASE loc'[r] = NoLocals
        BY <3>1 DEF NoLocals
      <3>2. CASE loc'[r] = loc[r]
        BY <3>2, <1>2, RunningSession
      <3>3. QED
        BY <1>1, <3>1, <3>2
    <2>3. QED
      BY <1>1, <2>1, <2>2 DEF Shape, NoWrites
  <1>11. WritesAsked(r)' /\ Inserts(r)'
    BY <1>1 DEF WritesAsked, Inserts, NoWrites
  <1>12. Place(r)'
    <2>1. txn'[r].insert = {}
      BY <1>1 DEF NoWrites
    <2>2. QED
      BY <1>1, <1>4, <2>1 DEF Place
  <1>13. SessionOK(r)'
    BY <1>8, <1>9, <1>10, <1>11, <1>12 DEF SessionOK, Held, Fresh, NewUser
  <1>14. LocksApart'
    BY <1>1 DEF Inv, LocksApart, Same
  <1>15. UsersApart'
    BY <1>1, <1>7, <1>8 DEF Inv, UsersApart, Same
  <1>16. QED
    BY <1>1, <1>5, <1>6, <1>7, <1>13, <1>14, <1>15 DEF Inv

-----------------------------------------------------------------------------
(* The end of a session that has committed, and of one that fails.         *)
LEMMA AnswerOK ==
  ASSUME Inv, NEW r \in Requests, Answer(r) \/ Fail(r), UNCHANGED <<engine, op>>
  PROVE  Inv'
  <1>0. sequence' = sequence /\ sequence \in Nat
    BY DEF Answer, Fail, Inv, Tables
  <1>1. CASE pc[r] = "answer"
    <2>1. PICK how \in {"ok", "lost"} : RollBack(r, how)
      BY <1>1 DEF Answer, Fail
    <2>2. QED
      BY <1>0, <1>1, <2>1, RollBackOK DEF Ended
  <1>2. CASE pc[r] # "answer"
    <2>1. RollBack(r, "error") /\ pc[r] \notin Ended \cup {"idle"}
      BY <1>2 DEF Answer, Fail, Ended
    <2>2. QED
      BY <1>0, <2>1, RollBackOK DEF Ended
  <1>3. QED
    BY <1>1, <1>2

LEMMA InitOK ==
  ASSUME Init
  PROVE  Inv
  <1>1. Arrays
    BY DEF Init, Arrays
  <1>2. DOMAIN users = {} \/ (DOMAIN users = {1} /\ users[1] = Home)
    BY DEF Init
  <1>3. Tables
    <2>1. DOMAIN users = 1 .. 0 \/ DOMAIN users = 1 .. 1
      BY <1>2
    <2>2. engine \in Engines /\ sequence \in Nat /\ DOMAIN settings = {}
      BY DEF Init
    <2>3. \A row \in rows : DOMAIN row = {"key", "by"} /\ row.by \in Requests \cup {Founder}
      BY DEF Init
    <2>4. \A u \in DOMAIN users : DOMAIN users[u] = Names /\ u = 1 /\ u <= sequence
      BY <1>2, WorkspaceAssumption DEF Init
    <2>5. \E n \in Nat : DOMAIN users = 1 .. n
      <3>1. 0 \in Nat /\ 1 \in Nat
        OBVIOUS
      <3>2. QED
        BY <2>1, <3>1
    <2>6. QED
      BY <2>2, <2>3, <2>4, <2>5 DEF Tables
  <1>4. UniqueRows
    BY <1>2 DEF Init, UniqueRows
  <1>5. WholeWorkspaces
    <2>1. Stored = {Account(u) : u \in DOMAIN users}
      <3>1. CASE rows = {} /\ DOMAIN users = {}
        BY <3>1 DEF Stored
      <3>2. CASE rows = {[key |-> Account(1), by |-> Founder]} /\ DOMAIN users = {1}
        BY <3>2 DEF Stored
      <3>3. QED
        BY <3>1, <3>2 DEF Init
    <2>2. DOMAIN settings = {}
      BY DEF Init
    <2>3. QED
      BY <2>1, <2>2, KeyTables DEF WholeWorkspaces
  <1>6. NothingOfFailed
    <2>1. DOMAIN settings = {} /\ \A row \in rows : row.by = Founder
      BY DEF Init
    <2>2. QED
      BY <1>2, <2>1 DEF NothingOfFailed
  <1>7. LocksApart /\ UsersApart
    BY DEF Init, LocksApart, UsersApart, New, NoLocals
  <1>8. ASSUME NEW r \in Requests PROVE SessionOK(r)
    <2>1. /\ pc[r] = "idle" /\ op[r] = [kind |-> "none"] /\ loc[r] = NoLocals
          /\ locks[r] = {} /\ txn[r] = NoWrites
      BY DEF Init
    <2>2. Shape(r)
      BY <2>1 DEF Shape, Places, CleanPlaces, NoLocals, NoWrites
    <2>3. Pending(r) = {} /\ ~ New(r)
      BY <2>1, NoWritesPending DEF New, NoLocals
    <2>4. WritesAsked(r) /\ Inserts(r) /\ Place(r)
      BY <2>1 DEF WritesAsked, Inserts, Place, NoWrites
    <2>5. QED
      BY <2>2, <2>3, <2>4 DEF SessionOK, Held, Fresh, NewUser
  <1>9. QED
    BY <1>1, <1>3, <1>4, <1>5, <1>6, <1>7, <1>8 DEF Inv

LEMMA NextOK ==
  ASSUME Inv, Next
  PROVE  Inv'
  <1>1. PICK r \in Requests : (Start(r) \/ (Request(r) /\ UNCHANGED op)) /\ UNCHANGED engine
    BY DEF Next
  <1>2. CASE Start(r)
    BY <1>1, <1>2, StartOK
  <1>3. CASE Request(r) /\ UNCHANGED op
    <2>1. CASE Locate(r)
      BY <1>1, <1>3, <2>1, LocateOK
    <2>2. CASE Find(r) \/ Identify(r)
      BY <1>1, <1>3, <2>2, FindOK
    <2>3. CASE InsertUser(r)
      BY <1>1, <1>3, <2>3, InsertUserOK
    <2>4. CASE Adopt(r)
      BY <1>1, <1>3, <2>4, AdoptOK
    <2>5. CASE LookStock(r)
      BY <1>1, <1>3, <2>5, LookStockOK
    <2>6. CASE InsertStock(r)
      BY <1>1, <1>3, <2>6, InsertStockOK
    <2>7. CASE EndOfCodes(r)
      BY <1>1, <1>3, <2>7, EndOfCodesOK
    <2>8. CASE Check(r)
      BY <1>1, <1>3, <2>8, CheckOK
    <2>9. CASE InsertItem(r)
      BY <1>1, <1>3, <2>9, InsertItemOK
    <2>10. CASE Remove(r)
      BY <1>1, <1>3, <2>10, RemoveOK
    <2>11. CASE Look(r)
      BY <1>1, <1>3, <2>11, LookOK
    <2>12. CASE Upsert(r)
      BY <1>1, <1>3, <2>12, UpsertOK
    <2>13. CASE InsertConfig(r)
      BY <1>1, <1>3, <2>13, InsertConfigOK
    <2>14. CASE UpdateConfig(r)
      BY <1>1, <1>3, <2>14, UpdateConfigOK
    <2>15. CASE Commit(r) \/ CommitStock(r)
      BY <1>1, <1>3, <2>15, CommitOK
    <2>16. CASE Answer(r) \/ Fail(r)
      BY <1>1, <1>3, <2>16, AnswerOK
    <2>17. QED
      BY <1>3, <2>1, <2>2, <2>3, <2>4, <2>5, <2>6, <2>7, <2>8, <2>9, <2>10, <2>11, <2>12, <2>13, <2>14, <2>15,
         <2>16 DEF Request
  <1>4. QED
    BY <1>1, <1>2, <1>3

LEMMA StutterOK ==
  ASSUME Inv, UNCHANGED vars
  PROVE  Inv'
  <1>1. \A q \in Requests : Same(q)
    BY DEF vars, Same
  <1>2. \A q \in Requests : SessionOK(q)' /\ (New(q)' <=> New(q))
    BY <1>1, QuietOther DEF vars, Inv, Tables, SessionOK, Shape
  <1>3. Stored' = Stored
    BY DEF vars, Stored
  <1>4. Arrays' /\ Tables' /\ UniqueRows' /\ WholeWorkspaces'
    BY <1>3 DEF vars, Inv, Arrays, Tables, UniqueRows, WholeWorkspaces
  <1>5. NothingOfFailed'
    BY DEF vars, Inv, NothingOfFailed, CommittedAs, Committed
  <1>6. LocksApart' /\ UsersApart'
    BY <1>2 DEF vars, Inv, LocksApart, UsersApart
  <1>7. QED
    BY <1>2, <1>4, <1>5, <1>6 DEF Inv

(* The invariant holds for any number of requests, on both databases.      *)
THEOREM WorkspaceInvariant == Spec => []Inv
  <1>1. Init => Inv
    BY InitOK
  <1>2. Inv /\ [Next]_vars => Inv'
    BY NextOK, StutterOK
  <1>3. QED
    BY <1>1, <1>2, PTL DEF Spec

(* Every variable keeps its type, and a request that has ended holds no    *)
(* lock and no uncommitted write (db/session.py, get_db).                  *)
THEOREM WorkspaceTypes == Spec => []TypeOK
  <1>1. Inv => TypeOK
    <2> SUFFICES ASSUME Inv PROVE TypeOK
      OBVIOUS
    <2>1. ASSUME NEW r \in Requests
          PROVE  /\ pc[r] \in Places
                 /\ pc[r] = "idle" \/ op[r] \in Operations
                 /\ loc[r].todo \in Seq(Codes)
                 /\ loc[r].user \in Nat \cup {NoUser}
                 /\ pc[r] \in {"idle", "answer", "ok", "refused", "error", "lost"} => locks[r] = {} /\ txn[r] = NoWrites
      BY DEF Inv, SessionOK, Shape, CleanPlaces, Ended
    <2>2. QED
      BY <2>1 DEF Inv, Tables, TypeOK, Places, CleanPlaces, Ended
  <1>2. QED
    BY <1>1, WorkspaceInvariant, PTL

(* No two rows have the same key, whatever two requests saw before they    *)
(* inserted (create_user, add_item, upsert_automation_config,              *)
(* upsert_stock).                                                          *)
THEOREM RowsAreUnique == Spec => []UniqueRows
  <1>1. Inv => UniqueRows
    BY DEF Inv
  <1>2. QED
    BY <1>1, WorkspaceInvariant, PTL

(* A user has its account, a row its user, an item its stock and a config  *)
(* its values.                                                             *)
THEOREM WorkspacesAreWhole == Spec => []WholeWorkspaces
  <1>1. Inv => WholeWorkspaces
    BY DEF Inv
  <1>2. QED
    BY <1>1, WorkspaceInvariant, PTL

-----------------------------------------------------------------------------
(* What a request will have left once it has committed.  A code it was     *)
(* asked for has its stock, or is still to come; and when the request      *)
(* commits, its own row is there or among its writes.                      *)
CodesKept(r) ==
  \A i \in DOMAIN CodesOf(op[r]) :
    \/ Stock(CodesOf(op[r])[i]) \in Stored \cup txn[r].insert
    \/ pc[r] # "commit" /\ \E j \in DOMAIN loc[r].todo : loc[r].todo[j] = CodesOf(op[r])[i]

RowKept(r) ==
  /\ op[r].kind = "create" => Account(loc[r].user) \in txn[r].insert
  /\ op[r].kind \in {"readConfig", "saveConfig"} => Config(op[r].user) \in Stored \cup txn[r].insert
  /\ op[r].kind = "watch" => Item(op[r].user, op[r].code) \in txn[r].insert

Complete(r) ==
  /\ pc[r] \notin Ended => CodesKept(r)
  /\ pc[r] = "commit" => RowKept(r)

Promises == AllOfCommitted /\ \A r \in Requests : Complete(r)

LEMMA NoCodes ==
  ASSUME NEW r \in Requests, op[r].kind \notin {"watch", "bootstrap", "universe"}
  PROVE  DOMAIN CodesOf(op[r]) = {}
  BY DEF CodesOf

(* A request reads, writes, commits or ends; only a commit changes rows.   *)
LEMMA RequestEffect ==
  ASSUME Inv, NEW r \in Requests, Start(r) \/ (Request(r) /\ UNCHANGED op)
  PROVE  /\ \A q \in Requests \ {r} : Same(q)
         /\ pc[r] # "idle" => op'[r] = op[r]
         /\ rows' = rows \/ Commit(r) \/ CommitStock(r)
         /\ Committed(r) => Committed(r)'
         /\ Committed(r)' => Committed(r) \/ Commit(r)
  <1> DEFINE Running == {"idle", "commit", "locate", "find", "identify", "insertUser", "adopt", "stock",
                         "insertStock", "save", "check", "insertItem", "remove", "look", "upsert",
                         "insertConfig", "updateConfig"}
             Rest == \A q \in Requests \ {r} : Same(q)
  <1>1. ASSUME NEW how, RollBack(r, how), UNCHANGED op
        PROVE  Rest /\ rows' = rows /\ pc'[r] = how
    BY <1>1 DEF Inv, Arrays, RollBack, End, Go, Same, tables
  <1>2. ASSUME NEW where, NEW local, Step(r, where, local), UNCHANGED op
        PROVE  Rest /\ rows' = rows /\ pc'[r] = where
    BY <1>2 DEF Inv, Arrays, Step, Go, Same
  <1>3. ASSUME NEW held, NEW writes, NEW where, NEW local, Write(r, held, writes, where, local), UNCHANGED op
        PROVE  Rest /\ rows' = rows /\ pc'[r] = where
    BY <1>3 DEF Inv, Arrays, Write, Go, Same, tables
  <1>4. CASE Start(r)
    <2>1. PICK o \in Operations :
            op' = [op EXCEPT ![r] = o] /\ Step(r, First[o.kind], [NoLocals EXCEPT !.todo = CodesOf(o)])
      BY <1>4 DEF Start
    <2>2. Rest /\ rows' = rows /\ pc'[r] = First[o.kind]
      BY <2>1 DEF Inv, Arrays, Step, Go, Same
    <2>3. First[o.kind] \in {"find", "locate", "look", "stock", "remove"}
      BY OperationShape DEF First
    <2>4. QED
      BY <1>4, <2>2, <2>3 DEF Start, Committed
  <1>5. ASSUME Request(r), UNCHANGED op
        PROVE  /\ Rest
               /\ rows' = rows \/ Commit(r) \/ CommitStock(r)
               /\ \/ pc[r] \in Running /\ pc'[r] \in Running \cup {"refused", "error"}
                  \/ Committed(r) /\ Committed(r)'
                  \/ Commit(r)
    <2>1. CASE Locate(r) \/ Find(r) \/ Identify(r)
      BY <1>1, <1>2, <1>5, <2>1 DEF Locate, Find, Identify, Reject
    <2>2. CASE Check(r) \/ EndOfCodes(r) \/ Look(r) \/ Upsert(r)
      BY <1>1, <1>2, <1>5, <2>2 DEF Check, EndOfCodes, Look, Upsert
    <2>3. CASE LookStock(r)
      <3>1. Then(op[r].kind) \in {"check", "stock", "save"} /\ pc[r] = "stock"
        BY <2>3, ThenPlaces DEF LookStock, Inv, SessionOK, Place
      <3>2. QED
        BY <1>2, <1>5, <2>3, <3>1 DEF LookStock
    <2>4. CASE InsertStock(r)
      <3>1. Then(op[r].kind) \in {"check", "stock", "save"} /\ pc[r] = "insertStock"
        BY <2>4, ThenPlaces DEF InsertStock, Inv, SessionOK, Place
      <3>2. QED
        BY <1>1, <1>3, <1>5, <2>4, <3>1 DEF InsertStock, WriteNew
    <2>5. CASE InsertUser(r) \/ Adopt(r)
      BY <1>1, <1>3, <1>5, <2>5 DEF InsertUser, Adopt, WriteNew
    <2>6. CASE InsertItem(r) \/ InsertConfig(r)
      BY <1>1, <1>3, <1>5, <2>6 DEF InsertItem, InsertConfig, WriteNew
    <2>7. CASE Remove(r) \/ UpdateConfig(r)
      BY <1>1, <1>3, <1>5, <2>7 DEF Remove, UpdateConfig
    <2>8. CASE Commit(r)
      BY <1>5, <2>8 DEF Commit, Inv, Arrays, End, Go, Same
    <2>9. CASE CommitStock(r)
      BY <1>5, <2>9 DEF CommitStock, Inv, Arrays, Go, Same
    <2>10. CASE Answer(r)
      BY <1>1, <1>5, <2>10 DEF Answer, Committed
    <2>11. CASE Fail(r)
      <3>1. CASE pc[r] = "answer"
        BY <1>1, <1>5, <2>11, <3>1 DEF Fail, Committed
      <3>2. CASE pc[r] # "answer"
        <4>1. pc[r] \in Running
          BY <2>11, <3>2 DEF Fail, Inv, SessionOK, Shape, Places, CleanPlaces, Ended
        <4>2. QED
          BY <1>1, <1>5, <2>11, <3>2, <4>1 DEF Fail
      <3>3. QED
        BY <3>1, <3>2
    <2>12. QED
      BY <1>5, <2>1, <2>2, <2>3, <2>4, <2>5, <2>6, <2>7, <2>8, <2>9, <2>10, <2>11 DEF Request
  <1>6. CASE Request(r) /\ UNCHANGED op
    <2>1. Commit(r) => Committed(r)' /\ ~ Committed(r)
      BY DEF Commit, End, Go, Committed, Inv, Arrays
    <2>2. QED
      BY <1>5, <1>6, <2>1 DEF Committed
  <1>7. QED
    BY <1>4, <1>6

(* Of the rows, only watchlist items go, and those with the commit of a    *)
(* request that was asked to remove them.                                  *)
LEMMA RowsRemain ==
  ASSUME Inv, NEW r \in Requests, rows' = rows \/ Commit(r) \/ CommitStock(r), op' = op \/ rows' = rows
  PROVE  /\ \A v : Config(v) \in Stored => Config(v) \in Stored'
         /\ \A c : Stock(c) \in Stored => Stock(c) \in Stored'
         /\ \A v, q : [key |-> Account(v), by |-> q] \in rows => [key |-> Account(v), by |-> q] \in rows'
         /\ \A v, c : Item(v, c) \in Stored =>
              Item(v, c) \in Stored' \/ (CommittedAs(r, {"unwatch"})' /\ op'[r].user = v /\ op'[r].code = c)
  <1>1. CASE rows' = rows
    BY <1>1 DEF Stored
  <1>2. CASE (Commit(r) \/ CommitStock(r)) /\ op' = op
    <2>1. StoreAll(r)
      BY <1>2 DEF Commit, CommitStock
    <2>2. txn[r].delete # {} => op[r].kind = "unwatch" /\ txn[r].delete = {Item(op[r].user, op[r].code)}
      BY DEF Inv, SessionOK, WritesAsked
    <2>3. ASSUME NEW v, NEW q, [key |-> Account(v), by |-> q] \in rows
          PROVE  [key |-> Account(v), by |-> q] \in rows'
      BY <2>1, <2>2, <2>3, KeysDiffer DEF StoreAll
    <2>4. ASSUME NEW v, NEW c, Item(v, c) \in Stored, Item(v, c) \notin Stored'
          PROVE  CommittedAs(r, {"unwatch"})' /\ op'[r].user = v /\ op'[r].code = c
      <3>1. Item(v, c) \in txn[r].delete
        BY <2>1, <2>4, StoredAfter
      <3>2. op[r].kind = "unwatch" /\ op[r].user = v /\ op[r].code = c
        BY <2>2, <3>1, KeysDiffer
      <3>3. Commit(r)
        BY <1>2, <3>2 DEF CommitStock, Inv, SessionOK, Place
      <3>4. pc'[r] = "answer"
        BY <3>3 DEF Commit, End, Go, Inv, Arrays
      <3>5. QED
        BY <1>2, <3>2, <3>4 DEF CommittedAs, Committed
    <2>5. QED
      BY <2>1, <2>3, <2>4, KeptKeys
  <1>3. QED
    BY <1>1, <1>2

(* What a commit stores is what the request was asked for.                 *)
LEMMA CommitKeeps ==
  ASSUME Inv, Inv', NEW r \in Requests, Commit(r), op' = op, Complete(r)
  PROVE  /\ \A i \in DOMAIN CodesOf(op[r]) : Stock(CodesOf(op[r])[i]) \in Stored'
         /\ op[r].kind = "create" => \E u \in DOMAIN users' : [key |-> Account(u), by |-> r] \in rows'
         /\ op[r].kind \in {"readConfig", "saveConfig"} => Config(op[r].user) \in Stored'
         /\ op[r].kind = "watch" => Item(op[r].user, op[r].code) \in Stored'
  <1>1. StoreAll(r) /\ pc[r] = "commit"
    BY DEF Commit
  <1>2. CodesKept(r) /\ RowKept(r)
    BY <1>1 DEF Complete, Ended
  <1>3. txn[r].insert \subseteq Stored'
    BY <1>1, StoredAfter
  <1>4. ASSUME NEW i \in DOMAIN CodesOf(op[r]) PROVE Stock(CodesOf(op[r])[i]) \in Stored'
    BY <1>1, <1>2, <1>3, KeptKeys DEF CodesKept
  <1>5. ASSUME op[r].kind = "create"
        PROVE  \E u \in DOMAIN users' : [key |-> Account(u), by |-> r] \in rows'
    <2>1. Account(loc[r].user) \in txn[r].insert
      BY <1>2, <1>5 DEF RowKept
    <2>2. [key |-> Account(loc[r].user), by |-> r] \in rows'
      BY <1>1, <2>1 DEF StoreAll
    <2>3. Account(loc[r].user) \in Stored'
      BY <1>3, <2>1
    <2>4. loc[r].user \in DOMAIN users'
      BY <2>3, KeyTables DEF Inv, WholeWorkspaces
    <2>5. QED
      BY <2>2, <2>4
  <1>6. op[r].kind \in {"readConfig", "saveConfig"} => Config(op[r].user) \in Stored'
    BY <1>1, <1>2, <1>3, KeptKeys DEF RowKept
  <1>7. op[r].kind = "watch" => Item(op[r].user, op[r].code) \in Stored'
    BY <1>2, <1>3 DEF RowKept
  <1>8. QED
    BY <1>4, <1>5, <1>6, <1>7

LEMMA OtherComplete ==
  ASSUME NEW q \in Requests, Same(q), Complete(q),
         \A v : Config(v) \in Stored => Config(v) \in Stored',
         \A c : Stock(c) \in Stored => Stock(c) \in Stored'
  PROVE  Complete(q)'
  BY DEF Same, Complete, CodesKept, RowKept

(* A request that goes on keeps its codes, ...                             *)
LEMMA GoesOn ==
  ASSUME NEW r \in Requests, CodesKept(r), op'[r] = op[r], pc'[r] # "commit", loc'[r].todo = loc[r].todo,
         \A c : Stock(c) \in Stored \cup txn[r].insert => Stock(c) \in Stored' \cup txn'[r].insert
  PROVE  Complete(r)'
  BY DEF Complete, CodesKept

(* ... also when it is done with one of them ...                           *)
LEMMA DoneWithOne ==
  ASSUME NEW r \in Requests, CodesKept(r), op'[r] = op[r], pc'[r] # "commit",
         loc[r].todo \in Seq(Codes), loc[r].todo # <<>>, loc'[r].todo = Tail(loc[r].todo),
         \A c : Stock(c) \in Stored \cup txn[r].insert => Stock(c) \in Stored' \cup txn'[r].insert,
         Stock(Head(loc[r].todo)) \in Stored' \cup txn'[r].insert
  PROVE  Complete(r)'
  <1> DEFINE todo == loc[r].todo
  <1>1. \A j \in DOMAIN todo : todo[j] = Head(todo) \/ \E i \in DOMAIN Tail(todo) : Tail(todo)[i] = todo[j]
    <2> SUFFICES ASSUME NEW j \in DOMAIN todo, todo[j] # Head(todo)
                 PROVE  \E i \in DOMAIN Tail(todo) : Tail(todo)[i] = todo[j]
      OBVIOUS
    <2>1. j \in 2 .. Len(todo)
      OBVIOUS
    <2>2. j - 1 \in DOMAIN Tail(todo) /\ Tail(todo)[j - 1] = todo[j]
      BY <2>1
    <2>3. QED
      BY <2>2
  <1>2. ASSUME NEW i \in DOMAIN CodesOf(op[r])
        PROVE  \/ Stock(CodesOf(op[r])[i]) \in Stored' \cup txn'[r].insert
               \/ \E j \in DOMAIN Tail(todo) : Tail(todo)[j] = CodesOf(op[r])[i]
    BY <1>1 DEF CodesKept
  <1>3. QED
    BY <1>2 DEF Complete, CodesKept

(* ... and before it commits, all of them are there.                       *)
LEMMA AboutToCommit ==
  ASSUME NEW r \in Requests, op'[r] = op[r],
         \A i \in DOMAIN CodesOf(op[r]) : Stock(CodesOf(op[r])[i]) \in Stored' \cup txn'[r].insert,
         RowKept(r)'
  PROVE  Complete(r)'
  BY DEF Complete, CodesKept

LEMMA ReadsComplete ==
  ASSUME Inv, NEW r \in Requests, Complete(r), UNCHANGED op,
         \/ Locate(r) \/ Find(r) \/ Identify(r) \/ Check(r) \/ Upsert(r)
         \/ LookStock(r) \/ EndOfCodes(r) \/ Look(r) \/ Answer(r) \/ Fail(r)
  PROVE  Complete(r)'
  <1>1. ASSUME NEW how \in Ended, RollBack(r, how)
        PROVE  Complete(r)'
    BY <1>1 DEF Complete, Ended, RollBack, End, Go, Inv, Arrays
  <1>2. ASSUME NEW where, NEW local, Step(r, where, local)
        PROVE  pc'[r] = where /\ loc'[r] = local /\ txn'[r] = txn[r] /\ Stored' = Stored
    BY <1>2, StepEffect
  <1>3. ASSUME NEW where, NEW local, Step(r, where, local), where # "commit", local.todo = loc[r].todo,
               pc[r] \notin Ended
        PROVE  Complete(r)'
    BY <1>2, <1>3, GoesOn DEF Complete
  <1>4. CASE Locate(r)
    <2>1. pc[r] \notin Ended \cup {"idle"} /\ DOMAIN loc[r] = {"user", "seen", "todo"}
      BY <1>4, RunningSession DEF Locate, Ended
    <2>2. \A u, t : [loc[r] EXCEPT !.user = u, !.seen = t].todo = loc[r].todo
      BY <2>1
    <2>3. QED
      BY <1>1, <1>3, <1>4, <2>1, <2>2 DEF Locate, Ended
  <1>5. CASE Find(r) \/ Identify(r) \/ Check(r)
    BY <1>1, <1>3, <1>5 DEF Find, Identify, Reject, Check, Ended
  <1>6. CASE Upsert(r)
    <2>1. pc[r] \notin Ended \cup {"idle"} /\ DOMAIN loc[r] = {"user", "seen", "todo"}
      BY <1>6, RunningSession DEF Upsert, Ended
    <2>2. \A t : [loc[r] EXCEPT !.seen = t].todo = loc[r].todo
      BY <2>1
    <2>3. QED
      BY <1>3, <1>6, <2>1, <2>2 DEF Upsert
  <1>7. CASE LookStock(r)
    <2>1. pc[r] = "stock" /\ pc[r] \notin Ended \cup {"idle"} /\ loc[r].todo # <<>>
      BY <1>7 DEF LookStock, Ended
    <2>2. DOMAIN loc[r] = {"user", "seen", "todo"} /\ loc[r].todo \in Seq(Codes)
      BY <2>1, RunningSession
    <2>3. Then(op[r].kind) \in {"check", "stock", "save"}
      BY <2>1, ThenPlaces DEF Inv, SessionOK, Place
    <2>4. CASE Stock(Head(loc[r].todo)) \in Keys(r) /\ Step(r, Then(op[r].kind), Drop(r))
      <3>1. Drop(r).todo = Tail(loc[r].todo)
        BY <2>2 DEF Drop
      <3>2. Stock(Head(loc[r].todo)) \in Stored \cup txn[r].insert
        BY <2>4 DEF Keys
      <3>3. pc'[r] # "commit" /\ loc'[r] = Drop(r) /\ txn'[r] = txn[r] /\ Stored' = Stored
        BY <1>2, <2>3, <2>4
      <3>4. QED
        BY <2>1, <2>2, <3>1, <3>2, <3>3, DoneWithOne DEF Complete
    <2>5. CASE Step(r, "insertStock", loc[r])
      BY <1>3, <2>1, <2>5
    <2>6. QED
      BY <1>7, <2>4, <2>5 DEF LookStock
  <1>8. CASE EndOfCodes(r)
    <2>1. pc[r] = "stock" /\ pc[r] \notin Ended /\ loc[r].todo = <<>>
      BY <1>8 DEF EndOfCodes, Ended
    <2>2. op[r].kind \in {"bootstrap", "universe"}
      BY <2>1 DEF Inv, SessionOK, Place
    <2>3. \A i \in DOMAIN CodesOf(op[r]) : Stock(CodesOf(op[r])[i]) \in Stored \cup txn[r].insert
      BY <2>1 DEF Complete, CodesKept
    <2>4. CASE Step(r, "commit", loc[r])
      BY <1>2, <2>2, <2>3, <2>4, AboutToCommit DEF RowKept
    <2>5. QED
      BY <1>1, <1>8, <2>4 DEF EndOfCodes, Ended
  <1>9. CASE Look(r)
    <2>1. pc[r] = "look" /\ pc[r] \notin Ended \cup {"idle"} /\ op[r].kind \in {"readConfig", "saveConfig"}
      BY <1>9 DEF Look, Ended, Inv, SessionOK, Place
    <2>2. DOMAIN loc[r] = {"user", "seen", "todo"}
      BY <2>1, RunningSession
    <2>3. [loc[r] EXCEPT !.user = op[r].user].todo = loc[r].todo
      BY <2>2
    <2>4. CASE Config(op[r].user) \in Stored /\ Step(r, "commit", [loc[r] EXCEPT !.user = op[r].user])
      BY <1>2, <2>1, <2>4, NoCodes, AboutToCommit DEF RowKept
    <2>5. CASE Step(r, "upsert", [loc[r] EXCEPT !.user = op[r].user])
      BY <1>3, <2>1, <2>3, <2>5
    <2>6. QED
      BY <1>1, <1>9, <2>4, <2>5 DEF Look, Ended
  <1>10. CASE Answer(r) \/ Fail(r)
    BY <1>1, <1>10 DEF Answer, Fail, Ended
  <1>11. QED
    BY <1>4, <1>5, <1>6, <1>7, <1>8, <1>9, <1>10

LEMMA WritesComplete ==
  ASSUME Inv, NEW r \in Requests, Complete(r), UNCHANGED op,
         \/ InsertUser(r) \/ Adopt(r) \/ InsertStock(r) \/ InsertItem(r)
         \/ Remove(r) \/ InsertConfig(r) \/ UpdateConfig(r)
  PROVE  Complete(r)'
  <1>1. ASSUME NEW how \in Ended, RollBack(r, how)
        PROVE  Complete(r)'
    BY <1>1 DEF Complete, Ended, RollBack, End, Go, Inv, Arrays
  <1>2. ASSUME NEW held, NEW writes, NEW where, NEW local, Write(r, held, writes, where, local)
        PROVE  pc'[r] = where /\ loc'[r] = local /\ txn'[r] = writes /\ Stored' = Stored
    BY <1>2 DEF Inv, Arrays, Write, Go, Stored, tables
  <1>3. pc[r] \notin Ended \cup {"idle"} /\ "error" \in Ended /\ "refused" \in Ended
    BY DEF Ended, InsertUser, Adopt, InsertStock, InsertItem, Remove, InsertConfig, UpdateConfig
  <1>4. /\ CodesKept(r) /\ Place(r) /\ DOMAIN loc[r] = {"user", "seen", "todo"} /\ loc[r].todo \in Seq(Codes)
        /\ DOMAIN txn[r] = {"identity", "settings", "insert", "delete"}
    BY <1>3, RunningSession DEF Complete, Inv, SessionOK
  <1>5. CASE InsertUser(r)
    <2> DEFINE local == [loc[r] EXCEPT !.user = NewId, !.seen = op[r].identity]
               where == IF op[r].kind = "create" THEN "commit" ELSE "adopt"
    <2>1. local.todo = loc[r].todo /\ local.user = NewId
      BY <1>4
    <2>2. txn[r].insert = {}
      BY <1>5, <1>3, RunningSession DEF InsertUser, CleanPlaces, NoWrites
    <2>3. CreateUser(r).insert = {Account(NewId)}
      BY DEF CreateUser, NoWrites
    <2>4. ASSUME NEW held, Write(r, held, CreateUser(r), where, local)
          PROVE  Complete(r)'
      <3> HIDE DEF local
      <3>1. pc'[r] = where /\ loc'[r] = local /\ txn'[r] = CreateUser(r) /\ Stored' = Stored
        BY <1>2, <2>4
      <3>2. CASE op[r].kind = "create"
        BY <2>1, <2>3, <3>1, <3>2, NoCodes, AboutToCommit DEF RowKept
      <3>3. CASE op[r].kind # "create"
        BY <1>4, <2>1, <2>2, <3>1, <3>3, GoesOn
      <3>4. QED
        BY <3>2, <3>3
    <2>5. QED
      BY <1>1, <1>3, <1>5, <2>4 DEF InsertUser, WriteNew
  <1>6. CASE Adopt(r)
    <2>1. ASSUME NEW held, NEW identity, NEW insert,
                 Write(r, held, [txn[r] EXCEPT !.identity = identity, !.insert = @ \cup insert], "stock", loc[r])
          PROVE  Complete(r)'
      <3>1. [txn[r] EXCEPT !.identity = identity, !.insert = @ \cup insert].insert = txn[r].insert \cup insert
        BY <1>4
      <3>2. /\ pc'[r] = "stock" /\ loc'[r] = loc[r] /\ Stored' = Stored
            /\ txn'[r].insert = txn[r].insert \cup insert
        BY <1>2, <2>1, <3>1
      <3>3. QED
        BY <1>4, <3>2, GoesOn
    <2>2. QED
      BY <1>1, <1>3, <1>6, <2>1 DEF Adopt, WriteNew
  <1>7. CASE InsertStock(r)
    <2> DEFINE key == Stock(Head(loc[r].todo))
    <2>1. /\ pc[r] = "insertStock" /\ loc[r].todo # <<>>
          /\ Then(op[r].kind) \in {"check", "stock", "save"}
      BY <1>4, <1>7, ThenPlaces DEF InsertStock, Place
    <2>2. Drop(r).todo = Tail(loc[r].todo)
      BY <1>4 DEF Drop
    <2>3. ASSUME NEW held, Write(r, held, [txn[r] EXCEPT !.insert = @ \cup {key}], Then(op[r].kind), Drop(r))
          PROVE  Complete(r)'
      <3>1. [txn[r] EXCEPT !.insert = @ \cup {key}].insert = txn[r].insert \cup {key}
        BY <1>4
      <3>2. /\ pc'[r] # "commit" /\ loc'[r] = Drop(r) /\ Stored' = Stored
            /\ txn'[r].insert = txn[r].insert \cup {key}
        BY <1>2, <2>1, <2>3, <3>1
      <3>3. QED
        BY <1>4, <2>1, <2>2, <3>2, DoneWithOne
    <2>4. QED
      BY <1>1, <1>3, <1>7, <2>3 DEF InsertStock, WriteNew
  <1>8. CASE InsertItem(r)
    <2> DEFINE key == Item(op[r].user, op[r].code)
    <2>1. op[r].kind = "watch" /\ Stock(op[r].code) \in Stored \cup txn[r].insert
      BY <1>4, <1>8 DEF InsertItem, Place
    <2>2. CodesOf(op[r]) = <<op[r].code>>
      BY <2>1 DEF CodesOf
    <2>3. ASSUME NEW held, Write(r, held, [txn[r] EXCEPT !.insert = @ \cup {key}], "commit", loc[r])
          PROVE  Complete(r)'
      <3>1. [txn[r] EXCEPT !.insert = @ \cup {key}].insert = txn[r].insert \cup {key}
        BY <1>4
      <3>2. txn'[r].insert = txn[r].insert \cup {key} /\ Stored' = Stored
        BY <1>2, <2>3, <3>1
      <3>3. RowKept(r)'
        BY <2>1, <3>2 DEF RowKept
      <3>4. QED
        BY <2>1, <2>2, <3>2, <3>3, AboutToCommit
    <2>4. QED
      BY <1>1, <1>3, <1>8, <2>3 DEF InsertItem, WriteNew
  <1>9. CASE Remove(r)
    <2>1. op[r].kind = "unwatch"
      BY <1>4, <1>9 DEF Remove, Place
    <2>2. RowKept(r)'
      BY <2>1 DEF RowKept
    <2>3. QED
      BY <2>1, <2>2, NoCodes, AboutToCommit
  <1>10. CASE InsertConfig(r)
    <2> DEFINE writes == [NoWrites EXCEPT !.settings = Asked(r), !.insert = {Config(loc[r].user)}]
    <2>1. op[r].kind \in {"readConfig", "saveConfig"} /\ loc[r].user = op[r].user
      BY <1>4, <1>10 DEF InsertConfig, Place
    <2>2. writes.insert = {Config(op[r].user)}
      BY <2>1 DEF NoWrites
    <2>3. ASSUME NEW held, Write(r, held, writes, "commit", loc[r])
          PROVE  Complete(r)'
      <3> HIDE DEF writes
      <3>1. txn'[r].insert = {Config(op[r].user)}
        BY <1>2, <2>2, <2>3
      <3>2. RowKept(r)'
        BY <2>1, <3>1 DEF RowKept
      <3>3. QED
        BY <2>1, <3>2, NoCodes, AboutToCommit
    <2>4. QED
      BY <1>1, <1>3, <1>10, <2>3 DEF InsertConfig, WriteNew
  <1>11. CASE UpdateConfig(r)
    <2>1. /\ op[r].kind \in {"readConfig", "saveConfig"} /\ loc[r].user = op[r].user
          /\ Config(loc[r].user) \in Stored
      BY <1>4, <1>11 DEF UpdateConfig, Place
    <2>2. Stored' = Stored
      BY <1>11 DEF UpdateConfig, Write, Stored, tables
    <2>3. RowKept(r)'
      BY <2>1, <2>2 DEF RowKept
    <2>4. QED
      BY <2>1, <2>3, NoCodes, AboutToCommit
  <1>12. QED
    BY <1>5, <1>6, <1>7, <1>8, <1>9, <1>10, <1>11

LEMMA CommitComplete ==
  ASSUME Inv, NEW r \in Requests, Complete(r), UNCHANGED op, Commit(r) \/ CommitStock(r)
  PROVE  Complete(r)'
  <1>1. CASE Commit(r)
    BY <1>1 DEF Commit, End, Go, Inv, Arrays, Complete, Ended
  <1>2. CASE CommitStock(r)
    <2>1. pc'[r] = "stock" /\ loc' = loc /\ StoreAll(r) /\ CodesKept(r)
      BY <1>2 DEF CommitStock, Go, Inv, Arrays, Complete, Ended
    <2>2. \A c : Stock(c) \in Stored \cup txn[r].insert => Stock(c) \in Stored'
      BY <2>1, KeptKeys, StoredAfter
    <2>3. QED
      BY <2>1, <2>2, GoesOn
  <1>3. QED
    BY <1>1, <1>2

LEMMA StartComplete ==
  ASSUME Inv, NEW r \in Requests, Start(r)
  PROVE  Complete(r)'
  <1>1. PICK o \in Operations :
          op' = [op EXCEPT ![r] = o] /\ Step(r, First[o.kind], [NoLocals EXCEPT !.todo = CodesOf(o)])
    BY DEF Start
  <1>2. First[o.kind] # "commit"
    BY OperationShape DEF First
  <1>3. op'[r] = o /\ pc'[r] # "commit" /\ loc'[r].todo = CodesOf(o)
    BY <1>1, <1>2 DEF Inv, Arrays, Step, Go, NoLocals
  <1>4. QED
    BY <1>3 DEF Complete, CodesKept

LEMMA PromisesKept ==
  ASSUME Inv, Inv', Promises, Next
  PROVE  Promises'
  <1>1. PICK r \in Requests : Start(r) \/ (Request(r) /\ UNCHANGED op)
    BY DEF Next
  <1>2. /\ \A q \in Requests \ {r} : Same(q)
        /\ pc[r] # "idle" => op'[r] = op[r]
        /\ rows' = rows \/ Commit(r) \/ CommitStock(r)
        /\ Committed(r) => Committed(r)'
        /\ Committed(r)' => Committed(r) \/ Commit(r)
    BY <1>1, RequestEffect
  <1>3. op' = op \/ rows' = rows
    BY <1>1 DEF Start, Step
  <1>4. /\ \A v : Config(v) \in Stored => Config(v) \in Stored'
        /\ \A c : Stock(c) \in Stored => Stock(c) \in Stored'
        /\ \A v, q : [key |-> Account(v), by |-> q] \in rows => [key |-> Account(v), by |-> q] \in rows'
        /\ \A v, c : Item(v, c) \in Stored =>
             Item(v, c) \in Stored' \/ (CommittedAs(r, {"unwatch"})' /\ op'[r].user = v /\ op'[r].code = c)
    BY <1>2, <1>3, RowsRemain
  <1>5. Complete(r)'
    <2>1. Complete(r)
      BY DEF Promises
    <2>2. QED
      BY <1>1, <2>1, StartComplete, ReadsComplete, WritesComplete, CommitComplete DEF Request
  <1>6. \A q \in Requests \ {r} : Complete(q)'
    BY <1>2, <1>4, OtherComplete DEF Promises
  <1>7. \A q \in Requests : Committed(q) => Committed(q)' /\ op'[q] = op[q]
    BY <1>2 DEF Same, Committed
  <1>8. \A q \in Requests : \A K : CommittedAs(q, K) => CommittedAs(q, K)'
    BY <1>7 DEF CommittedAs
  <1>9. ASSUME NEW q \in Requests, Committed(q)'
        PROVE  /\ \A i \in DOMAIN CodesOf(op'[q]) : Stock(CodesOf(op'[q])[i]) \in Stored'
               /\ op'[q].kind = "create" => \E u \in DOMAIN users' : [key |-> Account(u), by |-> q] \in rows'
               /\ op'[q].kind \in {"readConfig", "saveConfig"} => Config(op'[q].user) \in Stored'
               /\ op'[q].kind = "watch" =>
                    \/ Item(op'[q].user, op'[q].code) \in Stored'
                    \/ \E w \in Requests : /\ CommittedAs(w, {"unwatch"})'
                                          /\ op'[w].user = op'[q].user /\ op'[w].code = op'[q].code
    <2>1. CASE Committed(q)
      <3>1. op'[q] = op[q]
        BY <1>7, <2>1
      <3>2. /\ \A i \in DOMAIN CodesOf(op[q]) : Stock(CodesOf(op[q])[i]) \in Stored
            /\ op[q].kind = "create" => \E u \in DOMAIN users : [key |-> Account(u), by |-> q] \in rows
            /\ op[q].kind \in {"readConfig", "saveConfig"} => Config(op[q].user) \in Stored
            /\ op[q].kind = "watch" =>
                 \/ Item(op[q].user, op[q].code) \in Stored
                 \/ \E w \in Requests : /\ CommittedAs(w, {"unwatch"})
                                       /\ op[w].user = op[q].user /\ op[w].code = op[q].code
        BY <2>1 DEF Promises, AllOfCommitted
      <3>3. op[q].kind = "create" => \E u \in DOMAIN users' : [key |-> Account(u), by |-> q] \in rows'
        <4> SUFFICES ASSUME NEW u, [key |-> Account(u), by |-> q] \in rows
                     PROVE  \E w \in DOMAIN users' : [key |-> Account(w), by |-> q] \in rows'
          BY <3>2
        <4>1. [key |-> Account(u), by |-> q] \in rows'
          BY <1>4
        <4>2. Account(u) \in Stored'
          BY <4>1 DEF Stored
        <4>3. u \in DOMAIN users'
          BY <4>2, KeyTables DEF Inv, WholeWorkspaces
        <4>4. QED
          BY <4>1, <4>3
      <3>4. op[q].kind = "watch" =>
              \/ Item(op[q].user, op[q].code) \in Stored'
              \/ \E w \in Requests : /\ CommittedAs(w, {"unwatch"})'
                                    /\ op'[w].user = op[q].user /\ op'[w].code = op[q].code
        <4>1. CASE Item(op[q].user, op[q].code) \in Stored
          BY <1>4, <4>1
        <4>2. ASSUME NEW w \in Requests, CommittedAs(w, {"unwatch"}),
                     op[w].user = op[q].user, op[w].code = op[q].code
              PROVE  /\ CommittedAs(w, {"unwatch"})'
                     /\ op'[w].user = op[q].user /\ op'[w].code = op[q].code
          BY <1>7, <1>8, <4>2 DEF CommittedAs
        <4>3. QED
          BY <3>2, <4>1, <4>2
      <3>5. QED
        BY <1>4, <3>1, <3>2, <3>3, <3>4
    <2>2. CASE ~ Committed(q)
      <3>1. q = r
        BY <1>2, <1>9, <2>2 DEF Same, Committed
      <3>2. Commit(r)
        BY <1>2, <1>9, <2>2, <3>1
      <3>3. op' = op
        BY <1>1, <3>2 DEF Start, Commit
      <3>4. Complete(r)
        BY DEF Promises
      <3>5. QED
        BY <3>1, <3>2, <3>3, <3>4, CommitKeeps
    <2>3. QED
      BY <2>1, <2>2
  <1>10. AllOfCommitted'
    BY <1>9 DEF AllOfCommitted
  <1>11. QED
    BY <1>5, <1>6, <1>10 DEF Promises

LEMMA PromisesStutter ==
  ASSUME Promises, UNCHANGED vars
  PROVE  Promises'
  <1>1. Stored' = Stored
    BY DEF vars, Stored
  <1>2. \A r \in Requests : Complete(r)'
    BY <1>1 DEF vars, Promises, Complete, CodesKept, RowKept
  <1>3. AllOfCommitted'
    BY <1>1 DEF vars, Promises, AllOfCommitted, Committed, CommittedAs
  <1>4. QED
    BY <1>2, <1>3 DEF Promises

LEMMA NothingPromised ==
  ASSUME Init
  PROVE  Promises
  <1>1. ASSUME NEW r \in Requests PROVE pc[r] = "idle" /\ DOMAIN CodesOf(op[r]) = {}
    BY DEF Init, CodesOf
  <1>2. QED
    BY <1>1 DEF Promises, AllOfCommitted, Committed, Complete, CodesKept

(* A request that was refused or failed before its commit has left no row, *)
(* name or setting; one that has committed has left all it was asked for,  *)
(* also when its answer fails (users.py:20-26).                            *)
THEOREM RequestsAreAllOrNothing == Spec => []AllOrNothing
  <1>1. Init => Promises
    BY NothingPromised
  <1>2. Inv /\ Inv' /\ Promises /\ [Next]_vars => Promises'
    BY PromisesKept, PromisesStutter
  <1>3. Inv /\ Promises => AllOrNothing
    BY DEF Inv, Promises, AllOrNothing
  <1>4. QED
    BY <1>1, <1>2, <1>3, WorkspaceInvariant, PTL DEF Spec
=============================================================================
