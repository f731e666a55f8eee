------------------------------- MODULE Workspace -------------------------------
(***************************************************************************)
(* The rows around the trading core: the workspace's user, its account,    *)
(* its automation config, its watchlist and the table of stocks.           *)
(*                                                                         *)
(* Every request opens a session of its own, looks whether a row exists    *)
(* and inserts it when it does not (user_service.py, watchlist_service.py, *)
(* user_repository.py, stock_repository.py).  What it looked at may have   *)
(* changed when it inserts; a unique constraint or a foreign key then ends *)
(* the request with an error no route handles (a 500: "error"), while a    *)
(* check that fails is a refusal (a 400: "refused").  A request that has   *)
(* committed has still to answer: POST /users reads the user and its       *)
(* account again.  What goes wrong there is a 500 as well, but one that    *)
(* leaves the rows ("lost").                                               *)
(*                                                                         *)
(* A read sees what is committed and what the session itself has written.  *)
(* The engine is SQLite, where the first write of a session takes the one  *)
(* write lock until the session ends, or PostgreSQL, where a write waits   *)
(* for an uncommitted write of the same key only.                          *)
(*                                                                         *)
(* Cash and positions are those of module Trading.  The metadata of a      *)
(* stock comes from the table of the twstock library, so writing it to a   *)
(* row that exists changes nothing and sends no statement.  Only watchlist *)
(* items are ever deleted.                                                 *)
(***************************************************************************)
EXTENDS Integers, Sequences

CONSTANTS
  Requests,     \* sessions: each runs one operation, once
  Operations,   \* what they can be asked
  Engines,      \* the databases the behaviours start with
  Identities,   \* [username, email] a form can send
  Home,         \* the identity of the user that may be there at the start
  Columns,      \* columns of an automation config
  Settings,     \* the values of an automation config, by column
  Default,      \* the config a first read inserts
  Codes,        \* stock codes
  Universe,     \* the codes the library lists, in its order
  NoUser,       \* no user id
  Keep,         \* a column the transaction has not written
  Founder       \* who inserted what is there at the start

Names == {"username", "email"}

(* The requests that write the rows of this module.                        *)
AllOperations ==
  [kind : {"create"}, identity : Identities]
  \cup [kind : {"bootstrap"}, user : Nat \cup {NoUser}, identity : Identities, codes : Seq(Codes)]
  \cup [kind : {"readConfig"}, user : Nat]
  \cup [kind : {"saveConfig"}, user : Nat, settings : Settings]
  \cup [kind : {"watch", "unwatch"}, user : Nat, code : Codes]
  \cup [kind : {"universe"}]

ASSUME WorkspaceAssumption ==
  /\ Operations \subseteq AllOperations
  /\ Engines \subseteq {"sqlite", "postgres"}
  /\ Home \in Identities
  /\ \A i \in Identities : DOMAIN i = Names /\ \A k \in Names : i[k] # Keep
  /\ Columns # {} /\ Default \in Settings
  /\ \A s \in Settings : DOMAIN s = Columns /\ \A k \in Columns : s[k] # Keep
  /\ Universe \in Seq(Codes)
  /\ NoUser \notin Nat
  /\ Founder \notin Requests

VARIABLES
  engine,     \* the database, which never changes
  users,      \* table users: the identity by id
  rows,       \* the other tables: [key, by], by the request that inserted it
  settings,   \* the values of the automation configs, by user
  sequence,   \* the last id PostgreSQL has handed out
  pc,         \* where a request is
  op,         \* what it was asked
  loc,        \* its local variables and the columns it has loaded
  locks,      \* what it has locked in the database
  txn         \* its uncommitted writes

tables == <<users, rows, settings>>
vars == <<engine, users, rows, settings, sequence, pc, op, loc, locks, txn>>

(* The unique keys of the tables.                                          *)
Name(column, value) == <<"users", column, value>>
Account(u) == <<"accounts", u>>
Config(u) == <<"automation_configs", u>>
Item(u, c) == <<"watchlist_items", u, c>>
Stock(c) == <<"stocks", c>>

NoLocals == [user |-> NoUser, seen |-> <<>>, todo |-> <<>>]
NoWrites == [identity |-> [k \in Names |-> Keep], settings |-> [k \in Columns |-> Keep],
             insert |-> {}, delete |-> {}]

(* Flushing a loaded object writes the columns that differ; the others are *)
(* left as they are stored by then.                                        *)
Changed(loaded, new) == {k \in DOMAIN new : new[k] # loaded[k]}
Written(before, loaded, new) ==
  [k \in DOMAIN new |-> IF k \in Changed(loaded, new) THEN new[k] ELSE before[k]]

(* The table once the columns one transaction wrote for u are stored.      *)
Store(table, u, columns) ==
  IF \A k \in DOMAIN columns : columns[k] = Keep
  THEN table
  ELSE [v \in DOMAIN table \cup {u} |->
          IF v # u THEN table[v]
          ELSE [k \in DOMAIN columns |-> IF columns[k] = Keep THEN table[u][k] ELSE columns[k]]]

Stored == {row.key : row \in rows}

(* The keys session r sees.                                                *)
Keys(r) == (Stored \cup txn[r].insert) \ txn[r].delete

(* The keys a row of session r may not have: those of the other rows.      *)
Taken(r) == Stored \cup {Name(k, users[u][k]) : k \in Names, u \in DOMAIN users \ {loc[r].user}}

(* get_single_user: the user with the lowest id.                           *)
WorkspaceUser(table) ==
  IF DOMAIN table = {} THEN NoUser ELSE CHOOSE u \in DOMAIN table : \A v \in DOMAIN table : u <= v

(* The id of a new user: the highest rowid plus one, or the sequence's     *)
(* next value, which no rollback gives back.                               *)
NewId ==
  IF engine = "postgres" THEN sequence + 1
  ELSE IF DOMAIN users = {} THEN 1
  ELSE 1 + CHOOSE u \in DOMAIN users : \A v \in DOMAIN users : v <= u

Init ==
  /\ engine \in Engines
  /\ \/ users = [u \in {} |-> Home] /\ rows = {} /\ sequence = 0
     \/ users = [u \in {1} |-> Home] /\ rows = {[key |-> Account(1), by |-> Founder]} /\ sequence = 1
  /\ settings = [u \in {} |-> Default]
  /\ pc = [r \in Requests |-> "idle"]
  /\ op = [r \in Requests |-> [kind |-> "none"]]
  /\ loc = [r \in Requests |-> NoLocals]
  /\ locks = [r \in Requests |-> {}]
  /\ txn = [r \in Requests |-> NoWrites]

-----------------------------------------------------------------------------
(* Sessions and statements.                                                *)

Go(r, where) == pc' = [pc EXCEPT ![r] = where]

Wanted(keys) == IF engine = "sqlite" THEN {<<"db">> : k \in keys} ELSE keys

(* A write waits until nobody else has locked what it needs.               *)
Free(r, keys) == \A q \in Requests \ {r} : locks[q] \cap Wanted(keys) = {}

(* Mutant: the session is left open.                                       *)
LeaveOpen(r, how) ==
  /\ Go(r, how)
  /\ loc' = [loc EXCEPT ![r] = NoLocals]
  /\ UNCHANGED <<locks, txn>>

(* The end of a transaction.                                               *)
End(r, how) ==
  /\ Go(r, how)
  /\ loc' = [loc EXCEPT ![r] = NoLocals]
  /\ locks' = [locks EXCEPT ![r] = {}]
  /\ txn' = [txn EXCEPT ![r] = NoWrites]

(* Mutant: what has been flushed survives the end of the request.          *)
RollBackLate(r, how) ==
  /\ rows' = rows \cup {[key |-> k, by |-> r] : k \in txn[r].insert}
  /\ End(r, how)
  /\ UNCHANGED <<users, settings>>

RollBack(r, how) == End(r, how) /\ UNCHANGED tables

(* A step that writes nothing.                                             *)
Step(r, where, local) ==
  /\ Go(r, where)
  /\ loc' = [loc EXCEPT ![r] = local]
  /\ UNCHANGED <<locks, txn, users, rows, settings>>

(* A write of session r to rows with the given keys and locks.             *)
Write(r, held, writes, where, local) ==
  /\ Free(r, held)
  /\ Go(r, where)
  /\ loc' = [loc EXCEPT ![r] = local]
  /\ locks' = [locks EXCEPT ![r] = @ \cup Wanted(held)]
  /\ txn' = [txn EXCEPT ![r] = writes]
  /\ UNCHANGED tables

(* Mutant: a table without its unique constraint.                          *)
WriteAnyway(r, new, held, writes, where, local) ==
  Write(r, new \cup held, writes, where, local)

(* A write that gives rows of session r the keys new: the unique           *)
(* constraint refuses it when another row has one of them by now.          *)
WriteNew(r, new, held, writes, where, local) ==
  \/ /\ new \cap Taken(r) = {}
     /\ Write(r, new \cup held, writes, where, local)
  \/ /\ new \cap Taken(r) # {}
     /\ Free(r, new \cup held)
     /\ RollBack(r, "error")

(* commit(): what the session has written is stored.                       *)
StoreAll(r) ==
  /\ users' = Store(users, loc[r].user, txn[r].identity)
  /\ settings' = Store(settings, loc[r].user, txn[r].settings)
  /\ rows' = {row \in rows : row.key \notin txn[r].delete}
               \cup {[key |-> k, by |-> r] : k \in txn[r].insert}

Commit(r) ==
  /\ pc[r] = "commit"
  /\ StoreAll(r)
  /\ End(r, "answer")
  /\ UNCHANGED sequence

(* The answer is made of what is loaded; POST /users refreshes the user    *)
(* and loads its account for it.                                           *)
Answer(r) ==
  /\ pc[r] = "answer"
  /\ RollBack(r, "ok")
  /\ UNCHANGED sequence

(* Any statement may end in an error: the database cannot be reached, a    *)
(* lock is not granted in time or would close a cycle, the process stops.  *)
(* After the commit there is nothing left to roll back.                    *)
Fail(r) ==
  /\ pc[r] \notin {"idle", "ok", "refused", "error", "lost"}
  /\ RollBack(r, IF pc[r] = "answer" THEN "lost" ELSE "error")
  /\ UNCHANGED sequence

-----------------------------------------------------------------------------
(* Users and bootstrap.                                                    *)

First == [create |-> "find", bootstrap |-> "locate", readConfig |-> "look", saveConfig |-> "look",
          watch |-> "stock", unwatch |-> "remove", universe |-> "stock"]

CodesOf(o) ==
  CASE o.kind = "watch" -> <<o.code>>
    [] o.kind = "bootstrap" -> o.codes
    [] o.kind = "universe" -> Universe
    [] OTHER -> <<>>

Start(r) ==
  /\ pc[r] = "idle"
  /\ \E o \in Operations :
       /\ op' = [op EXCEPT ![r] = o]
       /\ Step(r, First[o.kind], [NoLocals EXCEPT !.todo = CodesOf(o)])
  /\ UNCHANGED sequence

(* bootstrap_portfolio: which user the payload is for.                     *)
Locate(r) ==
  LET u == IF op[r].user = NoUser THEN WorkspaceUser(users) ELSE op[r].user IN
  /\ pc[r] = "locate"
  /\ \/ /\ u \in DOMAIN users
        /\ Step(r, "adopt", [loc[r] EXCEPT !.user = u, !.seen = users[u]])
     \/ /\ u = NoUser
        /\ Step(r, "find", loc[r])
     \/ /\ u \notin DOMAIN users \cup {NoUser}
        /\ RollBack(r, "refused")
  /\ UNCHANGED sequence

(* A UserServiceError, which only the route of POST /users handles.        *)
Reject(r) == RollBack(r, IF op[r].kind = "create" THEN "refused" ELSE "error")

(* create_user: there is no workspace user yet ...                         *)
Find(r) ==
  /\ pc[r] = "find"
  /\ IF WorkspaceUser(users) = NoUser THEN Step(r, "identify", loc[r]) ELSE Reject(r)
  /\ UNCHANGED sequence

(* ... in a second query, nobody has the username or the email ...         *)
Identify(r) ==
  /\ pc[r] = "identify"
  /\ IF \A u \in DOMAIN users, k \in Names : users[u][k] # op[r].identity[k]
     THEN Step(r, "insertUser", loc[r])
     ELSE Reject(r)
  /\ UNCHANGED sequence

NewNames(r) == {Name(k, op[r].identity[k]) : k \in Names}

(* Mutant: the user is flushed, its account is not.                        *)
CreateUserOnly(r) == [NoWrites EXCEPT !.identity = op[r].identity]

CreateUser(r) == [NoWrites EXCEPT !.identity = op[r].identity, !.insert = {Account(NewId)}]

(* ... and the user and its account are inserted.                          *)
InsertUser(r) ==
  /\ pc[r] = "insertUser"
  /\ WriteNew(r, NewNames(r), {Account(NewId)}, CreateUser(r),
              IF op[r].kind = "create" THEN "commit" ELSE "adopt",
              [loc[r] EXCEPT !.user = NewId, !.seen = op[r].identity])
  /\ sequence' = IF engine = "postgres" THEN NewId ELSE sequence

(* bootstrap_portfolio: the account gets its cash, the positions are       *)
(* deleted and the user takes the payload's names; an account is inserted  *)
(* where there is none.                                                    *)
Adopt(r) ==
  LET u == loc[r].user
      renamed == Changed(loc[r].seen, op[r].identity)
      old == {Name(k, loc[r].seen[k]) : k \in renamed}
  IN
  /\ pc[r] = "adopt"
  /\ WriteNew(r, {Name(k, op[r].identity[k]) : k \in renamed}, old \cup {Name("id", u), Account(u)},
              [txn[r] EXCEPT !.identity = Written(@, loc[r].seen, op[r].identity),
                             !.insert = @ \cup ({Account(u)} \ Stored)],
              "stock", loc[r])
  /\ UNCHANGED sequence

-----------------------------------------------------------------------------
(* The table of stocks.                                                    *)

(* Where a request goes once the stock of the code at hand is there: the   *)
(* universe job commits each code.                                         *)
Then(kind) ==
  CASE kind = "watch" -> "check" [] kind = "bootstrap" -> "stock" [] kind = "universe" -> "save"

Drop(r) == [loc[r] EXCEPT !.todo = Tail(@)]

(* upsert_stock: read the row of the code ...                              *)
LookStock(r) ==
  /\ pc[r] = "stock"
  /\ loc[r].todo # <<>>
  /\ IF Stock(Head(loc[r].todo)) \in Keys(r)
     THEN Step(r, Then(op[r].kind), Drop(r))
     ELSE Step(r, "insertStock", loc[r])
  /\ UNCHANGED sequence

(* ... and insert it when there is none.                                   *)
InsertStock(r) ==
  LET key == Stock(Head(loc[r].todo)) IN
  /\ pc[r] = "insertStock"
  /\ WriteNew(r, {key}, {}, [txn[r] EXCEPT !.insert = @ \cup {key}], Then(op[r].kind), Drop(r))
  /\ UNCHANGED sequence

(* sync_stock_universe commits each code.                                  *)
CommitStock(r) ==
  /\ pc[r] = "save"
  /\ StoreAll(r)
  /\ Go(r, "stock")
  /\ locks' = [locks EXCEPT ![r] = {}]
  /\ txn' = [txn EXCEPT ![r] = NoWrites]
  /\ UNCHANGED <<sequence, loc>>

Distinct(codes) == \A i, j \in DOMAIN codes : codes[i] = codes[j] => i = j

(* After the last code: the positions of a bootstrap are unique by code.   *)
EndOfCodes(r) ==
  /\ pc[r] = "stock"
  /\ loc[r].todo = <<>>
  /\ IF op[r].kind = "bootstrap" /\ ~ Distinct(op[r].codes)
     THEN RollBack(r, "error")
     ELSE Step(r, "commit", loc[r])
  /\ UNCHANGED sequence

-----------------------------------------------------------------------------
(* The watchlist.                                                          *)

(* add_item: the stock must not be in the list.                            *)
Check(r) ==
  /\ pc[r] = "check"
  /\ IF Item(op[r].user, op[r].code) \in Keys(r)
     THEN RollBack(r, "refused")
     ELSE Step(r, "insertItem", loc[r])
  /\ UNCHANGED sequence

(* The foreign key refuses an item of a user that is not there.            *)
InsertItem(r) ==
  LET key == Item(op[r].user, op[r].code) IN
  /\ pc[r] = "insertItem"
  /\ \/ /\ op[r].user \in DOMAIN users
        /\ WriteNew(r, {key}, {}, [txn[r] EXCEPT !.insert = @ \cup {key}], "commit", loc[r])
     \/ /\ op[r].user \notin DOMAIN users
        /\ Free(r, {key})
        /\ RollBack(r, "error")
  /\ UNCHANGED sequence

(* remove_item: the DELETE must find a row.                                *)
Remove(r) ==
  LET key == Item(op[r].user, op[r].code) IN
  /\ pc[r] = "remove"
  /\ \/ /\ key \in Stored
        /\ Write(r, {key}, [NoWrites EXCEPT !.delete = {key}], "commit", loc[r])
     \/ /\ key \notin Stored
        /\ RollBack(r, "refused")
  /\ UNCHANGED sequence

-----------------------------------------------------------------------------
(* The automation config.                                                  *)

(* get_user, and in get_or_create_config a first read of the config.       *)
Look(r) ==
  LET u == op[r].user IN
  /\ pc[r] = "look"
  /\ IF u \notin DOMAIN users THEN RollBack(r, "refused")
     ELSE Step(r, IF op[r].kind = "readConfig" /\ Config(u) \in Stored THEN "commit" ELSE "upsert",
               [loc[r] EXCEPT !.user = u])
  /\ UNCHANGED sequence

(* upsert_automation_config reads the config itself.                       *)
Upsert(r) ==
  LET u == loc[r].user IN
  /\ pc[r] = "upsert"
  /\ IF Config(u) \in Stored
     THEN Step(r, "updateConfig", [loc[r] EXCEPT !.seen = settings[u]])
     ELSE Step(r, "insertConfig", loc[r])
  /\ UNCHANGED sequence

Asked(r) == IF op[r].kind = "readConfig" THEN Default ELSE op[r].settings

InsertConfig(r) ==
  LET key == Config(loc[r].user) IN
  /\ pc[r] = "insertConfig"
  /\ WriteNew(r, {key}, {}, [NoWrites EXCEPT !.settings = Asked(r), !.insert = {key}], "commit", loc[r])
  /\ UNCHANGED sequence

(* An UPDATE of the columns that differ; no statement when none does.      *)
UpdateConfig(r) ==
  /\ pc[r] = "updateConfig"
  /\ Write(r, {Config(loc[r].user) : k \in Changed(loc[r].seen, Asked(r))},
           [NoWrites EXCEPT !.settings = Written(@, loc[r].seen, Asked(r))], "commit", loc[r])
  /\ UNCHANGED sequence

-----------------------------------------------------------------------------
Request(r) ==
  \/ Locate(r) \/ Find(r) \/ Identify(r) \/ InsertUser(r) \/ Adopt(r)
  \/ LookStock(r) \/ InsertStock(r) \/ CommitStock(r) \/ EndOfCodes(r)
  \/ Check(r) \/ InsertItem(r) \/ Remove(r)
  \/ Look(r) \/ Upsert(r) \/ InsertConfig(r) \/ UpdateConfig(r)
  \/ Commit(r) \/ Answer(r) \/ Fail(r)

Next ==
  \E r \in Requests :
    /\ Start(r) \/ (Request(r) /\ UNCHANGED op)
    /\ UNCHANGED engine

Spec == Init /\ [][Next]_vars

-----------------------------------------------------------------------------
(* Every variable has its type; a session has uncommitted writes only      *)
(* while it runs.                                                          *)
TypeOK ==
  /\ engine \in Engines
  /\ DOMAIN users \subseteq Nat \ {0}
  /\ \A u \in DOMAIN users : DOMAIN users[u] = Names
  /\ \A row \in rows : DOMAIN row = {"key", "by"} /\ row.by \in Requests \cup {Founder}
  /\ \A u \in DOMAIN settings : DOMAIN settings[u] = Columns
  /\ sequence \in Nat
  /\ \A r \in Requests :
       /\ pc[r] \in {"idle", "ok", "refused", "error", "commit", "locate", "find", "identify", "insertUser",
                     "adopt", "stock", "insertStock", "save", "check", "insertItem", "remove", "look",
                     "upsert", "insertConfig", "updateConfig", "answer", "lost"}
       /\ pc[r] = "idle" \/ op[r] \in Operations
       /\ loc[r].todo \in Seq(Codes)
       /\ loc[r].user \in Nat \cup {NoUser}
       /\ pc[r] \in {"idle", "answer", "ok", "refused", "error", "lost"} => locks[r] = {} /\ txn[r] = NoWrites

(* The checks of the requests are only there for their messages: whatever  *)
(* two sessions saw, a user's name, its account, its config, a watchlist   *)
(* item and a stock are there once.                                        *)
UniqueRows ==
  /\ \A a, b \in rows : a.key = b.key => a = b
  /\ \A u, v \in DOMAIN users, k \in Names : users[u][k] = users[v][k] => u = v

(* The rows that belong together are stored together: a user has its       *)
(* account, a row its user, an item its stock, a config its values.        *)
WholeWorkspaces ==
  /\ \A u \in DOMAIN users : Account(u) \in Stored
  /\ \A key \in Stored :
       /\ key[1] # "stocks" => key[2] \in DOMAIN users
       /\ key[1] = "watchlist_items" => Stock(key[3]) \in Stored
       /\ key[1] = "automation_configs" => key[2] \in DOMAIN settings
  /\ \A u \in DOMAIN settings : Config(u) \in Stored

Committed(r) == pc[r] \in {"answer", "ok", "lost"}
CommittedAs(r, kinds) == Committed(r) /\ op[r].kind \in kinds

(* A request that was refused or ended in an error before its commit has   *)
(* left nothing: every row, name and setting is that of a request that has *)
(* committed, but for the stocks a universe job stored before it failed.   *)
NothingOfFailed ==
  /\ \A row \in rows :
       \/ row.by = Founder
       \/ Committed(row.by)
       \/ op[row.by].kind = "universe" /\ row.key[1] = "stocks"
  /\ \A u \in DOMAIN users, k \in Names :
       \/ users[u][k] = Home[k]
       \/ \E r \in Requests : /\ CommittedAs(r, {"create", "bootstrap"})
                             /\ op[r].identity[k] = users[u][k]
  /\ \A u \in DOMAIN settings, k \in Columns :
       \/ settings[u][k] = Default[k]
       \/ \E r \in Requests : /\ CommittedAs(r, {"saveConfig"}) /\ op[r].user = u
                             /\ op[r].settings[k] = settings[u][k]

(* A request that has committed has left every row it was asked for, also  *)
(* when its answer was lost; an item may have been removed since.          *)
AllOfCommitted ==
  \A r \in Requests : Committed(r) =>
    /\ \A i \in DOMAIN CodesOf(op[r]) : Stock(CodesOf(op[r])[i]) \in Stored
    /\ op[r].kind = "create" => \E u \in DOMAIN users : [key |-> Account(u), by |-> r] \in rows
    /\ op[r].kind \in {"readConfig", "saveConfig"} => Config(op[r].user) \in Stored
    /\ op[r].kind = "watch" =>
         \/ Item(op[r].user, op[r].code) \in Stored
         \/ \E q \in Requests : /\ CommittedAs(q, {"unwatch"})
                               /\ op[q].user = op[r].user /\ op[q].code = op[r].code

(* A request leaves all or nothing, whatever the sessions beside it do and *)
(* whichever of its steps fails.  Nothing, unless it has committed: an     *)
(* error rolls back the user with its account, the stock with its item.    *)
(* All, once it has: a client that gets a 500 for POST /users because the  *)
(* user could not be read again (users.py:20-26) has a whole workspace,    *)
(* which a later GET /users/singleton answers with.                        *)
AllOrNothing == NothingOfFailed /\ AllOfCommitted
=============================================================================
