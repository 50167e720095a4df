------------------------------ MODULE DbManager ------------------------------
(***************************************************************************)
(* The MySQL schema "smoke" as class manager (dbmanager.cpp) reads and      *)
(* writes it.  Every manager method is one SQL statement under autocommit,  *)
(* so every operator below is one atomic read or one atomic write; methods  *)
(* that send several statements (getUid, setSubDate, expiredUser) are       *)
(* split into their statements by the modules that call them.               *)
(*                                                                         *)
(* Abstracted: subscriptionStart, creation_date, order dates and password   *)
(* hashes, which no decision of the modelled code depends on, and the text  *)
(* of the queries.                                                         *)
(***************************************************************************)
EXTENDS Integers, Sequences

CONSTANTS
  OrderIds,      \* order ids the shop's feed may mention
  Usernames,     \* account names that pass the bot's character check
  DiscordUsers,  \* ids of the people who write to the bot
  Levels,        \* access levels the feed's product codes decode to
  Null,          \* SQL NULL, and "no row"
  TicksPerDay,   \* resolution of time(0): ticks in one day
  ShortTerm,     \* days of the 30-day products (levels 1 and 2)
  LongTerm,      \* days of the 6-month products (levels 3 and 4)
  GarbageDates   \* end dates an uninitialised newtime may decode to

ASSUME DbAssumption ==
  /\ Null \notin OrderIds
  /\ Null \notin Int
  /\ Levels \subseteq 0..4
  /\ TicksPerDay \in Nat \ {0}
  /\ ShortTerm \in Nat /\ LongTerm \in Nat
  /\ GarbageDates \subseteq Int

VARIABLES
  users,    \* table users: uid -> row, a partial function
  nextUid,  \* AUTO_INCREMENT counter of users.uid
  orders,   \* table orders: the rows in insertion order
  sublog,   \* table sublog: the rows in insertion order
  now       \* time(0) and MySQL's NOW(), in ticks

dbVars == <<users, nextUid, orders, sublog, now>>

DBINTERROR == -1

UserRow == [username : Usernames, duid : DiscordUsers, level : Levels,
            subEnd : Int \cup {Null}]
\* uid is 0 while NULL (getInt of NULL), DBINTERROR when getUid failed.
OrderRow == [orderid : OrderIds, level : Levels, paid : BOOLEAN, uid : Int]
\* orderid is Null when getOrderuid found no row.
SublogRow == [uid : Nat \ {0}, orderid : OrderIds \cup {Null}]

DbInit ==
  /\ users = [u \in {} |-> Null]
  /\ nextUid = 1
  /\ orders = <<>>
  /\ sublog = <<>>
  /\ now = 0

-----------------------------------------------------------------------------
(* Queries on users *)

UidsNamed(n) == {u \in DOMAIN users : users[u].username = n}

doesUsernameExist_Never(n) == FALSE
doesUsernameExist(n) == UidsNamed(n) # {}

doesDuidExist(d) == \E u \in DOMAIN users : users[u].duid = d

(* The value getSubEndDate works on: NULL and "no such row" both read as    *)
(* the empty string, because substr(0, -1) of "" is "" and one NULL row     *)
(* gives "\n" without its last character.                                   *)
getSubEndDate(uid) == IF uid \in DOMAIN users THEN users[uid].subEnd ELSE Null

-----------------------------------------------------------------------------
(* Queries on orders *)

LastRow(rows) == CHOOSE i \in rows : \A j \in rows : j <= i

RowsOf(o) == {i \in DOMAIN orders : orders[i].orderid = o}

(* getOrder keeps the columns of the last row of the result. *)
getOrder(o) == orders[LastRow(RowsOf(o))]

doesOrderExist_LastOnly(o) ==
  orders # <<>> /\ orders[Len(orders)].orderid = o
doesOrderExist(o) == RowsOf(o) # {}

isOrderRedeemed_ByUser(o) == doesOrderExist(o) /\ getOrder(o).uid > 0
isOrderRedeemed(o) == doesOrderExist(o) /\ getOrder(o).uid # 0

isOrderPaidFor(o) == getOrder(o).paid

(* The order id getOrderuid returns: of the last row that carries the uid.  *)
getOrderuid_Any(uid) == IF orders = <<>> THEN Null ELSE orders[Len(orders)].orderid
getOrderuid(uid) ==
  LET rows == {i \in DOMAIN orders : orders[i].uid = uid}
  IN  IF rows = {} THEN Null ELSE orders[LastRow(rows)].orderid

-----------------------------------------------------------------------------
(* Statements that write *)

addUser_ReuseUid(n, d, lvl) ==
  /\ users' = [u \in DOMAIN users \cup {nextUid} |->
                 IF u = nextUid
                 THEN [username |-> n, duid |-> d, level |-> lvl, subEnd |-> Null]
                 ELSE users[u]]
  /\ nextUid' = nextUid
addUser(n, d, lvl) ==
  /\ users' = [u \in DOMAIN users \cup {nextUid} |->
                 IF u = nextUid
                 THEN [username |-> n, duid |-> d, level |-> lvl, subEnd |-> Null]
                 ELSE users[u]]
  /\ nextUid' = nextUid + 1

setSubEnd(uid, date) ==
  users' = [u \in DOMAIN users |->
              IF u = uid THEN [users[u] EXCEPT !.subEnd = date] ELSE users[u]]

deleteUser(uid) == users' = [u \in DOMAIN users \ {uid} |-> users[u]]

addOrder(o, lvl, paid) ==
  orders' = Append(orders, [orderid |-> o, level |-> lvl, paid |-> paid, uid |-> 0])

redeemOrder_All(o, uid) ==
  orders' = [i \in DOMAIN orders |-> [orders[i] EXCEPT !.uid = uid]]
redeemOrder(o, uid) ==
  orders' = [i \in DOMAIN orders |->
               IF orders[i].orderid = o THEN [orders[i] EXCEPT !.uid = uid]
                                        ELSE orders[i]]

logSubscription(uid, o) == sublog' = Append(sublog, [uid |-> uid, orderid |-> o])

-----------------------------------------------------------------------------
(* Dates.  A DATE is a day number; setSubDate cuts a time to its day with   *)
(* gmtime, in UTC.                                                         *)

DateOf(t) == t \div TicksPerDay

Term(lvl) == IF lvl \in {1, 2} THEN ShortTerm ELSE LongTerm

(* The dates setSubDate may write: the switch over the access level leaves  *)
(* newtime uninitialised for any level but 1..4.                            *)
SubEndDates(lvl) ==
  IF lvl \in 1..4 THEN {DateOf(now + Term(lvl) * TicksPerDay)} ELSE GarbageDates

(* Time passes. *)
Tick == now' = now + 1 /\ UNCHANGED <<users, nextUid, orders, sublog>>

DbTypeOK ==
  /\ nextUid \in Nat \ {0}
  /\ DOMAIN users \subseteq 1..(nextUid - 1)
  /\ \A u \in DOMAIN users : users[u] \in UserRow
  /\ orders \in Seq(OrderRow)
  /\ sublog \in Seq(SublogRow)
  /\ now \in Nat
=============================================================================
