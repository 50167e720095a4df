-------------------------------- MODULE Server --------------------------------
(***************************************************************************)
(* The server process (server.cpp): the bot, order and account threads over *)
(* one database, their interleaving at SQL statements, and the death of the *)
(* whole process from inside any of them.                                  *)
(*                                                                         *)
(* A statement that throws sends its thread into system("pause"): it waits  *)
(* for a key on the console while the other threads go on, and then calls   *)
(* exit(-1).  An exit loses all memory; the database survives it.          *)
(***************************************************************************)
EXTENDS DiscordBot, AccountChecker, OrderChecker

CONSTANTS
  MayThrow,     \* threads whose SQL statements may throw
  MaxRestarts,  \* bound: restarts of the process by its operator
  MaxNow        \* bound: ticks

Threads == {"bot", "sweep", "feed"}

ASSUME ServerAssumption ==
  /\ MayThrow \subseteq Threads
  /\ MaxRestarts \in Nat
  /\ MaxNow \in Nat

VARIABLES
  up,        \* the process is running
  paused,    \* threads waiting in system("pause")
  restarts,
  fault      \* history: what ended the process when it last exited

procVars == <<up, paused, restarts, fault>>
vars == <<dbVars, botVars, sweep, feedVars, procVars>>

Causes == {"none", "sql", "bot", "sweep", "feedClosed", "feed"}

Init ==
  /\ DbInit /\ BotInit /\ SweepInit /\ FeedInit
  /\ up = TRUE /\ paused = {} /\ restarts = 0 /\ fault = "none"

-----------------------------------------------------------------------------
(* One thread moves *)

BotActs(A) == up /\ "bot" \notin paused /\ A /\ UNCHANGED <<sweep, feedVars, procVars>>
SweepActs(A) == up /\ "sweep" \notin paused /\ A /\ UNCHANGED <<botVars, feedVars, procVars>>
FeedActs(A) == up /\ "feed" \notin paused /\ A /\ UNCHANGED <<botVars, sweep, procVars>>

-----------------------------------------------------------------------------
(* The process ends, and is started again *)

Exit(cause) ==
  /\ up
  /\ up' = FALSE
  /\ paused' = {}
  /\ fault' = cause
  /\ auth' = Empty /\ bot' = BotIdle
  /\ sweep' = SweepAsleep
  /\ feed' = FeedStart
  /\ UNCHANGED <<dbVars, authed, opened, reportedPaid, restarts>>

(* Idle and asleep, the bot and the checker may be at the first statement   *)
(* of a message or of a pass, the feed in "recv" at that of a report.       *)
AtStatement(t) == t = "feed" => feed.pc \in {"recv", "addOrder"}

(* The statement thread t is at throws. *)
SqlThrows(t) ==
  /\ up /\ t \notin paused /\ AtStatement(t)
  /\ paused' = paused \cup {t}
  /\ UNCHANGED <<dbVars, botVars, sweep, feedVars, up, restarts, fault>>

KeyPressed == paused # {} /\ Exit("sql")

BotFault == "bot" \notin paused /\ RegFaults /\ Exit("bot")
BotMalformed == "bot" \notin paused /\ MalformedMessage /\ Exit("bot")
SweepFault == "sweep" \notin paused /\ SweepFaults /\ Exit("sweep")
FeedClosed == FeedPeerCloses /\ Exit("feedClosed")
FeedFault == FeedFaults /\ Exit("feed")

Restart ==
  /\ ~up
  /\ restarts < MaxRestarts
  /\ up' = TRUE
  /\ restarts' = restarts + 1
  /\ UNCHANGED <<dbVars, botVars, sweep, feedVars, paused, fault>>

TimePasses ==
  /\ now < MaxNow
  /\ Tick
  /\ UNCHANGED <<botVars, sweep, feedVars, procVars>>

-----------------------------------------------------------------------------
Next ==
  \/ BotActs(BotMessage) \/ BotActs(BotStep)
  \/ SweepActs(SweepWake) \/ SweepActs(SweepStep)
  \/ FeedActs(FeedAccept) \/ FeedActs(FeedMessage) \/ FeedActs(FeedAddOrder)
  \/ FeedActs(FeedReturn)
  \/ \E t \in MayThrow : SqlThrows(t)
  \/ KeyPressed \/ BotFault \/ BotMalformed \/ SweepFault \/ FeedClosed \/ FeedFault
  \/ Restart \/ TimePasses

Spec == Init /\ [][Next]_vars

(* A thread that is not waiting for a key or a message keeps running, into  *)
(* its fault if that is what comes next: the threads are detached and never *)
(* block each other.  Nothing is assumed of messages, of the operator, of   *)
(* the clock, of throwing statements or of the other exits.                 *)
Fairness ==
  /\ WF_vars(BotActs(BotStep) \/ BotFault)
  /\ WF_vars(SweepActs(SweepStep) \/ SweepFault)

FairSpec == Spec /\ Fairness

-----------------------------------------------------------------------------
(* Safety *)

TypeOK ==
  /\ DbTypeOK /\ BotTypeOK /\ SweepTypeOK /\ FeedTypeOK
  /\ up \in BOOLEAN
  /\ paused \subseteq Threads
  /\ restarts \in Nat
  /\ fault \in Causes

(* No order is entered twice, though the feed asks and inserts in two       *)
(* statements and reports the same order as often as it likes              *)
(* (clienthandler.cpp:486-487): getOrder and redeemOrder rely on it.        *)
UniqueOrders == \A i, j \in DOMAIN orders :
  orders[i].orderid = orders[j].orderid => i = j

(* No two accounts share a name or a Discord id, though .reg checks both    *)
(* statements before it inserts (discordbot.h:202-213): getUid, login and   *)
(* redeemOrder take the first row for the row.                             *)
UniqueAccounts == \A u, v \in DOMAIN users :
  (users[u].username = users[v].username \/ users[u].duid = users[v].duid) => u = v

(* The order the bot holds for the next .reg is in the table and still      *)
(* unredeemed (discordbot.h:132-149): between .auth and .reg nobody else    *)
(* redeems or loses it.                                                    *)
AuthUnredeemed == auth # Empty =>
  \E i \in DOMAIN orders : orders[i].orderid = auth /\ orders[i].uid = 0

(* From the moment .reg inserts an account until it has dated it, or, if    *)
(* the order is unpaid, redeemed the order, the account stays as inserted:  *)
(* getUid and setSubDate (discordbot.h:215-263) find the row although the   *)
(* checker sweeps beside them.                                             *)
NewAccountStable ==
  LET uid == nextUid - 1
  IN  bot.then # "idle" /\ opened[uid].datedAt = Null =>
        /\ uid \in DOMAIN users
        /\ users[uid].username = bot.uname
        /\ users[uid].subEnd = Null

(* An account that is gone is in sublog, whatever exits came between the    *)
(* INSERT and the DELETE of expiredUser (dbmanager.cpp:480-481).            *)
GoneIsLogged == \A u \in 1..(nextUid - 1) :
  u \in DOMAIN users \/ \E i \in DOMAIN sublog : sublog[i].uid = u

(* The order a sublog row names is redeemed, and by that very account:      *)
(* expiredUser reads it (getOrderuid) in a statement of its own.           *)
SublogOrderSound == \A i \in DOMAIN sublog : sublog[i].orderid # Null =>
  \E j \in DOMAIN orders :
    orders[j].orderid = sublog[i].orderid /\ orders[j].uid = sublog[i].uid

(* For an account still there and the order that carries its uid: the       *)
(* access levels agree, and the account has an end date iff the order was   *)
(* paid (discordbot.h:216-263, read and written in separate statements).    *)
AccountMatchesOrder == \A i \in DOMAIN orders : orders[i].uid \in DOMAIN users =>
  LET account == users[orders[i].uid]
  IN  /\ account.level = orders[i].level
      /\ orders[i].paid <=> account.subEnd # Null

(* Once a registration has come to its redeemOrder (discordbot.h:265) its   *)
(* order opens no further account, across exits, throwing statements and    *)
(* messages that cannot be sent, and though the account may be gone by      *)
(* then: what opens a second one is only a registration cut short before.   *)
OneRegistrationPerOrder == \A u, v \in DOMAIN opened :
  u < v /\ opened[u].order = opened[v].order => ~opened[u].redeemed

-----------------------------------------------------------------------------
(* Action properties *)

(* A redeemed order keeps its uid for good: .auth refuses it                *)
(* (discordbot.h:140), so redeemOrder never writes it again, not even when  *)
(* the first redemption wrote DBINTERROR because the account was gone.      *)
RedeemedOnce == [][\A i \in DOMAIN orders : orders[i].uid # 0 =>
  i \in DOMAIN orders' /\ orders'[i].uid = orders[i].uid]_vars

(* The warning "This order has not yet been paid for" (discordbot.h:218) is *)
(* only sent for orders the feed never reported as paid.                    *)
UnpaidWarningTruthful == [][WarnUnpaid => auth \notin reportedPaid]_vars

-----------------------------------------------------------------------------
(* The inductive invariant behind the safety properties (ServerProofs) *)

(* The order about to be inserted is still unknown: only this thread        *)
(* inserts orders.                                                         *)
FeedInv == feed.pc = "addOrder" =>
  /\ feed.msg.orderid \in OrderIds
  /\ feed.msg.level \in Levels
  /\ ~doesOrderExist(feed.msg.orderid)

(* What the statements of .auth and .reg already asked is still so: only    *)
(* this thread inserts accounts.                                           *)
BotInv ==
  /\ bot.pc = "isOrderRedeemed" =>
       bot.from \in DiscordUsers /\ bot.order \in OrderIds /\ doesOrderExist(bot.order)
  /\ bot.pc \notin {"idle", "isOrderRedeemed"} =>
       /\ auth # Empty
       /\ bot.from \in DiscordUsers
       /\ bot.uname \in Usernames
       /\ bot.level \in Levels
  /\ bot.pc \in {"doesDuidExist", "addUser"} => ~doesUsernameExist(bot.uname)
  /\ bot.pc = "addUser" => ~doesDuidExist(bot.from)
  /\ bot.then # "idle" <=>
       bot.pc \in {"uidExists", "uidSelect", "isOrderPaidFor", "setSubDate", "redeemOrder"}
  /\ bot.then # "idle" => nextUid > 1

(* The account being removed is dated, and logged by the time it goes.      *)
SweepInv ==
  /\ sweep.pc \in {"getOrderuid", "log", "delete"} =>
       sweep.uid \in DOMAIN users /\ users[sweep.uid].subEnd # Null
  /\ sweep.pc = "delete" => \E i \in DOMAIN sublog : sublog[i].uid = sweep.uid

IInv ==
  /\ TypeOK
  /\ UniqueOrders /\ FeedInv
  /\ UniqueAccounts /\ AuthUnredeemed /\ BotInv
  /\ NewAccountStable /\ GoneIsLogged /\ SweepInv

(* The order about to be logged, or logged already, is the account's.       *)
LogInv == sweep.pc \in {"log", "delete"} /\ sweep.order # Null =>
  \E j \in DOMAIN orders : orders[j].orderid = sweep.order /\ orders[j].uid = sweep.uid

(* What .reg read of its order still holds; from the insert on no other     *)
(* account has the name, no order carries the new uid, and the account, if  *)
(* it is still there, is what the order asks for.                          *)
BotOrderInv ==
  LET uid == nextUid - 1
  IN  /\ bot.pc \notin {"idle", "isOrderRedeemed"} =>
           \E i \in RowsOf(auth) :
             /\ orders[i].level = bot.level
             /\ bot.then = "setSubDate" => orders[i].paid
             /\ bot.then = "redeemOrder" /\ uid \in DOMAIN users =>
                  (orders[i].paid <=> users[uid].subEnd # Null)
      /\ bot.then # "idle" =>
           /\ UidsNamed(bot.uname) \subseteq {uid}
           /\ \A i \in DOMAIN orders : orders[i].uid # uid
           /\ uid \in DOMAIN users => users[uid].level = bot.level
           /\ bot.then = "isOrderPaidFor" /\ uid \in DOMAIN users => users[uid].subEnd = Null
      /\ bot.pc \in {"isOrderPaidFor", "setSubDate", "redeemOrder"} => bot.then = bot.pc
      /\ bot.pc \in {"setSubDate", "redeemOrder"} => bot.uid \in {uid, DBINTERROR}

OrderInv ==
  /\ SublogOrderSound /\ AccountMatchesOrder
  /\ \A i \in DOMAIN orders : orders[i].uid < nextUid
  /\ LogInv /\ BotOrderInv

(* An order whose registration came to its redeemOrder is redeemed, also    *)
(* when that wrote DBINTERROR; and .reg works for the order it opened the   *)
(* account with.                                                           *)
RedeemedInv ==
  /\ \A u \in DOMAIN opened : opened[u].redeemed =>
       \E i \in RowsOf(opened[u].order) : orders[i].uid # 0
  /\ bot.then # "idle" => opened[nextUid - 1].order = auth

-----------------------------------------------------------------------------
(* The abstract specification *)

Lifecycle == INSTANCE AccountLifecycle WITH
  listed  <- {orders[i].orderid : i \in DOMAIN orders},
  spent   <- {orders[i].orderid : i \in {j \in DOMAIN orders : orders[j].uid # 0}},
  sold    <- [u \in DOMAIN opened |-> opened[u].order],
  live    <- DOMAIN users,
  archive <- {sublog[i].uid : i \in DOMAIN sublog}

(* Through every interleaving of statements, fault and restart the tables   *)
(* tell the story AccountLifecycle tells: every step of the server is one   *)
(* of its steps or changes nothing it speaks of.                           *)
ImplementsLifecycle == Lifecycle!Spec

-----------------------------------------------------------------------------
(* Claims of the bot's texts and of the code's own guards *)

(* An order opens one account: .auth refuses an order that "has already     *)
(* been redeemed" (discordbot.h:140-148).                                  *)
OneAccountPerOrder == \A u, v \in DOMAIN opened :
  opened[u].order = opened[v].order => u = v

(* An account is only removed once the day its end date names has begun     *)
(* where the server stands: what the log line "subscription has expired!"   *)
(* (clienthandler.cpp:557) says.                                           *)
RemovedOnlyIfExpired == [][\A u \in DOMAIN users \ DOMAIN users' :
  \E z \in ZoneOffsets : LocalMidnight(users[u].subEnd, z) < now]_vars

(* An account is only removed a full term after it was dated: "vip 30d"     *)
(* (dbmanager.cpp:440).                                                    *)
SubscriptionLastsFullTerm == [][\A u \in DOMAIN users \ DOMAIN users' :
  now >= opened[u].datedAt + Term(users[u].level) * TicksPerDay]_vars

(* Who has not had an order accepted cannot register (discordbot.h:75).     *)
RegisteredOnlyAfterAuth == \A u \in DOMAIN users : users[u].duid \in authed

(* A pass over the accounts never ends the process: accounts without an     *)
(* end date are meant to be skipped (clienthandler.cpp:527-533).            *)
SweepSkipsBroken == fault # "sweep"

-----------------------------------------------------------------------------
(* Liveness *)

(* A registration that reached its insert comes to its end: the bot is idle *)
(* with its authorisation spent, unless the process exits or the thread     *)
(* waits for a key.                                                        *)
RegistrationSettles ==
  bot.pc = "addUser" ~> (bot.pc = "idle" /\ auth = Empty) \/ "bot" \in paused \/ ~up

(* A pass over the accounts comes to its end, accounts that are added       *)
(* meanwhile notwithstanding, unless the thread waits for a key (or an exit *)
(* cut the pass short).                                                    *)
SweepEnds == sweep.pc # "asleep" ~> sweep.pc = "asleep" \/ "sweep" \in paused
=============================================================================
