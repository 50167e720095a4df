------------------------------ MODULE DiscordBot ------------------------------
(***************************************************************************)
(* The Discord bot (class discord, discordbot.h): .auth accepts an order id *)
(* and .reg turns it into an account.                                      *)
(*                                                                         *)
(* The bot is created with USER_CONTROLED_THREADS and run by one thread, so *)
(* messages are handled one at a time; the database however is shared with  *)
(* the other threads, so a handler is cut at every SQL statement.  bot.pc   *)
(* names the manager call that comes next.  A message that is refused       *)
(* before its first write (wrong channel, bad format, unknown order, taken  *)
(* name) changes nothing and is a stutter or a return to "idle".            *)
(*                                                                         *)
(* sendMessage may throw.  Within .reg's try that leads to the catch (...)  *)
(* at its end, which sets auth to "empty" wherever the registration was.    *)
(***************************************************************************)
EXTENDS DbManager

CONSTANTS
  Empty,   \* the string "empty" that auth starts with
  MaxUid   \* bound: accounts created in a behaviour

\* That the shop has no order of the id "empty": .auth only insists on a message
\* of 16 characters, which spaces can fill.
ASSUME BotAssumption ==
  /\ Empty \notin OrderIds \cup {Null}
  /\ Null \notin Usernames \cup DiscordUsers
  /\ MaxUid \in Nat

VARIABLES
  auth,    \* field auth of the one discord object
  bot,     \* the message being handled
  authed,  \* history: the authors whose .auth was accepted
  opened   \* history: for each uid, the order it was opened with, when it was dated,
           \*   and whether .reg came to redeem the order

botVars == <<auth, bot, authed, opened>>

BotIdle == [pc |-> "idle", from |-> Null, order |-> Null, uname |-> Null,
            level |-> 0, uid |-> 0, then |-> "idle"]

BotMsg == [pc : {"idle", "isOrderRedeemed", "doesUsernameExist", "doesDuidExist",
                 "addUser", "uidExists", "uidSelect", "isOrderPaidFor",
                 "setSubDate", "redeemOrder"},
           from : DiscordUsers \cup {Null}, order : OrderIds \cup {Null},
           uname : Usernames \cup {Null}, level : Levels \cup {0}, uid : Int,
           then : {"idle", "isOrderPaidFor", "setSubDate", "redeemOrder"}]

BotTypeOK ==
  /\ auth \in OrderIds \cup {Empty}
  /\ bot \in BotMsg
  /\ authed \subseteq DiscordUsers
  /\ opened \in Seq([order : OrderIds \cup {Empty}, datedAt : Int \cup {Null},
                     redeemed : BOOLEAN])
  /\ Len(opened) = nextUid - 1

BotInit == auth = Empty /\ bot = BotIdle /\ authed = {} /\ opened = <<>>

Goto(pc) == bot' = [bot EXCEPT !.pc = pc]
GetUidThen(pc) == bot' = [bot EXCEPT !.pc = "uidExists", !.then = pc]

(* The author is told of a refusal, or that fails and the catch (...) runs. *)
Refuse == bot' = BotIdle /\ auth' \in {auth, Empty}
(* The catch (...) of .reg. *)
Caught == bot' = BotIdle /\ auth' = Empty

-----------------------------------------------------------------------------
(* .auth *)

Auth(d, o) ==
  /\ bot.pc = "idle"
  /\ doesOrderExist(o)
  /\ bot' = [BotIdle EXCEPT !.pc = "isOrderRedeemed", !.from = d, !.order = o]
  /\ UNCHANGED <<dbVars, auth, authed, opened>>

AuthCheckRedeemed ==
  /\ bot.pc = "isOrderRedeemed"
  /\ IF isOrderRedeemed(bot.order)
     THEN UNCHANGED <<auth, authed>>
     ELSE auth' = bot.order /\ authed' = authed \cup {bot.from}
  /\ bot' = BotIdle
  /\ UNCHANGED <<dbVars, opened>>

-----------------------------------------------------------------------------
(* .reg *)

Reg(d, n) ==
  /\ bot.pc = "idle"
  /\ auth # Empty
  /\ nextUid <= MaxUid
  /\ bot' = [BotIdle EXCEPT !.pc = "doesUsernameExist", !.from = d, !.uname = n,
                            !.level = getOrder(auth).level]
  /\ UNCHANGED <<dbVars, auth, authed, opened>>

(* Refused before the first statement: the channel, the form or the         *)
(* characters are wrong, or nothing is authorised.                         *)
RegRefused ==
  /\ bot.pc = "idle"
  /\ Refuse
  /\ UNCHANGED <<dbVars, authed, opened>>

RegCheckUsername ==
  /\ bot.pc = "doesUsernameExist"
  /\ IF doesUsernameExist(bot.uname)
     THEN Refuse
     ELSE Goto("doesDuidExist") /\ UNCHANGED auth
  /\ UNCHANGED <<dbVars, authed, opened>>

RegCheckDuid ==
  /\ bot.pc = "doesDuidExist"
  /\ IF doesDuidExist(bot.from) THEN Refuse ELSE Goto("addUser") /\ UNCHANGED auth
  /\ UNCHANGED <<dbVars, authed, opened>>

RegAddUser ==
  /\ bot.pc = "addUser"
  /\ addUser(bot.uname, bot.from, bot.level)
  /\ opened' = Append(opened, [order |-> auth, datedAt |-> Null, redeemed |-> FALSE])
  /\ GetUidThen("isOrderPaidFor")
  /\ UNCHANGED <<orders, sublog, now, auth, authed>>

(* getUid is two statements: is there such a row, and which uid has it.     *)
GetUidExists ==
  /\ bot.pc = "uidExists"
  /\ IF doesUsernameExist(bot.uname)
     THEN Goto("uidSelect")
     ELSE bot' = [bot EXCEPT !.pc = bot.then, !.uid = DBINTERROR]
  /\ UNCHANGED <<dbVars, auth, authed, opened>>

(* Without a row the second statement yields "", stoi("") throws and .reg's *)
(* catch (...) drops the authorisation.                                    *)
GetUidSelect ==
  /\ bot.pc = "uidSelect"
  /\ \/ \E u \in UidsNamed(bot.uname) :
          bot' = [bot EXCEPT !.pc = bot.then, !.uid = u] /\ UNCHANGED auth
     \/ UidsNamed(bot.uname) = {} /\ Caught
  /\ UNCHANGED <<dbVars, authed, opened>>

RegPaid_Unconditional ==
  /\ bot.pc = "isOrderPaidFor"
  /\ GetUidThen("setSubDate")
  /\ UNCHANGED <<dbVars, auth, authed, opened>>
RegPaid ==
  /\ bot.pc = "isOrderPaidFor"
  /\ isOrderPaidFor(auth)
  /\ GetUidThen("setSubDate")
  /\ UNCHANGED <<dbVars, auth, authed, opened>>

(* "This order has not yet been paid for": the account stays undated.  If   *)
(* the warning cannot be sent, the order stays unredeemed besides.         *)
WarnUnpaid ==
  /\ bot.pc = "isOrderPaidFor"
  /\ ~isOrderPaidFor(auth)
  /\ \/ GetUidThen("redeemOrder") /\ UNCHANGED auth
     \/ Caught
  /\ UNCHANGED <<dbVars, authed, opened>>

(* With no such row setSubDate indexes an empty vector: see RegFault.       *)
RegSetSubDate ==
  /\ bot.pc = "setSubDate"
  /\ bot.uid \in DOMAIN users
  /\ \E date \in SubEndDates(bot.level) : setSubEnd(bot.uid, date)
  /\ opened' = [opened EXCEPT ![bot.uid].datedAt = now]
  /\ GetUidThen("redeemOrder")
  /\ UNCHANGED <<nextUid, orders, sublog, now, auth, authed>>

RegRedeem_KeepAuth ==
  /\ bot.pc = "redeemOrder"
  /\ redeemOrder(auth, bot.uid)
  /\ opened' = [opened EXCEPT ![nextUid - 1].redeemed = TRUE]
  /\ bot' = BotIdle
  /\ UNCHANGED <<users, nextUid, sublog, now, auth, authed>>
RegRedeem ==
  /\ bot.pc = "redeemOrder"
  /\ redeemOrder(auth, bot.uid)
  /\ opened' = [opened EXCEPT ![nextUid - 1].redeemed = TRUE]
  /\ auth' = Empty
  /\ bot' = BotIdle
  /\ UNCHANGED <<users, nextUid, sublog, now, authed>>

(* Undefined behaviour on the way: explode("")[0] of a missing row, or      *)
(* gmtime of an uninitialised time that is out of range and returns NULL.   *)
RegFaults ==
  bot.pc = "setSubDate" /\ (bot.uid \notin DOMAIN users \/ bot.level \notin 1..4)

(* A long enough .auth without a space: explode(...)[1] is past the end of  *)
(* a one-element vector.  Or sendMessage throws where nothing catches it:   *)
(* outside .reg, or in its catch (...).                                    *)
MalformedMessage == bot.pc = "idle"

RegStep ==
  \/ RegCheckUsername \/ RegCheckDuid \/ RegAddUser \/ GetUidExists \/ GetUidSelect
  \/ RegPaid \/ WarnUnpaid \/ RegSetSubDate \/ RegRedeem

BotStep == AuthCheckRedeemed \/ RegStep
BotMessage == \E d \in DiscordUsers : \/ \E o \in OrderIds : Auth(d, o)
                                      \/ \E n \in Usernames : Reg(d, n)
                                      \/ RegRefused
=============================================================================
