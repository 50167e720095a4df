----------------------------- MODULE ServerProofs -----------------------------
(***************************************************************************)
(* Proofs about Server, for every set of orders, names and people, every    *)
(* term, clock resolution and garbage value: the inductive invariant IInv   *)
(* and what follows from it, that Server implements AccountLifecycle, how   *)
(* orders, accounts and the log belong together, and that a redeemed order  *)
(* opens no further account.                                               *)
(***************************************************************************)
EXTENDS Server, SequenceTheorems, WellFoundedInduction, TLAPS

-----------------------------------------------------------------------------
(* Tables *)

(* A nonempty set of row numbers has a last one. *)
LEMMA LastRowExists ==
  ASSUME NEW n \in Nat, NEW rows \in SUBSET (1..n), rows # {}
  PROVE  /\ LastRow(rows) \in rows
         /\ \A j \in rows : j <= LastRow(rows)
<1> DEFINE below == {n - i : i \in rows}
<1>1. below \subseteq Nat /\ below # {}
  <2>1. \A i \in rows : n - i \in Nat
    OBVIOUS
  <2>2. PICK i \in rows : TRUE
    OBVIOUS
  <2>3. n - i \in below
    OBVIOUS
  <2> QED BY <2>1, <2>3
<1>2. PICK m \in below : \A k \in below : ~(<<k, m>> \in OpToRel(<, Nat))
  BY <1>1, NatLessThanWellFounded, WFMin, Zenon
<1>3. PICK i \in rows : m = n - i
  BY <1>2
<1>4. \A j \in rows : j <= i
  <2> SUFFICES ASSUME NEW j \in rows PROVE j <= i
    OBVIOUS
  <2>1. n - j \in below /\ n - j \in Nat /\ m \in Nat
    BY <1>1
  <2>2. ~(n - j < m)
    BY <1>2, <2>1 DEF OpToRel
  <2> QED BY <1>3, <2>2
<1> QED BY <1>4 DEF LastRow

(* What Append does to a table. *)
LEMMA Appended ==
  ASSUME NEW S, NEW s \in Seq(S), NEW e \in S
  PROVE  /\ Append(s, e) \in Seq(S)
         /\ Len(Append(s, e)) = Len(s) + 1
         /\ DOMAIN s = 1..Len(s)
         /\ Len(s) \in Nat
         /\ DOMAIN Append(s, e) = 1..(Len(s) + 1)
         /\ \A i \in DOMAIN s : Append(s, e)[i] = s[i]
         /\ Append(s, e)[Len(s) + 1] = e
BY AppendProperties, LenProperties

(* What the UPDATE of redeemOrder does to table orders. *)
LEMMA Redeemed ==
  ASSUME orders \in Seq(OrderRow), NEW o, NEW uid \in Int, redeemOrder(o, uid)
  PROVE  /\ orders' \in Seq(OrderRow)
         /\ DOMAIN orders' = DOMAIN orders
         /\ \A i \in DOMAIN orders : 
              orders'[i] = IF orders[i].orderid = o THEN [orders[i] EXCEPT !.uid = uid]
                                                    ELSE orders[i]
<1>1. orders \in [1..Len(orders) -> OrderRow] /\ Len(orders) \in Nat
  BY LenProperties
<1>2. orders' \in [1..Len(orders) -> OrderRow]
  BY <1>1 DEF redeemOrder, OrderRow
<1>3. orders' \in Seq(OrderRow)
  BY <1>1, <1>2, SeqDef
<1> QED BY <1>1, <1>3 DEF redeemOrder

(* getOrder answers with the one row of a known order. *)
LEMMA OneRow ==
  ASSUME orders \in Seq(OrderRow), UniqueOrders, NEW o, doesOrderExist(o)
  PROVE  \E i \in DOMAIN orders :
           /\ orders[i].orderid = o
           /\ getOrder(o) = orders[i]
           /\ orders[i] \in OrderRow
<1>1. orders \in [1..Len(orders) -> OrderRow] /\ Len(orders) \in Nat
  BY LenProperties
<1>2. RowsOf(o) # {} /\ RowsOf(o) \in SUBSET (1..Len(orders))
  BY <1>1 DEF doesOrderExist, RowsOf
<1>3. LastRow(RowsOf(o)) \in RowsOf(o)
  BY <1>1, <1>2, LastRowExists
<1> QED BY <1>1, <1>3 DEF getOrder, RowsOf

(* getOrderuid answers with an order id or with nothing. *)
LEMMA OrderOfUid ==
  ASSUME orders \in Seq(OrderRow), NEW uid
  PROVE  getOrderuid(uid) \in OrderIds \cup {Null}
<1> DEFINE rows == {i \in DOMAIN orders : orders[i].uid = uid}
<1>1. orders \in [1..Len(orders) -> OrderRow] /\ Len(orders) \in Nat
  BY LenProperties
<1>2. CASE rows = {}
  BY <1>2 DEF getOrderuid
<1>3. CASE rows # {}
  <2>1. LastRow(rows) \in rows
    BY <1>1, <1>3, LastRowExists
  <2>2. orders[LastRow(rows)].orderid \in OrderIds
    BY <1>1, <2>1 DEF OrderRow
  <2> QED BY <1>3, <2>2 DEF getOrderuid
<1> QED BY <1>2, <1>3

-----------------------------------------------------------------------------
(* The invariant is inductive *)

LEMMA InitInv == Init => IInv
<1> SUFFICES ASSUME Init PROVE IInv
  OBVIOUS
<1> USE DEF Init, DbInit, BotInit, SweepInit, FeedInit, BotIdle, SweepAsleep,
            FeedStart, NoMsg
<1>1. TypeOK
  <2>1. DbTypeOK
    BY DbAssumption DEF DbTypeOK
  <2>2. BotTypeOK
    BY DEF BotTypeOK, BotMsg
  <2>3. SweepTypeOK /\ FeedTypeOK
    BY DEF SweepTypeOK, FeedTypeOK, FeedMsg
  <2> QED BY <2>1, <2>2, <2>3 DEF TypeOK, Causes
<1>2. UniqueOrders /\ FeedInv /\ UniqueAccounts /\ AuthUnredeemed
  BY DEF UniqueOrders, FeedInv, UniqueAccounts, AuthUnredeemed
<1>3. BotInv /\ NewAccountStable /\ GoneIsLogged /\ SweepInv
  BY DEF BotInv, NewAccountStable, GoneIsLogged, SweepInv
<1> QED BY <1>1, <1>2, <1>3 DEF IInv

(* What a step leaves alone it need not be asked about again. *)
LEMMA TablesStay ==
  ASSUME IInv, UNCHANGED dbVars
  PROVE  /\ DbTypeOK' /\ UniqueOrders' /\ UniqueAccounts' /\ GoneIsLogged'
         /\ \A o : doesOrderExist(o)' <=> doesOrderExist(o)
         /\ \A n : doesUsernameExist(n)' <=> doesUsernameExist(n)
BY DEF IInv, dbVars, TypeOK, DbTypeOK, UniqueOrders, UniqueAccounts, GoneIsLogged,
       doesOrderExist, RowsOf, doesUsernameExist, UidsNamed

LEMMA SweepStays ==
  ASSUME IInv, UNCHANGED <<sweep, users, sublog>>
  PROVE  SweepTypeOK' /\ SweepInv'
BY DEF IInv, TypeOK, SweepTypeOK, SweepInv

LEMMA FeedStays ==
  ASSUME IInv, UNCHANGED feedVars, UNCHANGED orders
  PROVE  FeedTypeOK' /\ FeedInv'
BY DEF IInv, TypeOK, feedVars, FeedTypeOK, FeedMsg, FeedInv, doesOrderExist, RowsOf

LEMMA BotStays ==
  ASSUME IInv, UNCHANGED botVars, UNCHANGED nextUid
  PROVE  BotTypeOK'
BY DEF IInv, TypeOK, botVars, BotTypeOK

(* The steps of the bot that only read the tables. *)
LEMMA BotReads ==
  ASSUME IInv, UNCHANGED <<dbVars, opened>>, UNCHANGED <<sweep, feedVars, procVars>>,
         BotTypeOK', BotInv', AuthUnredeemed', NewAccountStable'
  PROVE  IInv'
<1>1. UNCHANGED <<users, nextUid, orders, sublog>>
  BY DEF dbVars
<1> QED
  BY <1>1, TablesStay, SweepStays, FeedStays DEF IInv, TypeOK, procVars

LEMMA AuthInv == ASSUME IInv, NEW d \in DiscordUsers, NEW o \in OrderIds, BotActs(Auth(d, o))
                 PROVE  IInv'
<1> USE DEF BotActs, Auth
<1>1. BotTypeOK'
  <2>1. bot' = [pc |-> "isOrderRedeemed", from |-> d, order |-> o, uname |-> Null,
                level |-> 0, uid |-> 0, then |-> "idle"]
    BY DEF BotIdle
  <2>2. bot' \in BotMsg
    BY <2>1 DEF BotMsg
  <2> QED BY <2>2 DEF IInv, TypeOK, BotTypeOK, dbVars
<1>2. BotInv'
  BY TablesStay DEF BotInv, BotIdle
<1>3. AuthUnredeemed'
  BY DEF IInv, AuthUnredeemed, dbVars
<1>4. NewAccountStable'
  BY DEF NewAccountStable, BotIdle
<1> QED BY <1>1, <1>2, <1>3, <1>4, BotReads

LEMMA AuthCheckInv == ASSUME IInv, BotActs(AuthCheckRedeemed) PROVE IInv'
<1> USE DEF BotActs, AuthCheckRedeemed
<1>1. bot.from \in DiscordUsers /\ bot.order \in OrderIds /\ doesOrderExist(bot.order)
  BY DEF IInv, BotInv
<1>2. BotTypeOK'
  BY <1>1 DEF IInv, TypeOK, BotTypeOK, BotMsg, BotIdle, dbVars
<1>3. BotInv'
  BY DEF BotInv, BotIdle
<1>4. AuthUnredeemed'
  <2>1. CASE isOrderRedeemed(bot.order)
    BY <2>1 DEF IInv, AuthUnredeemed, dbVars
  <2>2. CASE ~isOrderRedeemed(bot.order)
    <3>1. orders \in Seq(OrderRow) /\ UniqueOrders
      BY DEF IInv, TypeOK, DbTypeOK
    <3>2. PICK i \in DOMAIN orders : orders[i].orderid = bot.order /\ orders[i].uid = 0
      BY <1>1, <2>2, <3>1, OneRow DEF isOrderRedeemed
    <3> QED BY <2>2, <3>2 DEF AuthUnredeemed, dbVars
  <2> QED BY <2>1, <2>2
<1>5. NewAccountStable'
  BY DEF NewAccountStable, BotIdle
<1> QED BY <1>2, <1>3, <1>4, <1>5, BotReads

LEMMA RegInv == ASSUME IInv, NEW d \in DiscordUsers, NEW n \in Usernames, BotActs(Reg(d, n))
                PROVE  IInv'
<1> USE DEF BotActs, Reg
<1>1. getOrder(auth).level \in Levels
  <2>1. doesOrderExist(auth) /\ orders \in Seq(OrderRow) /\ UniqueOrders
    BY DEF IInv, TypeOK, DbTypeOK, AuthUnredeemed, doesOrderExist, RowsOf
  <2> QED BY <2>1, OneRow DEF OrderRow
<1>2. BotTypeOK'
  <2>1. bot' = [pc |-> "doesUsernameExist", from |-> d, order |-> Null, uname |-> n,
                level |-> getOrder(auth).level, uid |-> 0, then |-> "idle"]
    BY DEF BotIdle
  <2>2. bot' \in BotMsg
    BY ONLY <1>1, <2>1, d \in DiscordUsers, n \in Usernames DEF BotMsg
  <2> QED BY <2>2 DEF IInv, TypeOK, BotTypeOK, dbVars
<1>3. BotInv'
  BY <1>1 DEF BotInv, BotIdle
<1>4. AuthUnredeemed'
  BY DEF IInv, AuthUnredeemed, dbVars
<1>5. NewAccountStable'
  BY DEF NewAccountStable, BotIdle
<1> QED BY <1>2, <1>3, <1>4, <1>5, BotReads

(* .reg is refused, or its catch (...) runs. *)
LEMMA RegEndsInv ==
  ASSUME IInv, bot' = BotIdle, auth' \in {auth, Empty},
         UNCHANGED <<dbVars, authed, opened>>, UNCHANGED <<sweep, feedVars, procVars>>
  PROVE  IInv'
<1>1. BotTypeOK'
  BY DEF IInv, TypeOK, BotTypeOK, BotMsg, BotIdle, dbVars
<1>2. BotInv' /\ NewAccountStable'
  BY DEF BotInv, NewAccountStable, BotIdle
<1>3. AuthUnredeemed'
  BY DEF IInv, AuthUnredeemed, dbVars
<1> QED BY <1>1, <1>2, <1>3, BotReads

LEMMA RegRefusedInv == ASSUME IInv, BotActs(RegRefused) PROVE IInv'
BY RegEndsInv DEF BotActs, RegRefused, Refuse

LEMMA RegCheckUsernameInv == ASSUME IInv, BotActs(RegCheckUsername) PROVE IInv'
<1> USE DEF BotActs, RegCheckUsername
<1>1. CASE doesUsernameExist(bot.uname)
  BY <1>1, RegEndsInv DEF Refuse
<1>2. CASE ~doesUsernameExist(bot.uname)
  <2> USE <1>2 DEF Goto
  <2>1. BotTypeOK'
    BY DEF IInv, TypeOK, BotTypeOK, BotMsg, dbVars
  <2>2. BotInv'
    BY TablesStay DEF IInv, BotInv, TypeOK, BotTypeOK, BotMsg
  <2>3. AuthUnredeemed'
    BY DEF IInv, AuthUnredeemed, dbVars
  <2>4. NewAccountStable'
    BY DEF IInv, BotInv, NewAccountStable, TypeOK, BotTypeOK, BotMsg
  <2> QED BY <2>1, <2>2, <2>3, <2>4, BotReads
<1> QED BY <1>1, <1>2

LEMMA RegCheckDuidInv == ASSUME IInv, BotActs(RegCheckDuid) PROVE IInv'
<1> USE DEF BotActs, RegCheckDuid
<1>1. CASE doesDuidExist(bot.from)
  BY <1>1, RegEndsInv DEF Refuse
<1>2. CASE ~doesDuidExist(bot.from)
  <2> USE <1>2 DEF Goto
  <2>1. BotTypeOK'
    BY DEF IInv, TypeOK, BotTypeOK, BotMsg, dbVars
  <2>2. BotInv'
    BY TablesStay DEF IInv, BotInv, TypeOK, BotTypeOK, BotMsg, doesDuidExist, dbVars
  <2>3. AuthUnredeemed'
    BY DEF IInv, AuthUnredeemed, dbVars
  <2>4. NewAccountStable'
    BY DEF IInv, BotInv, NewAccountStable, TypeOK, BotTypeOK, BotMsg
  <2> QED BY <2>1, <2>2, <2>3, <2>4, BotReads
<1> QED BY <1>1, <1>2

(* A step of .reg that follows the insert and leaves account and bot.uname  *)
(* alone.                                                                  *)
LEMMA Registering ==
  ASSUME IInv, bot.then # "idle", UNCHANGED <<users, nextUid, opened>>,
         bot'.uname = bot.uname
  PROVE  NewAccountStable'
BY DEF IInv, NewAccountStable

LEMMA GetUidExistsInv == ASSUME IInv, BotActs(GetUidExists) PROVE IInv'
<1> USE DEF BotActs, GetUidExists, Goto
<1>0. bot.then # "idle" /\ bot \in BotMsg
  BY DEF IInv, BotInv, TypeOK, BotTypeOK
<1>1. BotTypeOK'
  <2>1. bot' \in BotMsg
    <3>1. CASE doesUsernameExist(bot.uname)
      BY <1>0, <3>1 DEF BotMsg
    <3>2. CASE ~doesUsernameExist(bot.uname)
      <4>1. bot.then \in {"isOrderPaidFor", "setSubDate", "redeemOrder"}
        BY <1>0 DEF BotMsg
      <4>2. bot' = [bot EXCEPT !.pc = bot.then, !.uid = DBINTERROR]
        BY <3>2
      <4>3. DBINTERROR \in Int
        BY DEF DBINTERROR
      <4> QED BY ONLY <1>0, <4>1, <4>2, <4>3 DEF BotMsg
    <3> QED BY <3>1, <3>2
  <2> QED BY <2>1 DEF IInv, TypeOK, BotTypeOK, dbVars
<1>2. BotInv'
  BY <1>0 DEF IInv, BotInv, BotMsg, dbVars
<1>3. AuthUnredeemed'
  BY DEF IInv, AuthUnredeemed, dbVars
<1>4. NewAccountStable'
  BY <1>0, Registering DEF BotMsg, dbVars
<1> QED BY <1>1, <1>2, <1>3, <1>4, BotReads

LEMMA GetUidSelectInv == ASSUME IInv, BotActs(GetUidSelect) PROVE IInv'
<1> USE DEF BotActs, GetUidSelect
<1>0. bot.then # "idle" /\ bot \in BotMsg
  BY DEF IInv, BotInv, TypeOK, BotTypeOK
<1>1. CASE Caught
  BY <1>1, RegEndsInv DEF Caught
<1>2. ASSUME NEW u \in UidsNamed(bot.uname),
             bot' = [bot EXCEPT !.pc = bot.then, !.uid = u], UNCHANGED auth
      PROVE  IInv'
  <2>1. u \in Int
    <3>1. DOMAIN users \subseteq 1..(nextUid - 1) /\ nextUid \in Nat \ {0}
      BY DEF IInv, TypeOK, DbTypeOK
    <3>2. u \in DOMAIN users
      BY DEF UidsNamed
    <3> QED BY ONLY <3>1, <3>2
  <2>2. BotTypeOK'
    BY <1>0, <1>2, <2>1 DEF IInv, TypeOK, BotTypeOK, BotMsg, dbVars
  <2>3. BotInv'
    BY <1>0, <1>2 DEF IInv, BotInv, BotMsg, dbVars
  <2>4. AuthUnredeemed'
    BY <1>2 DEF IInv, AuthUnredeemed, dbVars
  <2>5. NewAccountStable'
    BY <1>0, <1>2, Registering DEF BotMsg, dbVars
  <2> QED BY <2>2, <2>3, <2>4, <2>5, BotReads
<1> QED BY <1>1, <1>2

LEMMA RegPaidInv == ASSUME IInv, BotActs(RegPaid) \/ BotActs(WarnUnpaid) PROVE IInv'
<1>0. bot.then # "idle" /\ bot \in BotMsg
  BY DEF IInv, BotInv, TypeOK, BotTypeOK, BotActs, RegPaid, WarnUnpaid
<1>1. CASE BotActs(WarnUnpaid) /\ Caught
  BY <1>1, RegEndsInv DEF BotActs, WarnUnpaid, Caught
<1>2. CASE \E t \in {"setSubDate", "redeemOrder"} : GetUidThen(t) /\ UNCHANGED auth
  <2>1. /\ \E t \in {"setSubDate", "redeemOrder"} :
              bot' = [bot EXCEPT !.pc = "uidExists", !.then = t]
        /\ UNCHANGED <<dbVars, auth, authed, opened>>
        /\ UNCHANGED <<sweep, feedVars, procVars>>
        /\ bot.pc = "isOrderPaidFor"
    BY <1>2 DEF BotActs, RegPaid, WarnUnpaid, GetUidThen
  <2>2. BotTypeOK'
    BY <1>0, <2>1 DEF IInv, TypeOK, BotTypeOK, BotMsg, dbVars
  <2>3. BotInv'
    BY <1>0, <2>1 DEF IInv, BotInv, BotMsg, dbVars
  <2>4. AuthUnredeemed'
    BY <2>1 DEF IInv, AuthUnredeemed, dbVars
  <2>5. NewAccountStable'
    BY <1>0, <2>1, Registering DEF BotMsg, dbVars
  <2> QED BY <2>1, <2>2, <2>3, <2>4, <2>5, BotReads
<1> QED BY <1>1, <1>2 DEF BotActs, RegPaid, WarnUnpaid

LEMMA RegAddUserInv == ASSUME IInv, BotActs(RegAddUser) PROVE IInv'
<1> DEFINE Opened == [order : OrderIds \cup {Empty}, datedAt : Int \cup {Null}, redeemed : BOOLEAN]
           row == [order |-> auth, datedAt |-> Null, redeemed |-> FALSE]
<1>0. /\ bot \in BotMsg /\ bot.pc = "addUser"
      /\ auth \in OrderIds /\ bot.from \in DiscordUsers
      /\ bot.uname \in Usernames /\ bot.level \in Levels
      /\ nextUid \in Nat \ {0} /\ DOMAIN users \subseteq 1..(nextUid - 1)
      /\ opened \in Seq(Opened) /\ Len(opened) = nextUid - 1
  BY DEF IInv, BotInv, TypeOK, BotTypeOK, DbTypeOK, BotActs, RegAddUser
<1>1. /\ nextUid' = nextUid + 1
      /\ DOMAIN users' = DOMAIN users \cup {nextUid}
      /\ users'[nextUid] = [username |-> bot.uname, duid |-> bot.from,
                            level |-> bot.level, subEnd |-> Null]
      /\ \A u \in DOMAIN users : users'[u] = users[u]
  BY <1>0 DEF BotActs, RegAddUser, addUser
<1>2. /\ bot' = [bot EXCEPT !.pc = "uidExists", !.then = "isOrderPaidFor"]
      /\ opened' = Append(opened, row)
      /\ UNCHANGED <<orders, sublog, now, auth, authed>>
      /\ UNCHANGED <<sweep, feedVars, procVars>>
  BY DEF BotActs, RegAddUser, GetUidThen
<1>3. row \in Opened
  BY <1>0
<1>4. DbTypeOK'
  <2>1. users'[nextUid] \in UserRow
    BY <1>0, <1>1 DEF UserRow
  <2>2. \A u \in DOMAIN users' : users'[u] \in UserRow
    BY <1>1, <2>1 DEF IInv, TypeOK, DbTypeOK
  <2>3. DOMAIN users' \subseteq 1..(nextUid' - 1) /\ nextUid' \in Nat \ {0}
    BY <1>0, <1>1
  <2> QED BY <1>2, <2>2, <2>3 DEF IInv, TypeOK, DbTypeOK
<1>5. BotTypeOK'
  <2>1. bot' \in BotMsg
    BY <1>0, <1>2 DEF BotMsg
  <2>2. opened' \in Seq(Opened) /\ Len(opened') = nextUid' - 1
    BY <1>0, <1>1, <1>2, <1>3, Appended
  <2> QED BY <1>2, <2>1, <2>2 DEF IInv, TypeOK, BotTypeOK
<1>6. UniqueAccounts'
  <2>1. /\ \A u \in DOMAIN users : users[u].username # bot.uname
        /\ \A u \in DOMAIN users : users[u].duid # bot.from
    BY <1>0 DEF IInv, BotInv, doesUsernameExist, UidsNamed, doesDuidExist
  <2> QED BY <1>1, <2>1 DEF IInv, UniqueAccounts
<1>7. AuthUnredeemed' /\ UniqueOrders' /\ FeedTypeOK' /\ FeedInv'
  BY <1>2, FeedStays DEF IInv, AuthUnredeemed, UniqueOrders
<1>8. BotInv'
  BY <1>0, <1>1, <1>2 DEF IInv, BotInv, BotMsg
<1>9. NewAccountStable'
  BY <1>0, <1>1, <1>2 DEF NewAccountStable, BotMsg
<1>10. GoneIsLogged'
  BY <1>0, <1>1, <1>2 DEF IInv, GoneIsLogged
<1>11. SweepTypeOK' /\ SweepInv'
  BY <1>0, <1>1, <1>2 DEF IInv, TypeOK, SweepTypeOK, SweepInv
<1> QED BY <1>2, <1>4, <1>5, <1>6, <1>7, <1>8, <1>9, <1>10, <1>11
        DEF IInv, TypeOK, procVars

(* The dates setSubDate writes are day numbers. *)
LEMMA EndDateType == ASSUME now \in Nat, NEW lvl \in Int PROVE SubEndDates(lvl) \subseteq Int
<1>1. CASE lvl \in 1..4
  <2>1. Term(lvl) * TicksPerDay \in Int
    BY DbAssumption DEF Term
  <2>2. now + Term(lvl) * TicksPerDay \in Int
    BY <2>1
  <2>3. DateOf(now + Term(lvl) * TicksPerDay) \in Int
    BY <2>2, DbAssumption DEF DateOf
  <2> QED BY <1>1, <2>3 DEF SubEndDates
<1>2. CASE lvl \notin 1..4
  BY <1>2, DbAssumption DEF SubEndDates
<1> QED BY <1>1, <1>2

LEMMA RegSetSubDateInv == ASSUME IInv, BotActs(RegSetSubDate) PROVE IInv'
<1> DEFINE Opened == [order : OrderIds \cup {Empty}, datedAt : Int \cup {Null}, redeemed : BOOLEAN]
<1>0. /\ bot \in BotMsg /\ bot.pc = "setSubDate" /\ bot.then # "idle"
      /\ bot.uid \in DOMAIN users /\ now \in Nat
      /\ opened \in Seq(Opened) /\ Len(opened) = nextUid - 1
      /\ nextUid \in Nat \ {0} /\ nextUid > 1 /\ DOMAIN users \subseteq 1..(nextUid - 1)
  BY DEF IInv, BotInv, TypeOK, BotTypeOK, DbTypeOK, BotActs, RegSetSubDate
<1>1. PICK date \in SubEndDates(bot.level) : setSubEnd(bot.uid, date)
  BY DEF BotActs, RegSetSubDate
<1>2. /\ bot' = [bot EXCEPT !.pc = "uidExists", !.then = "redeemOrder"]
      /\ opened' = [opened EXCEPT ![bot.uid].datedAt = now]
      /\ UNCHANGED <<nextUid, orders, sublog, now, auth, authed>>
      /\ UNCHANGED <<sweep, feedVars, procVars>>
  BY DEF BotActs, RegSetSubDate, GetUidThen
<1>3. date \in Int /\ date # Null
  <2>1. bot.level \in Int
    <3>1. bot.level \in Levels \cup {0}
      BY <1>0 DEF BotMsg
    <3>2. Levels \cup {0} \subseteq Int
      BY DbAssumption DEF DbAssumption
    <3> QED BY <3>1, <3>2
  <2> QED BY <1>0, <1>1, <2>1, EndDateType, DbAssumption
<1>4. /\ DOMAIN users' = DOMAIN users
      /\ users'[bot.uid] = [users[bot.uid] EXCEPT !.subEnd = date]
      /\ \A u \in DOMAIN users : u # bot.uid => users'[u] = users[u]
  BY <1>0, <1>1 DEF setSubEnd
<1>5. \A u \in DOMAIN users : users[u] \in UserRow
  BY DEF IInv, TypeOK, DbTypeOK
<1>6. \A u \in DOMAIN users : /\ users'[u] \in UserRow
                              /\ users'[u].username = users[u].username
                              /\ users'[u].duid = users[u].duid
                              /\ users[u].subEnd # Null => users'[u].subEnd # Null
  BY <1>0, <1>3, <1>4, <1>5 DEF UserRow
<1>7. DbTypeOK'
  BY <1>2, <1>4, <1>6 DEF IInv, TypeOK, DbTypeOK
<1>8. BotTypeOK'
  <2>1. bot' \in BotMsg
    BY <1>0, <1>2 DEF BotMsg
  <2>2. bot.uid \in 1..Len(opened) /\ opened[bot.uid] \in Opened
    BY <1>0, ElementOfSeq
  <2>3. [opened[bot.uid] EXCEPT !.datedAt = now] \in Opened
    BY <1>0, <2>2
  <2>4. opened' = [opened EXCEPT ![bot.uid] = [opened[bot.uid] EXCEPT !.datedAt = now]]
    BY <1>2
  <2>5. opened' \in Seq(Opened) /\ Len(opened') = Len(opened)
    BY <1>0, <2>2, <2>3, <2>4, ExceptSeq
  <2> QED BY <1>0, <1>2, <2>1, <2>5 DEF IInv, TypeOK, BotTypeOK
<1>9. UniqueAccounts' /\ GoneIsLogged'
  BY <1>2, <1>4, <1>6 DEF IInv, UniqueAccounts, GoneIsLogged
<1>10. AuthUnredeemed' /\ UniqueOrders' /\ FeedTypeOK' /\ FeedInv'
  BY <1>2, FeedStays DEF IInv, AuthUnredeemed, UniqueOrders
<1>11. BotInv'
  BY <1>0, <1>2 DEF IInv, BotInv, BotMsg
<1>12. NewAccountStable'
  <2>1. nextUid - 1 \in 1..Len(opened) /\ DOMAIN opened = 1..Len(opened)
    BY <1>0, LenProperties
  <2>2. CASE bot.uid = nextUid - 1
    <3>1. opened'[nextUid - 1].datedAt = now /\ now # Null
      BY <1>0, <1>2, <2>1, <2>2, ElementOfSeq, DbAssumption
    <3> QED BY <1>2, <3>1 DEF NewAccountStable
  <2>3. CASE bot.uid # nextUid - 1
    <3>1. opened'[nextUid - 1] = opened[nextUid - 1]
      BY <1>2, <2>1, <2>3
    <3>2. bot'.uname = bot.uname
      BY <1>0, <1>2 DEF BotMsg
    <3> QED BY <1>0, <1>2, <1>4, <2>3, <3>1, <3>2 DEF IInv, NewAccountStable
  <2> QED BY <2>2, <2>3
<1>13. SweepTypeOK' /\ SweepInv'
  BY <1>2, <1>4, <1>6 DEF IInv, TypeOK, SweepTypeOK, SweepInv
<1> QED BY <1>2, <1>7, <1>8, <1>9, <1>10, <1>11, <1>12, <1>13 DEF IInv, TypeOK, procVars

LEMMA RegRedeemInv == ASSUME IInv, BotActs(RegRedeem) PROVE IInv'
<1> DEFINE Opened == [order : OrderIds \cup {Empty}, datedAt : Int \cup {Null}, redeemed : BOOLEAN]
<1>0. /\ bot \in BotMsg /\ orders \in Seq(OrderRow)
      /\ opened \in Seq(Opened) /\ Len(opened) = nextUid - 1
      /\ nextUid \in Nat \ {0} /\ nextUid > 1
  BY DEF IInv, TypeOK, BotTypeOK, DbTypeOK, BotInv, BotActs, RegRedeem
<1>1. /\ redeemOrder(auth, bot.uid)
      /\ bot' = BotIdle /\ auth' = Empty
      /\ opened' = [opened EXCEPT ![nextUid - 1].redeemed = TRUE]
      /\ UNCHANGED <<users, nextUid, sublog, now, authed>>
      /\ UNCHANGED <<sweep, feedVars, procVars>>
  BY DEF BotActs, RegRedeem
<1>2. /\ orders' \in Seq(OrderRow)
      /\ DOMAIN orders' = DOMAIN orders
      /\ \A i \in DOMAIN orders : orders'[i].orderid = orders[i].orderid
  <2>1. bot.uid \in Int
    BY <1>0 DEF BotMsg
  <2>2. \A i \in DOMAIN orders : orders[i] \in OrderRow
    BY <1>0, LenProperties, ElementOfSeq
  <2> QED BY <1>0, <1>1, <2>1, <2>2, Redeemed DEF OrderRow
<1>3. DbTypeOK' /\ UniqueAccounts' /\ GoneIsLogged'
  BY <1>1, <1>2 DEF IInv, TypeOK, DbTypeOK, UniqueAccounts, GoneIsLogged
<1>4. UniqueOrders' /\ FeedTypeOK' /\ FeedInv'
  BY <1>1, <1>2 DEF IInv, TypeOK, UniqueOrders, FeedTypeOK, FeedMsg, FeedInv, feedVars,
                    doesOrderExist, RowsOf
<1>5. BotTypeOK'
  <2>0. nextUid - 1 \in 1..Len(opened)
    BY <1>0
  <2>1. nextUid - 1 \in 1..Len(opened) /\ opened[nextUid - 1] \in Opened
    <3> HIDE DEF Opened
    <3> QED BY <1>0, <2>0, ElementOfSeq
  <2>2. [opened[nextUid - 1] EXCEPT !.redeemed = TRUE] \in Opened
    BY <2>1
  <2>3. opened' = [opened EXCEPT ![nextUid - 1] = [opened[nextUid - 1] EXCEPT !.redeemed = TRUE]]
    BY <1>1
  <2>4. opened' \in Seq(Opened) /\ Len(opened') = Len(opened)
    BY <1>0, <2>1, <2>2, <2>3, ExceptSeq
  <2> QED BY <1>0, <1>1, <2>4 DEF IInv, TypeOK, BotTypeOK, BotMsg, BotIdle
<1>6. AuthUnredeemed' /\ BotInv' /\ NewAccountStable'
  BY <1>1 DEF AuthUnredeemed, BotInv, NewAccountStable, BotIdle
<1>7. SweepTypeOK' /\ SweepInv'
  BY <1>1, SweepStays
<1> QED BY <1>1, <1>3, <1>4, <1>5, <1>6, <1>7 DEF IInv, TypeOK, procVars

(* What the checker's and the feed's steps leave alone. *)
LEMMA BotQuiet ==
  ASSUME IInv, UNCHANGED botVars, UNCHANGED <<users, nextUid>>
  PROVE  /\ BotTypeOK' /\ UniqueAccounts' /\ NewAccountStable'
         /\ \A n : doesUsernameExist(n)' <=> doesUsernameExist(n)
         /\ \A d : doesDuidExist(d)' <=> doesDuidExist(d)
BY BotStays DEF IInv, botVars, UniqueAccounts, NewAccountStable, doesUsernameExist,
                UidsNamed, doesDuidExist

(* The steps of the checker that only read the tables. *)
LEMMA SweepReads ==
  ASSUME IInv, UNCHANGED dbVars, UNCHANGED <<botVars, feedVars, procVars>>,
         SweepTypeOK', SweepInv'
  PROVE  IInv'
<1>1. UNCHANGED <<users, nextUid, orders>>
  BY DEF dbVars
<1>2. FeedTypeOK' /\ FeedInv' /\ BotTypeOK' /\ UniqueAccounts' /\ NewAccountStable'
  BY <1>1, FeedStays, BotQuiet
<1>3. BotInv' /\ AuthUnredeemed'
  BY <1>1, TablesStay, BotQuiet DEF IInv, BotInv, AuthUnredeemed, botVars
<1> QED BY <1>2, <1>3, TablesStay DEF IInv, TypeOK, procVars

LEMMA SweepReadsInv ==
  ASSUME IInv,
         \/ SweepActs(SweepWake) \/ SweepActs(ExpiredGetOrder) \/ SweepActs(SweepDone)
         \/ \E u \in sweep.todo : SweepActs(SweepExpired(u)) \/ SweepActs(SweepSkip(u))
  PROVE  IInv'
<1> DEFINE Pass == [pc : {"asleep", "getSubEndDate", "getOrderuid", "log", "delete"},
                    todo : SUBSET Nat, uid : Nat, order : OrderIds \cup {Null}]
<1>0. sweep \in Pass /\ DOMAIN users \subseteq Nat /\ orders \in Seq(OrderRow)
  BY DEF IInv, TypeOK, DbTypeOK, SweepTypeOK
<1>1. CASE SweepActs(SweepWake)
  <2>1. sweep' = [pc |-> "getSubEndDate", todo |-> DOMAIN users, uid |-> 0, order |-> Null]
    BY <1>1 DEF SweepActs, SweepWake, SweepAsleep
  <2>2. SweepTypeOK' /\ SweepInv'
    BY <1>0, <2>1 DEF SweepTypeOK, SweepInv
  <2> QED BY <1>1, <2>2, SweepReads DEF SweepActs, SweepWake
<1>2. CASE SweepActs(SweepDone)
  <2>1. SweepTypeOK' /\ SweepInv'
    BY <1>2 DEF SweepActs, SweepDone, SweepAsleep, SweepTypeOK, SweepInv
  <2> QED BY <1>2, <2>1, SweepReads DEF SweepActs, SweepDone
<1>3. CASE SweepActs(ExpiredGetOrder)
  <2>1. /\ sweep.pc = "getOrderuid" /\ UNCHANGED dbVars
        /\ sweep' = [sweep EXCEPT !.pc = "log", !.order = getOrderuid(sweep.uid)]
    BY <1>3 DEF SweepActs, ExpiredGetOrder
  <2>2. getOrderuid(sweep.uid) \in OrderIds \cup {Null}
    BY <1>0, OrderOfUid
  <2>3. SweepTypeOK'
    BY <1>0, <2>1, <2>2 DEF SweepTypeOK
  <2>4. SweepInv'
    BY <1>0, <2>1 DEF IInv, SweepInv, dbVars
  <2> QED BY <1>3, <2>1, <2>3, <2>4, SweepReads DEF SweepActs
<1>4. ASSUME NEW u \in sweep.todo, SweepActs(SweepExpired(u)) PROVE IInv'
  <2>1. /\ UNCHANGED dbVars
        /\ sweep' = [sweep EXCEPT !.pc = "getOrderuid", !.uid = u]
        /\ u \in DOMAIN users /\ users[u].subEnd # Null
    BY <1>4 DEF SweepActs, SweepExpired, getSubEndDate
  <2>2. SweepTypeOK'
    BY <1>0, <2>1 DEF SweepTypeOK
  <2>3. SweepInv'
    BY <1>0, <2>1 DEF SweepInv, dbVars
  <2> QED BY <1>4, <2>1, <2>2, <2>3, SweepReads DEF SweepActs
<1>5. ASSUME NEW u \in sweep.todo, SweepActs(SweepSkip(u)) PROVE IInv'
  <2>1. /\ UNCHANGED dbVars
        /\ sweep.pc = "getSubEndDate"
        /\ sweep' = [sweep EXCEPT !.todo = sweep.todo \ {u}]
    BY <1>5 DEF SweepActs, SweepSkip
  <2>2. SweepTypeOK'
    BY <1>0, <2>1 DEF SweepTypeOK
  <2>3. SweepInv'
    BY <1>0, <2>1 DEF SweepInv
  <2> QED BY <1>5, <2>1, <2>2, <2>3, SweepReads DEF SweepActs
<1> QED BY <1>1, <1>2, <1>3, <1>4, <1>5

LEMMA ExpiredLogInv == ASSUME IInv, SweepActs(ExpiredLog) PROVE IInv'
<1> DEFINE row == [uid |-> sweep.uid, orderid |-> sweep.order]
<1>1. /\ sweep.pc = "log"
      /\ sublog' = Append(sublog, row)
      /\ sweep' = [sweep EXCEPT !.pc = "delete"]
      /\ UNCHANGED <<users, nextUid, orders, now>>
      /\ UNCHANGED <<botVars, feedVars, procVars>>
  BY DEF SweepActs, ExpiredLog, logSubscription
<1>2. /\ sweep.uid \in DOMAIN users /\ users[sweep.uid].subEnd # Null
      /\ sweep.uid \in Nat \ {0} /\ sweep.order \in OrderIds \cup {Null}
      /\ sublog \in Seq(SublogRow)
  BY <1>1 DEF IInv, TypeOK, DbTypeOK, SweepInv, SweepTypeOK
<1>3. /\ sublog' \in Seq(SublogRow)
      /\ DOMAIN sublog' = DOMAIN sublog \cup {Len(sublog) + 1}
      /\ \A i \in DOMAIN sublog : sublog'[i] = sublog[i]
      /\ sublog'[Len(sublog) + 1] = row
  <2>1. row \in SublogRow
    BY <1>2 DEF SublogRow
  <2> QED BY <1>1, <1>2, <2>1, Appended
<1>4. DbTypeOK' /\ UniqueOrders'
  BY <1>1, <1>3 DEF IInv, TypeOK, DbTypeOK, UniqueOrders
<1>5. GoneIsLogged'
  BY <1>1, <1>3 DEF IInv, GoneIsLogged
<1>6. SweepTypeOK'
  BY <1>1 DEF IInv, TypeOK, SweepTypeOK
<1>7. SweepInv'
  BY <1>1, <1>2, <1>3 DEF IInv, TypeOK, SweepTypeOK, SweepInv
<1>8. BotTypeOK' /\ UniqueAccounts' /\ NewAccountStable' /\ FeedTypeOK' /\ FeedInv'
  BY <1>1, BotQuiet, FeedStays
<1>9. BotInv' /\ AuthUnredeemed'
  BY <1>1, BotQuiet DEF IInv, BotInv, AuthUnredeemed, botVars, doesOrderExist, RowsOf
<1> QED BY <1>1, <1>4, <1>5, <1>6, <1>7, <1>8, <1>9 DEF IInv, TypeOK, procVars

LEMMA ExpiredDeleteInv == ASSUME IInv, SweepActs(ExpiredDelete) PROVE IInv'
<1>1. /\ sweep.pc = "delete"
      /\ users' = [u \in DOMAIN users \ {sweep.uid} |-> users[u]]
      /\ sweep'.pc = "getSubEndDate"
      /\ sweep' = [pc |-> "getSubEndDate", todo |-> sweep.todo \ {sweep.uid},
                   uid |-> 0, order |-> Null]
      /\ UNCHANGED <<nextUid, orders, sublog, now>>
      /\ UNCHANGED <<botVars, feedVars, procVars>>
  BY DEF SweepActs, ExpiredDelete, deleteUser, SweepAsleep
<1>2. /\ users[sweep.uid].subEnd # Null
      /\ \E i \in DOMAIN sublog : sublog[i].uid = sweep.uid
  BY <1>1 DEF IInv, SweepInv
<1>3. /\ DOMAIN users' = DOMAIN users \ {sweep.uid}
      /\ \A u \in DOMAIN users' : users'[u] = users[u]
  BY <1>1
<1>4. DbTypeOK' /\ UniqueOrders' /\ UniqueAccounts'
  BY <1>1, <1>3 DEF IInv, TypeOK, DbTypeOK, UniqueOrders, UniqueAccounts
<1>5. GoneIsLogged'
  BY <1>1, <1>2, <1>3 DEF IInv, GoneIsLogged
<1>6. SweepTypeOK' /\ SweepInv'
  BY <1>1 DEF IInv, TypeOK, SweepTypeOK, SweepInv
<1>7. BotTypeOK' /\ FeedTypeOK' /\ FeedInv'
  BY <1>1, BotStays, FeedStays
<1>8. AuthUnredeemed'
  BY <1>1 DEF IInv, AuthUnredeemed, botVars
<1>9. BotInv'
  BY <1>1, <1>3 DEF IInv, BotInv, botVars, doesOrderExist, RowsOf, doesUsernameExist,
                    UidsNamed, doesDuidExist
<1>10. NewAccountStable'
  BY <1>1, <1>2, <1>3 DEF IInv, NewAccountStable, botVars
<1> QED BY <1>1, <1>4, <1>5, <1>6, <1>7, <1>8, <1>9, <1>10 DEF IInv, TypeOK, procVars

(* The steps of the feed that leave the tables alone. *)
LEMMA FeedReads ==
  ASSUME IInv, UNCHANGED dbVars, UNCHANGED <<botVars, sweep, procVars>>,
         FeedTypeOK', FeedInv'
  PROVE  IInv'
<1>1. UNCHANGED <<users, nextUid, orders, sublog>>
  BY DEF dbVars
<1>2. SweepTypeOK' /\ SweepInv' /\ BotTypeOK' /\ UniqueAccounts' /\ NewAccountStable'
  BY <1>1, SweepStays, BotQuiet
<1>3. BotInv' /\ AuthUnredeemed'
  BY <1>1, TablesStay, BotQuiet DEF IInv, BotInv, AuthUnredeemed, botVars
<1> QED BY <1>2, <1>3, TablesStay DEF IInv, TypeOK, procVars

LEMMA FeedReadsInv ==
  ASSUME IInv,
         \/ FeedActs(FeedAccept) \/ FeedActs(FeedReturn)
         \/ \E o \in OrderIds, lvl \in Levels, paid \in BOOLEAN : FeedActs(FeedRecv(o, lvl, paid))
  PROVE  IInv'
<1>0. FeedTypeOK
  BY DEF IInv, TypeOK
<1>1. CASE FeedActs(FeedAccept)
  <2>1. FeedTypeOK' /\ FeedInv'
    BY <1>0, <1>1 DEF FeedActs, FeedAccept, FeedTypeOK, FeedInv
  <2> QED BY <1>1, <2>1, FeedReads DEF FeedActs, FeedAccept
<1>2. CASE FeedActs(FeedReturn)
  <2>1. FeedTypeOK'
    <3>1. NoMsg \in FeedMsg
      BY DEF NoMsg, FeedMsg
    <3> QED BY <1>0, <1>2, <3>1 DEF FeedActs, FeedReturn, FeedTypeOK, FeedStart
  <2>2. FeedInv'
    BY <1>0, <1>2 DEF FeedActs, FeedReturn, FeedTypeOK, FeedStart, FeedInv
  <2> QED BY <1>2, <2>1, <2>2, FeedReads DEF FeedActs, FeedReturn
<1>3. ASSUME NEW o \in OrderIds, NEW lvl \in Levels, NEW paid \in BOOLEAN,
             FeedActs(FeedRecv(o, lvl, paid))
      PROVE  IInv'
  <2> DEFINE msg == [orderid |-> o, level |-> lvl, paid |-> paid]
  <2>1. /\ feed.pc = "recv"
        /\ reportedPaid' \subseteq reportedPaid \cup {o}
        /\ UNCHANGED dbVars /\ UNCHANGED <<botVars, sweep, procVars>>
    BY <1>3 DEF FeedActs, FeedRecv
  <2>2. CASE doesOrderExist(o)
    <3>1. UNCHANGED feed
      BY <1>3, <2>2 DEF FeedActs, FeedRecv
    <3>2. FeedTypeOK' /\ FeedInv'
      BY <1>0, <2>1, <3>1 DEF FeedTypeOK, FeedInv
    <3> QED BY <2>1, <3>2, FeedReads
  <2>3. CASE ~doesOrderExist(o)
    <3>1. feed' = [feed EXCEPT !.pc = "addOrder", !.msg = msg]
      BY <1>3, <2>3 DEF FeedActs, FeedRecv
    <3>2. msg \in FeedMsg
      BY DEF FeedMsg
    <3>3. FeedTypeOK'
      BY <1>0, <2>1, <3>1, <3>2 DEF FeedTypeOK
    <3>4. feed'.msg = msg /\ ~doesOrderExist(o)'
      BY <1>0, <2>1, <2>3, <3>1, TablesStay DEF FeedTypeOK
    <3>5. FeedInv'
      BY <3>4 DEF FeedInv, doesOrderExist, RowsOf
    <3> QED BY <2>1, <3>3, <3>5, FeedReads
  <2> QED BY <2>2, <2>3
<1> QED BY <1>1, <1>2, <1>3

LEMMA FeedAddOrderInv == ASSUME IInv, FeedActs(FeedAddOrder) PROVE IInv'
<1> DEFINE row == [orderid |-> feed.msg.orderid, level |-> feed.msg.level,
                   paid |-> feed.msg.paid, uid |-> 0]
<1>1. /\ feed.pc = "addOrder"
      /\ orders' = Append(orders, row)
      /\ feed' = [feed EXCEPT !.pc = "recv", !.msg = NoMsg]
      /\ UNCHANGED <<users, nextUid, sublog, now, reportedPaid>>
      /\ UNCHANGED <<botVars, sweep, procVars>>
  BY DEF FeedActs, FeedAddOrder, addOrder
<1>2. /\ feed.msg.orderid \in OrderIds /\ feed.msg.level \in Levels
      /\ feed.msg.paid \in BOOLEAN
      /\ \A i \in DOMAIN orders : orders[i].orderid # feed.msg.orderid
      /\ orders \in Seq(OrderRow)
  BY <1>1 DEF IInv, TypeOK, DbTypeOK, FeedTypeOK, FeedMsg, FeedInv, doesOrderExist, RowsOf
<1>3. /\ orders' \in Seq(OrderRow)
      /\ DOMAIN orders' = DOMAIN orders \cup {Len(orders) + 1}
      /\ \A i \in DOMAIN orders : orders'[i] = orders[i]
      /\ orders'[Len(orders) + 1] = row
  <2>1. row \in OrderRow
    BY <1>2 DEF OrderRow
  <2> QED BY <1>1, <1>2, <2>1, Appended
<1>4. DbTypeOK' /\ GoneIsLogged'
  BY <1>1, <1>3 DEF IInv, TypeOK, DbTypeOK, GoneIsLogged
<1>5. UniqueOrders'
  BY <1>2, <1>3 DEF IInv, UniqueOrders
<1>6. FeedTypeOK' /\ FeedInv'
  BY <1>1 DEF IInv, TypeOK, FeedTypeOK, FeedMsg, FeedInv, NoMsg
<1>7. SweepTypeOK' /\ SweepInv' /\ BotTypeOK' /\ UniqueAccounts' /\ NewAccountStable'
  BY <1>1, SweepStays, BotQuiet
<1>8. AuthUnredeemed'
  BY <1>1, <1>3 DEF IInv, AuthUnredeemed, botVars
<1>9. BotInv'
  BY <1>1, <1>3, BotQuiet DEF IInv, BotInv, botVars, doesOrderExist, RowsOf
<1> QED BY <1>1, <1>4, <1>5, <1>6, <1>7, <1>8, <1>9 DEF IInv, TypeOK, procVars

LEMMA ExitInv == ASSUME IInv, NEW cause \in Causes, Exit(cause) PROVE IInv'
<1>1. /\ auth' = Empty /\ bot' = BotIdle /\ sweep' = SweepAsleep /\ feed' = FeedStart
      /\ up' = FALSE /\ paused' = {} /\ fault' = cause
      /\ UNCHANGED <<dbVars, authed, opened, reportedPaid, restarts>>
  BY DEF Exit
<1>2. BotTypeOK'
  BY <1>1 DEF IInv, TypeOK, BotTypeOK, BotMsg, BotIdle, dbVars
<1>3. SweepTypeOK' /\ SweepInv'
  BY <1>1 DEF SweepTypeOK, SweepInv, SweepAsleep
<1>4. FeedTypeOK' /\ FeedInv'
  BY <1>1 DEF IInv, TypeOK, FeedTypeOK, FeedInv, FeedMsg, FeedStart, NoMsg
<1>5. AuthUnredeemed' /\ BotInv' /\ NewAccountStable'
  BY <1>1 DEF AuthUnredeemed, BotInv, NewAccountStable, BotIdle
<1> QED BY <1>1, <1>2, <1>3, <1>4, <1>5, TablesStay DEF IInv, TypeOK

(* Steps of the process that keep every thread where it is.                 *)
LEMMA ThreadsStay ==
  ASSUME IInv, UNCHANGED <<users, nextUid, orders, sublog, botVars, sweep, feedVars>>,
         now' \in Nat, up' \in BOOLEAN, paused' \subseteq Threads,
         restarts' \in Nat, fault' \in Causes
  PROVE  IInv'
<1>1. DbTypeOK' /\ UniqueOrders' /\ GoneIsLogged'
  BY DEF IInv, TypeOK, DbTypeOK, UniqueOrders, GoneIsLogged
<1>2. SweepTypeOK' /\ SweepInv' /\ FeedTypeOK' /\ FeedInv'
  BY SweepStays, FeedStays
<1>3. BotTypeOK' /\ UniqueAccounts' /\ NewAccountStable'
  BY BotQuiet
<1>4. BotInv' /\ AuthUnredeemed'
  BY BotQuiet DEF IInv, BotInv, AuthUnredeemed, botVars, doesOrderExist, RowsOf
<1> QED BY <1>1, <1>2, <1>3, <1>4 DEF IInv, TypeOK

LEMMA ProcessInv ==
  ASSUME IInv,
         \/ \E t \in MayThrow : SqlThrows(t)
         \/ KeyPressed \/ BotFault \/ BotMalformed \/ SweepFault \/ FeedClosed \/ FeedFault
         \/ Restart \/ TimePasses
  PROVE  IInv'
<1>1. up \in BOOLEAN /\ paused \subseteq Threads /\ restarts \in Nat /\ fault \in Causes /\ now \in Nat
  BY DEF IInv, TypeOK, DbTypeOK
<1>2. ASSUME NEW t \in MayThrow, SqlThrows(t) PROVE IInv'
  <2>1. t \in Threads
    BY ServerAssumption DEF ServerAssumption
  <2>2. paused' = paused \cup {t} /\ UNCHANGED <<dbVars, botVars, sweep, feedVars, up, restarts, fault>>
    BY <1>2 DEF SqlThrows
  <2> QED BY <1>1, <2>1, <2>2, ThreadsStay DEF dbVars
<1>3. CASE KeyPressed \/ BotFault \/ BotMalformed \/ SweepFault \/ FeedClosed \/ FeedFault
  BY <1>3, ExitInv DEF KeyPressed, BotFault, BotMalformed, SweepFault, FeedClosed, FeedFault, Causes
<1>4. CASE Restart
  <2>1. up' = TRUE /\ restarts' = restarts + 1 /\ UNCHANGED <<dbVars, botVars, sweep, feedVars, paused, fault>>
    BY <1>4 DEF Restart
  <2> QED BY <1>1, <2>1, ThreadsStay DEF dbVars
<1>5. CASE TimePasses
  <2>1. /\ now' = now + 1 /\ UNCHANGED <<users, nextUid, orders, sublog>>
        /\ UNCHANGED <<botVars, sweep, feedVars, procVars>>
    BY <1>5 DEF TimePasses, Tick
  <2> QED BY <1>1, <2>1, ThreadsStay DEF procVars
<1> QED BY <1>2, <1>3, <1>4, <1>5

LEMMA StutterInv == ASSUME IInv, UNCHANGED vars PROVE IInv'
<1>1. /\ UNCHANGED <<users, nextUid, orders, sublog, botVars, sweep, feedVars>>
      /\ UNCHANGED <<now, up, paused, restarts, fault>>
  BY DEF vars, dbVars, procVars
<1>2. up \in BOOLEAN /\ paused \subseteq Threads /\ restarts \in Nat /\ fault \in Causes /\ now \in Nat
  BY DEF IInv, TypeOK, DbTypeOK
<1> QED BY <1>1, <1>2, ThreadsStay

(* Every step keeps the invariant. *)
LEMMA NextInv == IInv /\ [Next]_vars => IInv'
<1> SUFFICES ASSUME IInv, [Next]_vars PROVE IInv'
  OBVIOUS
<1>1. CASE BotActs(BotMessage)
  <2>1. \/ \E d \in DiscordUsers, o \in OrderIds : BotActs(Auth(d, o))
        \/ \E d \in DiscordUsers, n \in Usernames : BotActs(Reg(d, n))
        \/ BotActs(RegRefused)
    BY <1>1 DEF BotActs, BotMessage
  <2> QED BY <2>1, AuthInv, RegInv, RegRefusedInv
<1>2. CASE BotActs(BotStep)
  <2>1. \/ BotActs(AuthCheckRedeemed) \/ BotActs(RegCheckUsername) \/ BotActs(RegCheckDuid)
        \/ BotActs(RegAddUser) \/ BotActs(GetUidExists) \/ BotActs(GetUidSelect)
        \/ BotActs(RegPaid) \/ BotActs(WarnUnpaid) \/ BotActs(RegSetSubDate)
        \/ BotActs(RegRedeem)
    BY <1>2 DEF BotActs, BotStep, RegStep
  <2> QED BY <2>1, AuthCheckInv, RegCheckUsernameInv, RegCheckDuidInv, RegAddUserInv,
             GetUidExistsInv, GetUidSelectInv, RegPaidInv, RegSetSubDateInv, RegRedeemInv
<1>3. CASE SweepActs(SweepWake) \/ SweepActs(SweepStep)
  <2>1. \/ SweepActs(SweepWake) \/ SweepActs(ExpiredGetOrder) \/ SweepActs(SweepDone)
        \/ \E u \in sweep.todo : SweepActs(SweepExpired(u)) \/ SweepActs(SweepSkip(u))
        \/ SweepActs(ExpiredLog) \/ SweepActs(ExpiredDelete)
    BY <1>3 DEF SweepActs, SweepStep
  <2> QED BY <2>1, SweepReadsInv, ExpiredLogInv, ExpiredDeleteInv
<1>4. CASE FeedActs(FeedAccept) \/ FeedActs(FeedMessage) \/ FeedActs(FeedAddOrder)
           \/ FeedActs(FeedReturn)
  <2>1. \/ FeedActs(FeedAccept) \/ FeedActs(FeedReturn) \/ FeedActs(FeedAddOrder)
        \/ \E o \in OrderIds, lvl \in Levels, paid \in BOOLEAN : FeedActs(FeedRecv(o, lvl, paid))
    BY <1>4 DEF FeedActs, FeedMessage
  <2> QED BY <2>1, FeedReadsInv, FeedAddOrderInv
<1>5. CASE \/ \E t \in MayThrow : SqlThrows(t)
           \/ KeyPressed \/ BotFault \/ BotMalformed \/ SweepFault \/ FeedClosed \/ FeedFault
           \/ Restart \/ TimePasses
  BY <1>5, ProcessInv
<1>6. CASE UNCHANGED vars
  BY <1>6, StutterInv
<1> QED BY <1>1, <1>2, <1>3, <1>4, <1>5, <1>6 DEF Next

-----------------------------------------------------------------------------
(* The theorems *)

(* In every reachable state the tables, the threads and what they hold fit  *)
(* together as IInv says.                                                  *)
THEOREM Invariance == Spec => []IInv
<1> QED BY InitInv, NextInv, PTL DEF Spec

(* Every variable keeps its type. *)
THEOREM TypeCorrect == Spec => []TypeOK
<1>1. IInv => TypeOK
  BY DEF IInv
<1> QED BY <1>1, Invariance, PTL

(* The feed never enters an order twice. *)
THEOREM OrdersAreUnique == Spec => []UniqueOrders
<1>1. IInv => UniqueOrders
  BY DEF IInv
<1> QED BY <1>1, Invariance, PTL

(* No two accounts share a name or a Discord id. *)
THEOREM AccountsAreUnique == Spec => []UniqueAccounts
<1>1. IInv => UniqueAccounts
  BY DEF IInv
<1> QED BY <1>1, Invariance, PTL

(* The order held for the next .reg stays listed and unredeemed. *)
THEOREM AuthorisationHolds == Spec => []AuthUnredeemed
<1>1. IInv => AuthUnredeemed
  BY DEF IInv
<1> QED BY <1>1, Invariance, PTL

(* No sweep removes the account that .reg is working on before it is dated. *)
THEOREM NewAccountsStay == Spec => []NewAccountStable
<1>1. IInv => NewAccountStable
  BY DEF IInv
<1> QED BY <1>1, Invariance, PTL

(* Whatever exits and restarts happen, an account that is gone was logged.  *)
THEOREM GoneAccountsAreLogged == Spec => []GoneIsLogged
<1>1. IInv => GoneIsLogged
  BY DEF IInv
<1> QED BY <1>1, Invariance, PTL

-----------------------------------------------------------------------------
(* Server implements AccountLifecycle *)

(* The tables as AccountLifecycle sees them. *)
Listed == {orders[i].orderid : i \in DOMAIN orders}
Spent == {orders[i].orderid : i \in {j \in DOMAIN orders : orders[j].uid # 0}}
Sold == [u \in DOMAIN opened |-> opened[u].order]
Archived == {sublog[i].uid : i \in DOMAIN sublog}

abstractVars == <<Listed, Spent, Sold, DOMAIN users, Archived>>

(* A redeemed order keeps its uid in this step. *)
KeepsUids == \A i \in DOMAIN orders : orders[i].uid # 0 =>
  i \in DOMAIN orders' /\ orders'[i].uid = orders[i].uid

(* What has to be shown of a step. *)
Simulates == KeepsUids /\ (Lifecycle!Next \/ UNCHANGED abstractVars)

-----------------------------------------------------------------------------
(* The steps of AccountLifecycle, in terms of what it sees. *)
LEMMA IsList ==
  ASSUME NEW o \in OrderIds, o \notin Listed, Listed' = Listed \cup {o},
         UNCHANGED <<Spent, Sold, DOMAIN users, Archived>>
  PROVE  Lifecycle!Next
<1>1. Lifecycle!List(o)
  BY DEF Lifecycle!List, Listed, Spent, Sold, Archived
<1> QED BY <1>1 DEF Lifecycle!Next

LEMMA IsOpen ==
  ASSUME NEW o \in OrderIds, o \in Listed \ Spent, Sold' = Append(Sold, o),
         DOMAIN users' = DOMAIN users \cup {Len(Sold) + 1},
         UNCHANGED <<Listed, Spent, Archived>>
  PROVE  Lifecycle!Next
<1>1. Lifecycle!Open(o)
  BY DEF Lifecycle!Open, Listed, Spent, Sold, Archived
<1> QED BY <1>1 DEF Lifecycle!Next

LEMMA IsSpend ==
  ASSUME NEW o \in OrderIds, o \in Listed \ Spent, Spent' = Spent \cup {o},
         UNCHANGED <<Listed, Sold, DOMAIN users, Archived>>
  PROVE  Lifecycle!Next
<1>1. Lifecycle!Spend(o)
  BY DEF Lifecycle!Spend, Listed, Spent, Sold, Archived
<1> QED BY <1>1 DEF Lifecycle!Next

LEMMA IsArchive ==
  ASSUME NEW u \in DOMAIN users, Archived' = Archived \cup {u},
         UNCHANGED <<Listed, Spent, Sold, DOMAIN users>>
  PROVE  Lifecycle!Next
<1>1. Lifecycle!Archive(u)
  BY DEF Lifecycle!Archive, Listed, Spent, Sold, Archived
<1> QED BY <1>1 DEF Lifecycle!Next

LEMMA IsClose ==
  ASSUME NEW u \in DOMAIN users, u \in Archived, DOMAIN users' = DOMAIN users \ {u},
         UNCHANGED <<Listed, Spent, Sold, Archived>>
  PROVE  Lifecycle!Next
<1>1. Lifecycle!Close(u)
  BY DEF Lifecycle!Close, Listed, Spent, Sold, Archived
<1> QED BY <1>1 DEF Lifecycle!Next

-----------------------------------------------------------------------------
(* Steps that touch no table and open no account. *)
LEMMA QuietStep ==
  ASSUME IInv, UNCHANGED <<users, orders, sublog, opened>>
  PROVE  Simulates
<1>1. KeepsUids
  BY DEF KeepsUids
<1>2. UNCHANGED abstractVars
  BY DEF abstractVars, Listed, Spent, Sold, Archived
<1> QED BY <1>1, <1>2 DEF Simulates

(* FeedAddOrder lists an order that was not listed.                         *)
LEMMA AddOrderLists == ASSUME IInv, FeedActs(FeedAddOrder) PROVE Simulates
<1> DEFINE o == feed.msg.orderid
           row == [orderid |-> o, level |-> feed.msg.level, paid |-> feed.msg.paid, uid |-> 0]
<1>1. /\ feed.pc = "addOrder"
      /\ orders' = Append(orders, row)
      /\ UNCHANGED <<users, sublog, opened>>
  BY DEF FeedActs, FeedAddOrder, addOrder, botVars
<1>2. /\ o \in OrderIds /\ feed.msg.level \in Levels /\ feed.msg.paid \in BOOLEAN
      /\ o \notin Listed
      /\ orders \in Seq(OrderRow)
  BY <1>1 DEF IInv, TypeOK, DbTypeOK, FeedTypeOK, FeedMsg, FeedInv, doesOrderExist, RowsOf, Listed
<1>3. /\ DOMAIN orders' = DOMAIN orders \cup {Len(orders) + 1}
      /\ \A i \in DOMAIN orders : orders'[i] = orders[i]
      /\ orders'[Len(orders) + 1] = row
  <2>1. row \in OrderRow
    BY <1>2 DEF OrderRow
  <2> QED BY <1>1, <1>2, <2>1, Appended
<1>4. Listed' = Listed \cup {o}
  BY <1>3 DEF Listed
<1>5. Spent' = Spent
  BY <1>3 DEF Spent
<1>6. Sold' = Sold /\ Archived' = Archived /\ (DOMAIN users)' = DOMAIN users
  BY <1>1 DEF Sold, Archived
<1>7. KeepsUids
  BY <1>3 DEF KeepsUids
<1>8. Lifecycle!Next
  BY <1>2, <1>4, <1>5, <1>6, IsList
<1> QED BY <1>7, <1>8 DEF Simulates

(* RegAddUser opens an account against the order in auth.                   *)
LEMMA AddUserOpens == ASSUME IInv, BotActs(RegAddUser) PROVE Simulates
<1> DEFINE Opened == [order : OrderIds \cup {Empty}, datedAt : Int \cup {Null}, redeemed : BOOLEAN]
           row == [order |-> auth, datedAt |-> Null, redeemed |-> FALSE]
<1>1. /\ opened' = Append(opened, row)
      /\ DOMAIN users' = DOMAIN users \cup {nextUid}
      /\ UNCHANGED <<orders, sublog, auth>>
  BY DEF BotActs, RegAddUser, addUser
<1>2. auth # Empty
  BY DEF BotActs, RegAddUser, IInv, BotInv
<1>3. /\ auth \in OrderIds
      /\ opened \in Seq(Opened)
      /\ Len(opened) = nextUid - 1 /\ nextUid \in Nat
  BY <1>2 DEF IInv, TypeOK, BotTypeOK, DbTypeOK
<1>4. auth \in Listed \ Spent
  <2>1. PICK i \in DOMAIN orders : orders[i].orderid = auth /\ orders[i].uid = 0
    BY <1>2 DEF IInv, AuthUnredeemed
  <2> QED BY <2>1 DEF IInv, UniqueOrders, Listed, Spent
<1>5. /\ DOMAIN opened = 1..Len(opened) /\ Len(opened) \in Nat
      /\ DOMAIN opened' = 1..(Len(opened) + 1)
      /\ \A u \in DOMAIN opened : opened'[u] = opened[u]
      /\ opened'[Len(opened) + 1] = row
  <2>1. row \in Opened
    BY <1>3
  <2> HIDE DEF row, Opened
  <2> QED BY <1>1, <1>3, <2>1, Appended
<1>6. Sold \in Seq(OrderIds \cup {Empty}) /\ Len(Sold) = Len(opened)
  <2>1. \A u \in DOMAIN opened : opened[u].order \in OrderIds \cup {Empty}
    <3>1. \A u \in DOMAIN opened : opened[u] \in Opened
      BY <1>3, <1>5, ElementOfSeq
    <3> QED BY <3>1
  <2>2. Sold \in [1..Len(opened) -> OrderIds \cup {Empty}]
    BY <1>5, <2>1 DEF Sold
  <2>3. Sold \in Seq(OrderIds \cup {Empty})
    BY <1>5, <2>2, SeqDef
  <2> QED BY <1>5, <2>2, <2>3, LenProperties
<1>7. Sold' = Append(Sold, auth)
  <2>0. auth \in OrderIds \cup {Empty}
    BY <1>3
  <2>1. DOMAIN Sold' = 1..(Len(Sold) + 1) /\ Sold' = [u \in 1..(Len(Sold) + 1) |-> Sold'[u]]
    BY <1>5, <1>6 DEF Sold
  <2>2. \A u \in 1..(Len(Sold) + 1) : Sold'[u] = IF u \in 1..Len(Sold) THEN Sold[u] ELSE auth
    BY <1>5, <1>6 DEF Sold
  <2> QED BY <1>6, <2>0, <2>1, <2>2, AppendProperties
<1>8. (DOMAIN users)' = DOMAIN users \cup {Len(Sold) + 1}
  BY <1>1, <1>3, <1>6
<1>9. Listed' = Listed /\ Spent' = Spent /\ Archived' = Archived /\ KeepsUids
  BY <1>1 DEF Listed, Spent, Archived, KeepsUids
<1>10. Lifecycle!Next
  BY <1>3, <1>4, <1>7, <1>8, <1>9, IsOpen
<1> QED BY <1>9, <1>10 DEF Simulates

(* RegRedeem spends the order in auth, which is the only one of its id and  *)
(* unredeemed; with the uid 0 it would change nothing.                     *)
LEMMA RedeemSpends == ASSUME IInv, BotActs(RegRedeem) PROVE Simulates
<1> DEFINE Opened == [order : OrderIds \cup {Empty}, datedAt : Int \cup {Null}, redeemed : BOOLEAN]
<1>0. /\ bot.uid \in Int /\ orders \in Seq(OrderRow) /\ auth # Empty /\ auth \in OrderIds
  BY DEF IInv, TypeOK, BotTypeOK, BotMsg, DbTypeOK, BotInv, BotActs, RegRedeem
<1>1. redeemOrder(auth, bot.uid) /\ UNCHANGED <<users, sublog>>
  BY DEF BotActs, RegRedeem
<1>s. Sold' = Sold
  <2>1. /\ opened' = [opened EXCEPT ![nextUid - 1].redeemed = TRUE]
        /\ \A u \in DOMAIN opened : opened[u] \in Opened
    BY LenProperties, ElementOfSeq DEF BotActs, RegRedeem, IInv, TypeOK, BotTypeOK
  <2>2. /\ DOMAIN opened' = DOMAIN opened
        /\ \A u \in DOMAIN opened : opened'[u].order = opened[u].order
    BY <2>1
  <2> QED BY <2>2 DEF Sold
<1>2. /\ DOMAIN orders' = DOMAIN orders
      /\ \A i \in DOMAIN orders :
           orders'[i] = IF orders[i].orderid = auth THEN [orders[i] EXCEPT !.uid = bot.uid]
                                                    ELSE orders[i]
  BY <1>0, <1>1, Redeemed
<1>3. \A i \in DOMAIN orders : orders[i] \in OrderRow
  BY <1>0, LenProperties, ElementOfSeq
<1>4. PICK k \in DOMAIN orders : orders[k].orderid = auth /\ orders[k].uid = 0
  BY <1>0 DEF IInv, AuthUnredeemed
<1>5. \A i \in DOMAIN orders : orders[i].orderid = auth <=> i = k
  BY <1>4 DEF IInv, UniqueOrders
<1>6. /\ \A i \in DOMAIN orders : orders'[i].orderid = orders[i].orderid
      /\ \A i \in DOMAIN orders : orders'[i].uid = IF i = k THEN bot.uid ELSE orders[i].uid
  BY <1>2, <1>3, <1>5 DEF OrderRow
<1>7. KeepsUids
  BY <1>2, <1>4, <1>6 DEF KeepsUids
<1>8. /\ Listed' = Listed /\ auth \in Listed \ Spent
      /\ UNCHANGED <<Sold, DOMAIN users, Archived>>
  BY <1>s, <1>1, <1>2, <1>4, <1>5, <1>6 DEF Listed, Spent, Archived
<1>9. CASE bot.uid = 0
  <2>1. Spent' = Spent
    BY <1>2, <1>4, <1>6, <1>9 DEF Spent
  <2>2. UNCHANGED abstractVars
    BY <1>8, <2>1 DEF abstractVars
  <2> QED BY <1>7, <2>2 DEF Simulates
<1>10. CASE bot.uid # 0
  <2>1. Spent' = Spent \cup {auth}
    BY <1>2, <1>4, <1>6, <1>10 DEF Spent
  <2>2. Lifecycle!Next
    BY <1>0, <1>8, <2>1, IsSpend
  <2> QED BY <1>7, <2>2 DEF Simulates
<1> QED BY <1>9, <1>10

(* ExpiredLog archives the account.                                        *)
LEMMA LogArchives == ASSUME IInv, SweepActs(ExpiredLog) PROVE Simulates
<1> DEFINE row == [uid |-> sweep.uid, orderid |-> sweep.order]
<1>1. /\ sweep.pc = "log"
      /\ sublog' = Append(sublog, row)
      /\ UNCHANGED <<users, orders, opened>>
  BY DEF SweepActs, ExpiredLog, logSubscription, botVars
<1>2. /\ sweep.uid \in DOMAIN users /\ sweep.uid \in Nat \ {0}
      /\ sweep.order \in OrderIds \cup {Null} /\ sublog \in Seq(SublogRow)
  BY <1>1 DEF IInv, TypeOK, DbTypeOK, SweepTypeOK, SweepInv
<1>3. /\ DOMAIN sublog' = DOMAIN sublog \cup {Len(sublog) + 1}
      /\ \A i \in DOMAIN sublog : sublog'[i] = sublog[i]
      /\ sublog'[Len(sublog) + 1] = row
  <2>1. row \in SublogRow
    BY <1>2 DEF SublogRow
  <2> QED BY <1>1, <1>2, <2>1, Appended
<1>4. Archived' = Archived \cup {sweep.uid}
  BY <1>3 DEF Archived
<1>5. UNCHANGED <<Listed, Spent, Sold, DOMAIN users>> /\ KeepsUids
  BY <1>1 DEF Listed, Spent, Sold, KeepsUids
<1>6. Lifecycle!Next
  BY <1>2, <1>4, <1>5, IsArchive
<1> QED BY <1>5, <1>6 DEF Simulates

(* ExpiredDelete closes an archived account.                               *)
LEMMA DeleteCloses == ASSUME IInv, SweepActs(ExpiredDelete) PROVE Simulates
<1>1. /\ sweep.pc = "delete"
      /\ DOMAIN users' = DOMAIN users \ {sweep.uid}
      /\ UNCHANGED <<orders, sublog, opened>>
  BY DEF SweepActs, ExpiredDelete, deleteUser, botVars
<1>2. sweep.uid \in DOMAIN users /\ sweep.uid \in Archived
  BY <1>1 DEF IInv, SweepInv, Archived
<1>3. UNCHANGED <<Listed, Spent, Sold, Archived>> /\ KeepsUids
  BY <1>1 DEF Listed, Spent, Sold, Archived, KeepsUids
<1>4. Lifecycle!Next
  BY <1>1, <1>2, <1>3, IsClose
<1> QED BY <1>3, <1>4 DEF Simulates

(* Dating an account changes nothing that is told of it here.               *)
LEMMA SetSubDateStutters == ASSUME IInv, BotActs(RegSetSubDate) PROVE Simulates
<1> DEFINE Opened == [order : OrderIds \cup {Empty}, datedAt : Int \cup {Null}, redeemed : BOOLEAN]
<1>1. /\ DOMAIN users' = DOMAIN users
      /\ opened' = [opened EXCEPT ![bot.uid].datedAt = now]
      /\ UNCHANGED <<orders, sublog>>
  BY DEF BotActs, RegSetSubDate, setSubEnd
<1>2. opened \in Seq(Opened)
  BY DEF IInv, TypeOK, BotTypeOK
<1>3. \A u \in DOMAIN opened : opened[u] \in Opened
  BY <1>2, LenProperties, ElementOfSeq
<1>4. /\ DOMAIN opened' = DOMAIN opened
      /\ \A u \in DOMAIN opened : opened'[u].order = opened[u].order
  BY <1>1, <1>3
<1>5. Sold' = Sold
  BY <1>4 DEF Sold
<1>6. UNCHANGED <<Listed, Spent, Archived, DOMAIN users>> /\ KeepsUids
  BY <1>1 DEF Listed, Spent, Archived, KeepsUids
<1> QED BY <1>5, <1>6 DEF Simulates, abstractVars

-----------------------------------------------------------------------------
(* Every step *)

LEMMA BotSimulates ==
  ASSUME IInv, BotActs(BotMessage) \/ BotActs(BotStep)
  PROVE  Simulates
<1>1. CASE BotActs(BotMessage)
  BY <1>1, QuietStep DEF BotActs, BotMessage, Auth, Reg, RegRefused, dbVars
<1>2. CASE \/ BotActs(AuthCheckRedeemed) \/ BotActs(RegCheckUsername)
           \/ BotActs(RegCheckDuid) \/ BotActs(GetUidExists)
  BY <1>2, QuietStep DEF BotActs, AuthCheckRedeemed, RegCheckUsername, RegCheckDuid,
                         GetUidExists, dbVars
<1>3. CASE BotActs(GetUidSelect) \/ BotActs(RegPaid) \/ BotActs(WarnUnpaid)
  BY <1>3, QuietStep DEF BotActs, GetUidSelect, RegPaid, WarnUnpaid, dbVars
<1>4. CASE BotActs(RegAddUser) \/ BotActs(RegSetSubDate) \/ BotActs(RegRedeem)
  BY <1>4, AddUserOpens, SetSubDateStutters, RedeemSpends
<1>5. BotActs(BotStep) =>
        \/ BotActs(AuthCheckRedeemed) \/ BotActs(RegCheckUsername)
        \/ BotActs(RegCheckDuid) \/ BotActs(GetUidExists)
        \/ BotActs(GetUidSelect) \/ BotActs(RegPaid) \/ BotActs(WarnUnpaid)
        \/ BotActs(RegAddUser) \/ BotActs(RegSetSubDate) \/ BotActs(RegRedeem)
  BY DEF BotActs, BotStep, RegStep
<1> QED BY <1>1, <1>2, <1>3, <1>4, <1>5

LEMMA SweepSimulates ==
  ASSUME IInv, SweepActs(SweepWake) \/ SweepActs(SweepStep)
  PROVE  Simulates
<1>1. CASE SweepActs(SweepWake) \/ SweepActs(SweepDone) \/ SweepActs(ExpiredGetOrder)
  BY <1>1, QuietStep DEF SweepActs, SweepWake, SweepDone, ExpiredGetOrder, dbVars, botVars
<1>2. ASSUME NEW u \in sweep.todo, SweepActs(SweepExpired(u)) \/ SweepActs(SweepSkip(u))
      PROVE  Simulates
  BY <1>2, QuietStep DEF SweepActs, SweepExpired, SweepSkip, dbVars, botVars
<1>3. SweepActs(SweepStep) =>
        \/ \E u \in sweep.todo : SweepActs(SweepExpired(u)) \/ SweepActs(SweepSkip(u))
        \/ SweepActs(ExpiredGetOrder) \/ SweepActs(ExpiredLog)
        \/ SweepActs(ExpiredDelete) \/ SweepActs(SweepDone)
  BY DEF SweepActs, SweepStep
<1> QED BY <1>1, <1>2, <1>3, LogArchives, DeleteCloses

LEMMA FeedSimulates ==
  ASSUME IInv, FeedActs(FeedAccept) \/ FeedActs(FeedMessage) \/ FeedActs(FeedAddOrder)
                 \/ FeedActs(FeedReturn)
  PROVE  Simulates
<1>1. CASE FeedActs(FeedAccept) \/ FeedActs(FeedReturn)
  BY <1>1, QuietStep DEF FeedActs, FeedAccept, FeedReturn, dbVars, botVars
<1>2. CASE FeedActs(FeedMessage)
  BY <1>2, QuietStep DEF FeedActs, FeedMessage, FeedRecv, dbVars, botVars
<1>3. CASE FeedActs(FeedAddOrder)
  BY <1>3, AddOrderLists
<1> QED BY <1>1, <1>2, <1>3

(* An exit loses memory only, a restart and the clock touch no row.         *)
LEMMA ProcessSimulates ==
  ASSUME IInv,
         \/ \E t \in MayThrow : SqlThrows(t)
         \/ KeyPressed \/ BotFault \/ BotMalformed \/ SweepFault \/ FeedClosed \/ FeedFault
         \/ Restart \/ TimePasses
  PROVE  Simulates
<1>1. ASSUME NEW cause, Exit(cause) PROVE Simulates
  BY <1>1, QuietStep DEF Exit, dbVars
<1>2. CASE KeyPressed \/ BotFault \/ BotMalformed \/ SweepFault \/ FeedClosed \/ FeedFault
  BY <1>1, <1>2 DEF KeyPressed, BotFault, BotMalformed, SweepFault, FeedClosed, FeedFault
<1>3. CASE (\E t \in MayThrow : SqlThrows(t)) \/ Restart
  BY <1>3, QuietStep DEF SqlThrows, Restart, dbVars, botVars
<1>4. CASE TimePasses
  BY <1>4, QuietStep DEF TimePasses, Tick, botVars
<1> QED BY <1>2, <1>3, <1>4

LEMMA NextSimulates == IInv /\ [Next]_vars => Simulates
<1> SUFFICES ASSUME IInv, [Next]_vars PROVE Simulates
  OBVIOUS
<1>1. CASE UNCHANGED vars
  BY <1>1, QuietStep DEF vars, dbVars, botVars
<1>2. CASE Next
  BY <1>2, BotSimulates, SweepSimulates, FeedSimulates, ProcessSimulates DEF Next
<1> QED BY <1>1, <1>2

LEMMA InitSimulates == Init => Lifecycle!Init
BY DEF Init, DbInit, BotInit, Lifecycle!Init

-----------------------------------------------------------------------------
(* The theorems *)

(* The server implements AccountLifecycle: orders are listed once and spent *)
(* at most once, accounts are opened against unspent orders under fresh     *)
(* uids and closed only when archived, exits and restarts included.         *)
THEOREM Implementation == Spec => ImplementsLifecycle
<1>1. IInv /\ [Next]_vars => [Lifecycle!Next]_(Lifecycle!vars)
  BY NextSimulates DEF Simulates, abstractVars, Listed, Spent, Sold, Archived, Lifecycle!vars
<1> QED BY <1>1, InitSimulates, Invariance, PTL
        DEF Spec, ImplementsLifecycle, Lifecycle!Spec

(* A redeemed order keeps its uid for good. *)
THEOREM OrdersAreRedeemedOnce == Spec => RedeemedOnce
<1>1. IInv /\ [Next]_vars =>
        [\A i \in DOMAIN orders : orders[i].uid # 0 =>
           i \in DOMAIN orders' /\ orders'[i].uid = orders[i].uid]_vars
  BY NextSimulates DEF Simulates, KeepsUids
<1> QED BY <1>1, Invariance, PTL DEF Spec, RedeemedOnce

-----------------------------------------------------------------------------
(* Accounts, their orders and their log entries agree: SublogOrderSound and *)
(* AccountMatchesOrder, from OrderInv on top of IInv; and a redeemed order  *)
(* opens no further account: OneRegistrationPerOrder, from RedeemedInv.     *)

(* What the tables are, in the form the leaves below use. *)
LEMMA Rows ==
  ASSUME IInv
  PROVE  /\ orders \in Seq(OrderRow)
         /\ \A i \in DOMAIN orders : orders[i] \in OrderRow /\ orders[i].uid \in Int
         /\ nextUid \in Nat \ {0}
         /\ DOMAIN users \subseteq 1..(nextUid - 1)
         /\ bot \in BotMsg
         /\ bot.then # "idle" => nextUid > 1
         /\ bot.then # "idle" <=>
              bot.pc \in {"uidExists", "uidSelect", "isOrderPaidFor", "setSubDate", "redeemOrder"}
<1>1. orders \in Seq(OrderRow)
  BY DEF IInv, TypeOK, DbTypeOK
<1>2. \A i \in DOMAIN orders : orders[i] \in OrderRow
  BY <1>1, LenProperties, ElementOfSeq
<1>3. \A i \in DOMAIN orders : orders[i].uid \in Int
  BY <1>2 DEF OrderRow
<1> QED BY <1>1, <1>2, <1>3 DEF IInv, TypeOK, DbTypeOK, BotTypeOK, BotInv

(* The row of a known order is the one getOrder answers with. *)
LEMMA TheRow ==
  ASSUME IInv, NEW o, NEW i \in RowsOf(o)
  PROVE  getOrder(o) = orders[i]
<1>1. doesOrderExist(o)
  BY DEF doesOrderExist
<1>2. PICK j \in DOMAIN orders : orders[j].orderid = o /\ getOrder(o) = orders[j]
  BY <1>1, OneRow DEF IInv, TypeOK, DbTypeOK
<1>3. i = j
  BY <1>2 DEF IInv, UniqueOrders, RowsOf
<1> QED BY <1>2, <1>3

LEMMA InitOrder == Init => OrderInv
BY DEF Init, DbInit, BotInit, SweepInit, BotIdle, SweepAsleep, OrderInv, SublogOrderSound,
       AccountMatchesOrder, LogInv, BotOrderInv

(* Tables and log entries need no second look while no table changes. *)
LEMMA TablesAgree ==
  ASSUME OrderInv, UNCHANGED <<users, nextUid, orders, sublog>>, LogInv', BotOrderInv'
  PROVE  OrderInv'
BY DEF OrderInv, SublogOrderSound, AccountMatchesOrder

LEMMA LogStays ==
  ASSUME OrderInv, UNCHANGED <<orders, sweep>>
  PROVE  LogInv'
BY DEF OrderInv, LogInv

LEMMA BotOrderStays ==
  ASSUME OrderInv, UNCHANGED <<users, nextUid, orders, bot, auth>>
  PROVE  BotOrderInv'
BY DEF OrderInv, BotOrderInv, RowsOf, UidsNamed

LEMMA BotOrderIdle == ASSUME bot' = BotIdle PROVE BotOrderInv'
BY DEF BotOrderInv, BotIdle

-----------------------------------------------------------------------------
(* The bot's steps that only read *)

LEMMA AuthStepsOrder ==
  ASSUME IInv, OrderInv,
         \/ BotActs(AuthCheckRedeemed) \/ BotActs(RegRefused)
         \/ \E d \in DiscordUsers, o \in OrderIds : BotActs(Auth(d, o))
  PROVE  OrderInv'
<1>1. UNCHANGED <<users, nextUid, orders, sublog, sweep>>
  BY DEF BotActs, AuthCheckRedeemed, RegRefused, Auth, dbVars
<1>2. CASE BotActs(AuthCheckRedeemed) \/ BotActs(RegRefused)
  BY <1>1, <1>2, BotOrderIdle, TablesAgree, LogStays
     DEF BotActs, AuthCheckRedeemed, RegRefused, Refuse
<1>3. ASSUME NEW d \in DiscordUsers, NEW o \in OrderIds, BotActs(Auth(d, o))
      PROVE  OrderInv'
  <2>1. bot'.pc = "isOrderRedeemed" /\ bot'.then = "idle"
    BY <1>3 DEF BotActs, Auth, BotIdle
  <2>2. BotOrderInv'
    BY <2>1 DEF BotOrderInv
  <2> QED BY <1>1, <2>2, TablesAgree, LogStays
<1> QED BY <1>2, <1>3

LEMMA RegOrder ==
  ASSUME IInv, OrderInv, NEW d \in DiscordUsers, NEW n \in Usernames, BotActs(Reg(d, n))
  PROVE  OrderInv'
<1>1. /\ UNCHANGED <<users, nextUid, orders, sublog, sweep, auth>>
      /\ bot' = [BotIdle EXCEPT !.pc = "doesUsernameExist", !.from = d, !.uname = n,
                                !.level = getOrder(auth).level]
      /\ auth # Empty
  BY DEF BotActs, Reg, dbVars
<1>2. bot'.pc = "doesUsernameExist" /\ bot'.then = "idle" /\ bot'.level = getOrder(auth).level
  BY <1>1 DEF BotIdle
<1>3. PICK i \in RowsOf(auth) : TRUE
  BY <1>1 DEF IInv, AuthUnredeemed, RowsOf
<1>4. orders[i].level = getOrder(auth).level
  BY <1>3, TheRow
<1>5. BotOrderInv'
  BY <1>1, <1>2, <1>4 DEF BotOrderInv, RowsOf
<1> QED BY <1>1, <1>5, TablesAgree, LogStays

LEMMA RegChecksOrder ==
  ASSUME IInv, OrderInv, BotActs(RegCheckUsername) \/ BotActs(RegCheckDuid)
  PROVE  OrderInv'
<1>1. /\ UNCHANGED <<users, nextUid, orders, sublog, sweep>>
      /\ bot.pc \in {"doesUsernameExist", "doesDuidExist"}
      /\ \/ bot' = BotIdle
         \/ /\ UNCHANGED auth
            /\ \E pc \in {"doesDuidExist", "addUser"} : bot' = [bot EXCEPT !.pc = pc]
  BY DEF BotActs, RegCheckUsername, RegCheckDuid, Goto, Refuse, dbVars
<1>2. CASE bot' = BotIdle
  BY <1>1, <1>2, BotOrderIdle, TablesAgree, LogStays
<1>3. ASSUME NEW pc \in {"doesDuidExist", "addUser"}, bot' = [bot EXCEPT !.pc = pc],
             UNCHANGED auth
      PROVE  OrderInv'
  <2>1. bot'.pc = pc /\ bot'.then = bot.then /\ bot'.level = bot.level /\ bot.then = "idle"
    BY <1>1, <1>3, Rows DEF BotMsg
  <2>2. BotOrderInv'
    BY <1>1, <1>3, <2>1 DEF OrderInv, BotOrderInv, RowsOf
  <2> QED BY <1>1, <2>2, TablesAgree, LogStays
<1> QED BY <1>1, <1>2, <1>3

(* getUid answers with the new account's uid or, if it is gone, DBINTERROR. *)
LEMMA GetUidOrder ==
  ASSUME IInv, OrderInv, BotActs(GetUidExists) \/ BotActs(GetUidSelect)
  PROVE  OrderInv'
<1> DEFINE uid == nextUid - 1
<1>1. /\ UNCHANGED <<users, nextUid, orders, sublog, sweep>>
      /\ bot.pc \in {"uidExists", "uidSelect"}
      /\ \/ bot' = BotIdle
         \/ UNCHANGED auth /\ bot' = [bot EXCEPT !.pc = "uidSelect"]
         \/ UNCHANGED auth /\ bot' = [bot EXCEPT !.pc = bot.then, !.uid = DBINTERROR]
         \/ UNCHANGED auth /\ \E u \in UidsNamed(bot.uname) :
              bot' = [bot EXCEPT !.pc = bot.then, !.uid = u]
  BY DEF BotActs, GetUidExists, GetUidSelect, Goto, Caught, dbVars
<1>2. CASE bot' = BotIdle
  BY <1>1, <1>2, BotOrderIdle, TablesAgree, LogStays
<1>3. CASE /\ UNCHANGED auth
           /\ \E pc, u : /\ bot' = [bot EXCEPT !.pc = pc, !.uid = u]
                         /\ pc \in {"setSubDate", "redeemOrder"} => u \in {uid, DBINTERROR}
                         /\ pc \in {"uidSelect", bot.then}
  <2>1. PICK pc, u : /\ bot' = [bot EXCEPT !.pc = pc, !.uid = u]
                     /\ pc \in {"setSubDate", "redeemOrder"} => u \in {uid, DBINTERROR}
                     /\ pc \in {"uidSelect", bot.then}
    BY <1>3
  <2>2. /\ bot'.pc = pc /\ bot'.uid = u /\ bot'.then = bot.then
        /\ bot'.level = bot.level /\ bot'.uname = bot.uname
    BY <2>1, Rows DEF BotMsg
  <2>3. /\ \E i \in RowsOf(auth) :
             /\ orders[i].level = bot.level
             /\ bot.then = "setSubDate" => orders[i].paid
             /\ bot.then = "redeemOrder" /\ uid \in DOMAIN users =>
                  (orders[i].paid <=> users[uid].subEnd # Null)
        /\ bot.then # "idle"
        /\ UidsNamed(bot.uname) \subseteq {uid}
        /\ \A i \in DOMAIN orders : orders[i].uid # uid
        /\ uid \in DOMAIN users => users[uid].level = bot.level
        /\ bot.then = "isOrderPaidFor" /\ uid \in DOMAIN users => users[uid].subEnd = Null
    BY <1>1, Rows DEF OrderInv, BotOrderInv
  <2>4. BotOrderInv'
    BY <1>1, <1>3, <2>1, <2>2, <2>3 DEF BotOrderInv, RowsOf, UidsNamed
  <2> QED BY <1>1, <2>4, TablesAgree, LogStays
<1>4. UidsNamed(bot.uname) \subseteq {uid}
  BY <1>1, Rows DEF OrderInv, BotOrderInv
<1>5. CASE bot' = [bot EXCEPT !.pc = "uidSelect"] /\ UNCHANGED auth
  <2>1. bot' = [bot EXCEPT !.pc = "uidSelect", !.uid = bot.uid]
    BY <1>5, Rows DEF BotMsg
  <2> QED BY <1>3, <1>5, <2>1
<1>6. CASE bot' = [bot EXCEPT !.pc = bot.then, !.uid = DBINTERROR] /\ UNCHANGED auth
  BY <1>3, <1>6
<1>7. CASE UNCHANGED auth /\ \E u \in UidsNamed(bot.uname) :
             bot' = [bot EXCEPT !.pc = bot.then, !.uid = u]
  BY <1>3, <1>4, <1>7
<1> QED BY <1>1, <1>2, <1>5, <1>6, <1>7

(* The branch on the payment. *)
LEMMA RegPaidOrder ==
  ASSUME IInv, OrderInv, BotActs(RegPaid) \/ BotActs(WarnUnpaid)
  PROVE  OrderInv'
<1> DEFINE uid == nextUid - 1
<1>1. CASE bot' = BotIdle
  <2>1. UNCHANGED <<users, nextUid, orders, sublog, sweep>>
    BY DEF BotActs, RegPaid, WarnUnpaid, dbVars
  <2> QED BY <1>1, <2>1, BotOrderIdle, TablesAgree, LogStays
<1>2. CASE UNCHANGED auth /\ \E t \in {"setSubDate", "redeemOrder"} :
             GetUidThen(t) /\ (t = "setSubDate" <=> isOrderPaidFor(auth))
  <2>1. /\ UNCHANGED <<users, nextUid, orders, sublog, sweep, auth>>
        /\ bot.pc = "isOrderPaidFor"
        /\ \E t \in {"setSubDate", "redeemOrder"} :
             /\ bot' = [bot EXCEPT !.pc = "uidExists", !.then = t]
             /\ t = "setSubDate" <=> isOrderPaidFor(auth)
    BY <1>2 DEF BotActs, RegPaid, WarnUnpaid, GetUidThen, dbVars
  <2>2. PICK t \in {"setSubDate", "redeemOrder"} :
          /\ bot' = [bot EXCEPT !.pc = "uidExists", !.then = t]
          /\ t = "setSubDate" <=> isOrderPaidFor(auth)
    BY <2>1
  <2>3. /\ bot'.pc = "uidExists" /\ bot'.then = t
        /\ bot'.level = bot.level /\ bot'.uname = bot.uname
    BY <2>2, Rows DEF BotMsg
  <2>4. bot.then = "isOrderPaidFor"
    BY <2>1 DEF OrderInv, BotOrderInv
  <2>5. /\ UidsNamed(bot.uname) \subseteq {uid}
        /\ \A i \in DOMAIN orders : orders[i].uid # uid
        /\ uid \in DOMAIN users => users[uid].level = bot.level
        /\ uid \in DOMAIN users => users[uid].subEnd = Null
    BY <2>4 DEF OrderInv, BotOrderInv
  <2>6. PICK i \in RowsOf(auth) : orders[i].level = bot.level
    BY <2>1 DEF OrderInv, BotOrderInv
  <2>7. isOrderPaidFor(auth) <=> orders[i].paid
    BY <2>6, TheRow DEF isOrderPaidFor
  <2>8. orders[i].paid \in BOOLEAN
    BY <2>6, Rows DEF RowsOf, OrderRow
  <2>9. BotOrderInv'
    BY <2>1, <2>2, <2>3, <2>5, <2>6, <2>7, <2>8 DEF BotOrderInv, RowsOf, UidsNamed
  <2> QED BY <2>1, <2>9, TablesAgree, LogStays
<1> QED BY <1>1, <1>2 DEF BotActs, RegPaid, WarnUnpaid, Caught

-----------------------------------------------------------------------------
(* The bot's steps that write *)

LEMMA RegAddUserOrder == ASSUME IInv, OrderInv, BotActs(RegAddUser) PROVE OrderInv'
<1> DEFINE row == [username |-> bot.uname, duid |-> bot.from, level |-> bot.level,
                   subEnd |-> Null]
<1>1. /\ bot.pc = "addUser" /\ nextUid' = nextUid + 1
      /\ users' = [u \in DOMAIN users \cup {nextUid} |-> IF u = nextUid THEN row ELSE users[u]]
      /\ bot' = [bot EXCEPT !.pc = "uidExists", !.then = "isOrderPaidFor"]
      /\ UNCHANGED <<orders, sublog, sweep, auth>>
  BY DEF BotActs, RegAddUser, addUser, GetUidThen
<1>2. /\ nextUid \in Nat /\ nextUid \notin DOMAIN users
      /\ nextUid' - 1 = nextUid
  BY <1>1, Rows
<1>3. /\ DOMAIN users' = DOMAIN users \cup {nextUid}
      /\ users'[nextUid] = row
      /\ \A u \in DOMAIN users : users'[u] = users[u]
  BY <1>1, <1>2
<1>4. \A i \in DOMAIN orders : orders[i].uid \in Int /\ orders[i].uid < nextUid
  BY Rows DEF OrderInv
<1>5. SublogOrderSound' /\ LogInv'
  BY <1>1 DEF OrderInv, SublogOrderSound, LogInv
<1>6. AccountMatchesOrder'
  BY <1>1, <1>2, <1>3, <1>4 DEF OrderInv, AccountMatchesOrder
<1>7. \A i \in DOMAIN orders' : orders'[i].uid < nextUid'
  BY <1>1, <1>2, <1>4
<1>8. /\ bot'.pc = "uidExists" /\ bot'.then = "isOrderPaidFor"
      /\ bot'.level = bot.level /\ bot'.uname = bot.uname
  BY <1>1, Rows DEF BotMsg
<1>9. ~doesUsernameExist(bot.uname)
  BY <1>1 DEF IInv, BotInv
<1>10. UidsNamed(bot.uname)' \subseteq {nextUid}
  BY <1>3, <1>8, <1>9 DEF UidsNamed, doesUsernameExist
<1>11. PICK i \in RowsOf(auth) : orders[i].level = bot.level
  BY <1>1 DEF OrderInv, BotOrderInv
<1>12. row.level = bot.level /\ row.subEnd = Null
  OBVIOUS
<1>13. BotOrderInv'
  <2> HIDE DEF row
  <2> QED BY <1>1, <1>2, <1>3, <1>4, <1>8, <1>10, <1>11, <1>12 DEF BotOrderInv, RowsOf
<1> QED BY <1>5, <1>6, <1>7, <1>13 DEF OrderInv

(* The account dated is the new one, and no order carries its uid yet.      *)
LEMMA RegSetSubDateOrder == ASSUME IInv, OrderInv, BotActs(RegSetSubDate) PROVE OrderInv'
<1> DEFINE uid == nextUid - 1
<1>1. /\ bot.pc = "setSubDate" /\ bot.uid \in DOMAIN users
      /\ bot' = [bot EXCEPT !.pc = "uidExists", !.then = "redeemOrder"]
      /\ UNCHANGED <<nextUid, orders, sublog, sweep, auth>>
  BY DEF BotActs, RegSetSubDate, GetUidThen
<1>2. PICK date \in SubEndDates(bot.level) : setSubEnd(bot.uid, date)
  BY DEF BotActs, RegSetSubDate
<1>3. date # Null
  <2>1. now \in Nat /\ bot.level \in Int
    BY <1>1, DbAssumption DEF DbAssumption, IInv, TypeOK, DbTypeOK, BotInv
  <2>2. date \in Int
    BY <1>2, <2>1, EndDateType
  <2> QED BY <2>2, DbAssumption DEF DbAssumption
<1>4. bot.uid = uid /\ bot.then = "setSubDate"
  BY <1>1, Rows DEF OrderInv, BotOrderInv, DBINTERROR
<1>5. /\ DOMAIN users' = DOMAIN users
      /\ \A u \in DOMAIN users : u # uid => users'[u] = users[u]
  BY <1>2, <1>4 DEF setSubEnd
<1>6. \A u \in DOMAIN users : users[u] \in UserRow
  BY DEF IInv, TypeOK, DbTypeOK
<1>7. /\ \A u \in DOMAIN users : /\ users'[u].username = users[u].username
                                /\ users'[u].level = users[u].level
      /\ users'[uid].subEnd = date
  BY <1>1, <1>2, <1>4, <1>6 DEF setSubEnd, UserRow
<1>8. /\ UidsNamed(bot.uname) \subseteq {uid}
      /\ \A i \in DOMAIN orders : orders[i].uid # uid
      /\ uid \in DOMAIN users => users[uid].level = bot.level
  BY <1>4 DEF OrderInv, BotOrderInv
<1>9. PICK i \in RowsOf(auth) : orders[i].level = bot.level /\ orders[i].paid
  BY <1>1, <1>4 DEF OrderInv, BotOrderInv
<1>10. /\ bot'.pc = "uidExists" /\ bot'.then = "redeemOrder"
       /\ bot'.level = bot.level /\ bot'.uname = bot.uname
  BY <1>1, Rows DEF BotMsg
<1>11. SublogOrderSound' /\ LogInv' /\ \A j \in DOMAIN orders' : orders'[j].uid < nextUid'
  BY <1>1 DEF OrderInv, SublogOrderSound, LogInv
<1>12. AccountMatchesOrder'
  BY <1>1, <1>5, <1>8 DEF OrderInv, AccountMatchesOrder
<1>13. UidsNamed(bot.uname)' \subseteq {uid}
  BY <1>5, <1>7, <1>8, <1>10 DEF UidsNamed
<1>14. BotOrderInv'
  BY <1>1, <1>3, <1>5, <1>7, <1>8, <1>9, <1>10, <1>13 DEF BotOrderInv, RowsOf
<1> QED BY <1>11, <1>12, <1>14 DEF OrderInv

(* The order is redeemed by the account it matches, or by DBINTERROR, which *)
(* is no account.                                                          *)
LEMMA RegRedeemOrder == ASSUME IInv, OrderInv, BotActs(RegRedeem) PROVE OrderInv'
<1> DEFINE uid == nextUid - 1
<1>1. /\ bot.pc = "redeemOrder" /\ bot' = BotIdle
      /\ redeemOrder(auth, bot.uid)
      /\ UNCHANGED <<users, nextUid, sublog, sweep>>
  BY DEF BotActs, RegRedeem
<1>2. bot.then = "redeemOrder" /\ bot.uid \in {uid, DBINTERROR} /\ bot.uid \in Int
  BY <1>1, Rows DEF OrderInv, BotOrderInv, BotMsg
<1>3. /\ DOMAIN orders' = DOMAIN orders
      /\ \A i \in DOMAIN orders :
           orders'[i] = IF orders[i].orderid = auth THEN [orders[i] EXCEPT !.uid = bot.uid]
                                                    ELSE orders[i]
  BY <1>1, <1>2, Rows, Redeemed
<1>4. /\ \A i \in DOMAIN orders : /\ orders'[i].orderid = orders[i].orderid
                                 /\ orders'[i].level = orders[i].level
                                 /\ orders'[i].paid = orders[i].paid
      /\ \A i \in DOMAIN orders : orders[i].orderid = auth => orders'[i].uid = bot.uid
      /\ \A i \in DOMAIN orders : orders[i].orderid # auth => orders'[i] = orders[i]
  BY <1>3, Rows DEF OrderRow
<1>5. \A j \in DOMAIN orders : orders[j].uid # 0 => orders'[j].uid = orders[j].uid
  BY RedeemSpends DEF Simulates, KeepsUids
<1>6. \A j \in DOMAIN sublog : sublog[j].uid # 0
  <2>1. \A j \in DOMAIN sublog : sublog[j] \in SublogRow
    BY LenProperties, ElementOfSeq DEF IInv, TypeOK, DbTypeOK
  <2> QED BY <2>1 DEF SublogRow
<1>7. SublogOrderSound'
  BY <1>1, <1>3, <1>4, <1>5, <1>6 DEF OrderInv, SublogOrderSound
<1>8. LogInv'
  <2>1. sweep.pc \in {"log", "delete"} /\ sweep.order # Null => sweep.uid # 0
    <3>1. sweep.pc \in {"log", "delete"} => sweep.uid \in DOMAIN users
      BY DEF IInv, SweepInv
    <3> QED BY <3>1, Rows
  <2> QED BY <1>1, <1>3, <1>4, <1>5, <2>1 DEF OrderInv, LogInv
<1>9. PICK k \in RowsOf(auth) :
        /\ orders[k].level = bot.level
        /\ uid \in DOMAIN users => (orders[k].paid <=> users[uid].subEnd # Null)
  BY <1>1, <1>2 DEF OrderInv, BotOrderInv
<1>10. \A i \in DOMAIN orders : orders[i].orderid = auth => i = k
  BY <1>9 DEF IInv, UniqueOrders, RowsOf
<1>11. uid \in DOMAIN users => users[uid].level = bot.level
  BY <1>2 DEF OrderInv, BotOrderInv
<1>12. DBINTERROR \notin DOMAIN users
  BY Rows DEF DBINTERROR
<1>13. AccountMatchesOrder'
  <2> SUFFICES ASSUME NEW i \in DOMAIN orders, orders'[i].uid \in DOMAIN users
               PROVE  /\ users[orders'[i].uid].level = orders'[i].level
                      /\ orders'[i].paid <=> users[orders'[i].uid].subEnd # Null
    BY <1>1, <1>3 DEF AccountMatchesOrder
  <2>1. CASE orders[i].orderid = auth
    <3>1. i = k /\ orders'[i].uid = uid
      BY <1>2, <1>4, <1>10, <1>12, <2>1
    <3> QED BY <1>4, <1>9, <1>11, <3>1
  <2>2. CASE orders[i].orderid # auth
    <3>1. orders'[i] = orders[i]
      BY <1>4, <2>2
    <3> QED BY <3>1 DEF OrderInv, AccountMatchesOrder
  <2> QED BY <2>1, <2>2
<1>14. \A i \in DOMAIN orders' : orders'[i].uid < nextUid'
  <2>1. uid < nextUid /\ DBINTERROR < nextUid
    BY Rows DEF DBINTERROR
  <2> QED BY <1>1, <1>2, <1>3, <1>4, <2>1 DEF OrderInv
<1> QED BY <1>1, <1>7, <1>8, <1>13, <1>14, BotOrderIdle DEF OrderInv

-----------------------------------------------------------------------------
(* The checker's steps *)

LEMMA SweepReadsOrder ==
  ASSUME IInv, OrderInv,
         \/ SweepActs(SweepWake) \/ SweepActs(SweepDone)
         \/ \E u \in sweep.todo : SweepActs(SweepExpired(u)) \/ SweepActs(SweepSkip(u))
  PROVE  OrderInv'
<1>1. UNCHANGED <<users, nextUid, orders, sublog, bot, auth>>
  BY DEF SweepActs, SweepWake, SweepDone, SweepExpired, SweepSkip, dbVars, botVars
<1>2. sweep'.pc \notin {"log", "delete"}
  <2>1. CASE SweepActs(SweepWake)
    <3>1. sweep' = [pc |-> "getSubEndDate", todo |-> DOMAIN users, uid |-> 0, order |-> Null]
      BY <2>1 DEF SweepActs, SweepWake, SweepAsleep
    <3> QED BY <3>1
  <2>2. CASE SweepActs(SweepDone)
    BY <2>2 DEF SweepActs, SweepDone, SweepAsleep
  <2>3. ASSUME NEW u \in sweep.todo, SweepActs(SweepExpired(u)) \/ SweepActs(SweepSkip(u))
        PROVE  sweep'.pc \notin {"log", "delete"}
    <3>1. /\ sweep.pc = "getSubEndDate"
          /\ \/ sweep' = [sweep EXCEPT !.pc = "getOrderuid", !.uid = u]
             \/ sweep' = [sweep EXCEPT !.todo = sweep.todo \ {u}]
      BY <2>3 DEF SweepActs, SweepExpired, SweepSkip
    <3> QED BY <3>1 DEF IInv, TypeOK, SweepTypeOK
  <2> QED BY <2>1, <2>2, <2>3
<1>3. LogInv'
  BY <1>2 DEF LogInv
<1> QED BY <1>1, <1>3, TablesAgree, BotOrderStays

(* getOrderuid answers with an order that carries the uid. *)
LEMMA ExpiredGetOrderOrder ==
  ASSUME IInv, OrderInv, SweepActs(ExpiredGetOrder) PROVE OrderInv'
<1>1. /\ UNCHANGED <<users, nextUid, orders, sublog, bot, auth>>
      /\ sweep' = [sweep EXCEPT !.pc = "log", !.order = getOrderuid(sweep.uid)]
  BY DEF SweepActs, ExpiredGetOrder, dbVars, botVars
<1>2. sweep'.uid = sweep.uid /\ sweep'.order = getOrderuid(sweep.uid)
  BY <1>1 DEF IInv, TypeOK, SweepTypeOK
<1> DEFINE rows == {i \in DOMAIN orders : orders[i].uid = sweep.uid}
<1>3. CASE rows = {}
  <2>1. getOrderuid(sweep.uid) = Null
    BY <1>3 DEF getOrderuid
  <2>2. LogInv'
    BY <1>2, <2>1 DEF LogInv
  <2> QED BY <1>1, <2>2, TablesAgree, BotOrderStays
<1>4. CASE rows # {}
  <2>1. rows \in SUBSET (1..Len(orders)) /\ Len(orders) \in Nat
    BY Rows, LenProperties
  <2>2. LastRow(rows) \in rows
    BY <1>4, <2>1, LastRowExists
  <2>3. getOrderuid(sweep.uid) = orders[LastRow(rows)].orderid
    BY <1>4 DEF getOrderuid
  <2>4. LogInv'
    BY <1>1, <1>2, <2>2, <2>3 DEF LogInv
  <2> QED BY <1>1, <2>4, TablesAgree, BotOrderStays
<1> QED BY <1>3, <1>4

LEMMA ExpiredLogOrder == ASSUME IInv, OrderInv, SweepActs(ExpiredLog) PROVE OrderInv'
<1> DEFINE row == [uid |-> sweep.uid, orderid |-> sweep.order]
<1>1. /\ sweep.pc = "log"
      /\ sublog' = Append(sublog, row)
      /\ sweep' = [sweep EXCEPT !.pc = "delete"]
      /\ UNCHANGED <<users, nextUid, orders, bot, auth>>
  BY DEF SweepActs, ExpiredLog, logSubscription, botVars
<1>2. row \in SublogRow /\ sublog \in Seq(SublogRow)
  <2>1. sweep.uid \in Nat \ {0} /\ sweep.order \in OrderIds \cup {Null}
    BY <1>1 DEF IInv, TypeOK, DbTypeOK, SweepTypeOK, SweepInv
  <2> QED BY <2>1 DEF SublogRow, IInv, TypeOK, DbTypeOK
<1>3. /\ DOMAIN sublog' = DOMAIN sublog \cup {Len(sublog) + 1}
      /\ \A i \in DOMAIN sublog : sublog'[i] = sublog[i]
      /\ sublog'[Len(sublog) + 1] = row
  BY <1>1, <1>2, Appended
<1>4. LogInv'
  BY <1>1 DEF OrderInv, LogInv, IInv, TypeOK, SweepTypeOK
<1>5. SublogOrderSound'
  BY <1>1, <1>3 DEF OrderInv, SublogOrderSound, LogInv
<1> QED BY <1>1, <1>4, <1>5, BotOrderStays DEF OrderInv, AccountMatchesOrder

LEMMA ExpiredDeleteOrder == ASSUME IInv, OrderInv, SweepActs(ExpiredDelete) PROVE OrderInv'
<1>1. /\ users' = [u \in DOMAIN users \ {sweep.uid} |-> users[u]]
      /\ sweep'.pc = "getSubEndDate"
      /\ UNCHANGED <<nextUid, orders, sublog, bot, auth>>
  BY DEF SweepActs, ExpiredDelete, deleteUser, botVars, SweepAsleep
<1>2. /\ DOMAIN users' \subseteq DOMAIN users
      /\ \A u \in DOMAIN users' : users'[u] = users[u]
  BY <1>1
<1>3. LogInv' /\ SublogOrderSound' /\ AccountMatchesOrder'
  BY <1>1, <1>2 DEF OrderInv, LogInv, SublogOrderSound, AccountMatchesOrder
<1>4. UidsNamed(bot.uname)' \subseteq UidsNamed(bot.uname)
  BY <1>1, <1>2 DEF UidsNamed
<1>5. BotOrderInv'
  BY <1>1, <1>2, <1>4 DEF OrderInv, BotOrderInv, RowsOf
<1> QED BY <1>1, <1>3, <1>5 DEF OrderInv

-----------------------------------------------------------------------------
(* The feed's insert, and every other step *)

LEMMA FeedAddOrderOrder == ASSUME IInv, OrderInv, FeedActs(FeedAddOrder) PROVE OrderInv'
<1> DEFINE row == [orderid |-> feed.msg.orderid, level |-> feed.msg.level,
                   paid |-> feed.msg.paid, uid |-> 0]
<1>1. /\ orders' = Append(orders, row)
      /\ UNCHANGED <<users, nextUid, sublog, sweep, bot, auth>>
  BY DEF FeedActs, FeedAddOrder, addOrder, botVars
<1>2. row \in OrderRow
  BY DEF FeedActs, FeedAddOrder, IInv, TypeOK, FeedTypeOK, FeedMsg, FeedInv, OrderRow
<1>3. /\ DOMAIN orders' = DOMAIN orders \cup {Len(orders) + 1}
      /\ \A i \in DOMAIN orders : orders'[i] = orders[i]
      /\ orders'[Len(orders) + 1] = row
  BY <1>1, <1>2, Rows, Appended
<1>4. row.uid = 0 /\ 0 \notin DOMAIN users /\ 0 < nextUid /\ (bot.then # "idle" => 0 # nextUid - 1)
  BY Rows
<1> HIDE DEF row
<1>5. LogInv' /\ SublogOrderSound' /\ AccountMatchesOrder'
  BY <1>1, <1>3, <1>4 DEF OrderInv, LogInv, SublogOrderSound, AccountMatchesOrder
<1>6. BotOrderInv'
  BY <1>1, <1>3, <1>4 DEF OrderInv, BotOrderInv, RowsOf, UidsNamed
<1> QED BY <1>1, <1>3, <1>4, <1>5, <1>6 DEF OrderInv

LEMMA ElsewhereOrder ==
  ASSUME IInv, OrderInv,
         \/ FeedActs(FeedAccept) \/ FeedActs(FeedReturn) \/ FeedActs(FeedMessage)
         \/ \E t \in MayThrow : SqlThrows(t)
         \/ Restart \/ TimePasses \/ UNCHANGED vars
  PROVE  OrderInv'
<1>1. UNCHANGED <<users, nextUid, orders, sublog, sweep, bot, auth>>
  <2>1. CASE FeedActs(FeedAccept) \/ FeedActs(FeedReturn) \/ FeedActs(FeedMessage)
    BY <2>1 DEF FeedActs, FeedAccept, FeedReturn, FeedMessage, FeedRecv, dbVars, botVars
  <2>2. CASE \/ \E t \in MayThrow : SqlThrows(t)
             \/ Restart \/ TimePasses \/ UNCHANGED vars
    BY <2>2 DEF SqlThrows, Restart, TimePasses, Tick, vars, dbVars, botVars
  <2> QED BY <2>1, <2>2
<1> QED BY <1>1, TablesAgree, LogStays, BotOrderStays

LEMMA ExitOrder == ASSUME IInv, OrderInv, NEW cause, Exit(cause) PROVE OrderInv'
<1>1. /\ UNCHANGED <<users, nextUid, orders, sublog>>
      /\ bot' = BotIdle /\ sweep' = SweepAsleep
  BY DEF Exit, dbVars
<1>2. LogInv'
  BY <1>1 DEF LogInv, SweepAsleep
<1> QED BY <1>1, <1>2, TablesAgree, BotOrderIdle

LEMMA NextOrder == IInv /\ OrderInv /\ [Next]_vars => OrderInv'
<1> SUFFICES ASSUME IInv, OrderInv, [Next]_vars PROVE OrderInv'
  OBVIOUS
<1>1. CASE BotActs(BotMessage)
  <2>1. \/ \E d \in DiscordUsers, o \in OrderIds : BotActs(Auth(d, o))
        \/ \E d \in DiscordUsers, n \in Usernames : BotActs(Reg(d, n))
        \/ BotActs(RegRefused)
    BY <1>1 DEF BotActs, BotMessage
  <2> QED BY <2>1, AuthStepsOrder, RegOrder
<1>2. CASE BotActs(BotStep)
  <2>1. \/ BotActs(AuthCheckRedeemed) \/ BotActs(RegCheckUsername) \/ BotActs(RegCheckDuid)
        \/ BotActs(RegAddUser) \/ BotActs(GetUidExists) \/ BotActs(GetUidSelect)
        \/ BotActs(RegPaid) \/ BotActs(WarnUnpaid) \/ BotActs(RegSetSubDate)
        \/ BotActs(RegRedeem)
    BY <1>2 DEF BotActs, BotStep, RegStep
  <2> QED BY <2>1, AuthStepsOrder, RegChecksOrder, RegAddUserOrder, GetUidOrder, RegPaidOrder,
             RegSetSubDateOrder, RegRedeemOrder
<1>3. CASE SweepActs(SweepWake) \/ SweepActs(SweepStep)
  <2>1. \/ SweepActs(SweepWake) \/ SweepActs(ExpiredGetOrder) \/ SweepActs(SweepDone)
        \/ \E u \in sweep.todo : SweepActs(SweepExpired(u)) \/ SweepActs(SweepSkip(u))
        \/ SweepActs(ExpiredLog) \/ SweepActs(ExpiredDelete)
    BY <1>3 DEF SweepActs, SweepStep
  <2> QED BY <2>1, SweepReadsOrder, ExpiredGetOrderOrder, ExpiredLogOrder, ExpiredDeleteOrder
<1>4. CASE KeyPressed \/ BotFault \/ BotMalformed \/ SweepFault \/ FeedClosed \/ FeedFault
  BY <1>4, ExitOrder DEF KeyPressed, BotFault, BotMalformed, SweepFault, FeedClosed, FeedFault
<1>5. CASE \/ FeedActs(FeedAccept) \/ FeedActs(FeedReturn) \/ FeedActs(FeedMessage)
           \/ \E t \in MayThrow : SqlThrows(t)
           \/ Restart \/ TimePasses \/ UNCHANGED vars
  BY <1>5, ElsewhereOrder
<1>6. CASE FeedActs(FeedAddOrder)
  BY <1>6, FeedAddOrderOrder
<1> QED BY <1>1, <1>2, <1>3, <1>4, <1>5, <1>6 DEF Next

-----------------------------------------------------------------------------
(* The theorems *)

(* What .reg and the checker know of an order is true of it. *)
THEOREM OrderInvariance == Spec => []OrderInv
<1> QED BY InitOrder, NextOrder, Invariance, PTL DEF Spec

(* A log entry names the order that the removed account had redeemed. *)
THEOREM LogsAreSound == Spec => []SublogOrderSound
<1>1. OrderInv => SublogOrderSound
  BY DEF OrderInv
<1> QED BY <1>1, OrderInvariance, PTL

(* An account has the level its order bought, and an end date iff its order *)
(* was paid.                                                               *)
THEOREM AccountsMatchOrders == Spec => []AccountMatchesOrder
<1>1. OrderInv => AccountMatchesOrder
  BY DEF OrderInv
<1> QED BY <1>1, OrderInvariance, PTL

-----------------------------------------------------------------------------
(* A redeemed order opens no further account *)

OneInv == RedeemedInv /\ OneRegistrationPerOrder

(* No row loses its order id, and a redeemed one stays redeemed. *)
OrdersKept == \A i \in DOMAIN orders :
  /\ i \in DOMAIN orders'
  /\ orders'[i].orderid = orders[i].orderid
  /\ orders[i].uid # 0 => orders'[i].uid # 0

LEMMA OneStays ==
  ASSUME OneInv, OrdersKept, DOMAIN opened' = DOMAIN opened,
         \A u \in DOMAIN opened : /\ opened'[u].order = opened[u].order
                                  /\ opened'[u].redeemed = opened[u].redeemed,
         bot'.then = "idle" \/ (bot.then # "idle" /\ UNCHANGED <<auth, nextUid>>),
         bot.then # "idle" => nextUid - 1 \in DOMAIN opened
  PROVE  OneInv'
<1>1. OneRegistrationPerOrder'
  BY DEF OneInv, OneRegistrationPerOrder
<1>2. ASSUME NEW u \in DOMAIN opened, opened[u].redeemed
      PROVE  \E i \in RowsOf(opened[u].order)' : orders'[i].uid # 0
  <2>1. PICK i \in RowsOf(opened[u].order) : orders[i].uid # 0
    BY <1>2 DEF OneInv, RedeemedInv
  <2> QED BY <2>1 DEF OrdersKept, RowsOf
<1>3. RedeemedInv'
  BY <1>2 DEF OneInv, RedeemedInv
<1> QED BY <1>1, <1>3 DEF OneInv

(* The accounts ever opened. *)
LEMMA Openings ==
  ASSUME IInv
  PROVE  /\ opened \in Seq([order : OrderIds \cup {Empty}, datedAt : Int \cup {Null},
                           redeemed : BOOLEAN])
         /\ DOMAIN opened = 1..(nextUid - 1) /\ Len(opened) = nextUid - 1
         /\ nextUid \in Nat \ {0}
         /\ \A u \in DOMAIN opened :
              opened[u] \in [order : OrderIds \cup {Empty}, datedAt : Int \cup {Null},
                             redeemed : BOOLEAN]
         /\ bot.then # "idle" => nextUid - 1 \in DOMAIN opened
<1> DEFINE Opened == [order : OrderIds \cup {Empty}, datedAt : Int \cup {Null}, redeemed : BOOLEAN]
<1>1. opened \in Seq(Opened) /\ Len(opened) = nextUid - 1 /\ nextUid \in Nat \ {0}
  BY DEF IInv, TypeOK, BotTypeOK, DbTypeOK
<1>2. DOMAIN opened = 1..(nextUid - 1)
  <2> HIDE DEF Opened
  <2> QED BY <1>1, LenProperties
<1>3. \A u \in DOMAIN opened : opened[u] \in Opened
  <2> HIDE DEF Opened
  <2> QED BY <1>1, LenProperties, ElementOfSeq
<1>4. bot.then # "idle" => nextUid > 1
  BY Rows
<1> QED BY <1>1, <1>2, <1>3, <1>4

(* Steps that touch neither orders nor openings. *)
LEMMA OneElsewhere ==
  ASSUME IInv, OneInv, UNCHANGED <<orders, opened>>,
         bot'.then = "idle" \/ (bot.then # "idle" /\ UNCHANGED <<auth, nextUid>>)
  PROVE  OneInv'
<1>1. OrdersKept
  BY DEF OrdersKept
<1> QED BY <1>1, OneStays, Openings

LEMMA PreparingOne ==
  ASSUME IInv, OneInv,
         \/ BotActs(BotMessage) \/ BotActs(AuthCheckRedeemed)
         \/ BotActs(RegCheckUsername) \/ BotActs(RegCheckDuid)
  PROVE  OneInv'
<1>1. UNCHANGED <<orders, opened>>
  BY DEF BotActs, BotMessage, Auth, Reg, RegRefused, AuthCheckRedeemed, RegCheckUsername,
         RegCheckDuid, dbVars
<1>2. bot'.then = "idle"
  <2>1. CASE BotActs(BotMessage) \/ BotActs(AuthCheckRedeemed)
    <3>1. CASE BotActs(BotMessage)
      <4>1. ASSUME NEW d \in DiscordUsers, NEW o \in OrderIds, BotActs(Auth(d, o))
            PROVE  bot'.then = "idle"
        BY <4>1 DEF BotActs, Auth, BotIdle
      <4>2. ASSUME NEW d \in DiscordUsers, NEW n \in Usernames, BotActs(Reg(d, n))
            PROVE  bot'.then = "idle"
        BY <4>2 DEF BotActs, Reg, BotIdle
      <4>3. CASE BotActs(RegRefused)
        BY <4>3 DEF BotActs, RegRefused, Refuse, BotIdle
      <4> QED BY <3>1, <4>1, <4>2, <4>3 DEF BotActs, BotMessage
    <3>2. CASE BotActs(AuthCheckRedeemed)
      BY <3>2 DEF BotActs, AuthCheckRedeemed, BotIdle
    <3> QED BY <2>1, <3>1, <3>2
  <2>2. CASE BotActs(RegCheckUsername) \/ BotActs(RegCheckDuid)
    <3>1. /\ bot.pc \in {"doesUsernameExist", "doesDuidExist"}
          /\ bot' = BotIdle \/ \E pc : bot' = [bot EXCEPT !.pc = pc]
      BY <2>2 DEF BotActs, RegCheckUsername, RegCheckDuid, Refuse, Goto
    <3>2. bot.then = "idle"
      BY <3>1, Rows
    <3> QED BY <3>1, <3>2, Rows DEF BotIdle, BotMsg
  <2> QED BY <2>1, <2>2
<1> QED BY <1>1, <1>2, OneElsewhere

LEMMA WorkingOne ==
  ASSUME IInv, OneInv,
         \/ BotActs(GetUidExists) \/ BotActs(GetUidSelect)
         \/ BotActs(RegPaid) \/ BotActs(WarnUnpaid)
  PROVE  OneInv'
<1>1. /\ UNCHANGED <<orders, opened, nextUid>>
      /\ bot.pc \in {"uidExists", "uidSelect", "isOrderPaidFor"}
      /\ bot' = BotIdle \/ UNCHANGED auth
  BY DEF BotActs, GetUidExists, GetUidSelect, RegPaid, WarnUnpaid, Caught, dbVars
<1>2. bot.then # "idle"
  BY <1>1, Rows
<1> QED BY <1>1, <1>2, OneElsewhere DEF BotIdle

(* The account is opened with the order in auth, which is not redeemed, so  *)
(* that no registration came to redeem it.                                 *)
LEMMA AddUserOne == ASSUME IInv, OneInv, BotActs(RegAddUser) PROVE OneInv'
<1> DEFINE Opened == [order : OrderIds \cup {Empty}, datedAt : Int \cup {Null}, redeemed : BOOLEAN]
           row == [order |-> auth, datedAt |-> Null, redeemed |-> FALSE]
<1>1. /\ opened' = Append(opened, row)
      /\ nextUid' = nextUid + 1
      /\ UNCHANGED <<orders, auth>>
      /\ auth \in OrderIds
  BY DEF BotActs, RegAddUser, addUser, IInv, BotInv, TypeOK, BotTypeOK
<1>2. row \in Opened
  BY <1>1
<1>3. /\ DOMAIN opened = 1..(nextUid - 1)
      /\ DOMAIN opened' = 1..nextUid
      /\ \A u \in DOMAIN opened : opened'[u] = opened[u]
      /\ opened'[nextUid] = row
      /\ nextUid \in Nat \ {0}
  <2>1. opened \in Seq(Opened) /\ Len(opened) = nextUid - 1
    BY Openings
  <2>2. nextUid - 1 + 1 = nextUid
    BY Openings
  <2> HIDE DEF row, Opened
  <2> QED BY <1>1, <1>2, <2>1, <2>2, Openings, Appended
<1>4. \A i \in RowsOf(auth) : orders[i].uid = 0
  <2>1. PICK k \in DOMAIN orders : orders[k].orderid = auth /\ orders[k].uid = 0
    BY BotAssumption DEF BotAssumption, IInv, AuthUnredeemed, BotInv, BotActs, RegAddUser
  <2>2. \A i \in RowsOf(auth) : i = k
    BY <2>1 DEF IInv, UniqueOrders, RowsOf
  <2> QED BY <2>1, <2>2
<1>5. \A u \in DOMAIN opened : opened[u].redeemed => opened[u].order # auth
  BY <1>4 DEF OneInv, RedeemedInv
<1>6. OneRegistrationPerOrder'
  <2> SUFFICES ASSUME NEW u \in DOMAIN opened', NEW v \in DOMAIN opened',
                      u < v, opened'[u].order = opened'[v].order
               PROVE  ~opened'[u].redeemed
    BY DEF OneRegistrationPerOrder
  <2>1. u \in DOMAIN opened /\ opened'[u] = opened[u]
    BY <1>3
  <2>2. CASE v = nextUid
    BY <1>3, <1>5, <2>1, <2>2
  <2>3. CASE v # nextUid
    <3>1. v \in DOMAIN opened /\ opened'[v] = opened[v]
      BY <1>3, <2>3
    <3> QED BY <2>1, <3>1 DEF OneInv, OneRegistrationPerOrder
  <2> QED BY <2>2, <2>3
<1>7. RedeemedInv'
  <2>1. \A u \in DOMAIN opened' : opened'[u].redeemed => u \in DOMAIN opened
    BY <1>3
  <2>2. opened'[nextUid' - 1].order = auth'
    BY <1>1, <1>3
  <2> QED BY <1>1, <1>3, <2>1, <2>2 DEF OneInv, RedeemedInv, RowsOf
<1> QED BY <1>6, <1>7 DEF OneInv

LEMMA SetSubDateOne == ASSUME IInv, OneInv, BotActs(RegSetSubDate) PROVE OneInv'
<1>1. /\ opened' = [opened EXCEPT ![bot.uid].datedAt = now]
      /\ UNCHANGED <<orders, nextUid, auth>>
      /\ bot.pc = "setSubDate"
  BY DEF BotActs, RegSetSubDate
<1>2. /\ DOMAIN opened' = DOMAIN opened
      /\ \A u \in DOMAIN opened : /\ opened'[u].order = opened[u].order
                                  /\ opened'[u].redeemed = opened[u].redeemed
  BY <1>1, Openings
<1>3. bot.then # "idle"
  BY <1>1, Rows
<1>4. OrdersKept
  BY <1>1 DEF OrdersKept
<1> QED BY <1>1, <1>2, <1>3, <1>4, OneStays, Openings

(* The order is redeemed, if only with DBINTERROR, and the account is the   *)
(* last one opened.                                                        *)
LEMMA RedeemOne == ASSUME IInv, OrderInv, OneInv, BotActs(RegRedeem) PROVE OneInv'
<1> DEFINE uid == nextUid - 1
<1>1. /\ bot.pc = "redeemOrder" /\ bot' = BotIdle
      /\ redeemOrder(auth, bot.uid)
      /\ opened' = [opened EXCEPT ![uid].redeemed = TRUE]
  BY DEF BotActs, RegRedeem
<1>2. bot.then = "redeemOrder" /\ bot.uid \in {uid, DBINTERROR} /\ bot.uid \in Int
  BY <1>1, Rows DEF OrderInv, BotOrderInv, BotMsg
<1>3. bot.uid # 0
  BY <1>2, Rows DEF DBINTERROR
<1>4. /\ DOMAIN orders' = DOMAIN orders
      /\ \A i \in DOMAIN orders :
           orders'[i] = IF orders[i].orderid = auth THEN [orders[i] EXCEPT !.uid = bot.uid]
                                                    ELSE orders[i]
  BY <1>1, <1>2, Rows, Redeemed
<1>5. /\ \A i \in DOMAIN orders : orders'[i].orderid = orders[i].orderid
      /\ \A i \in DOMAIN orders : orders[i].orderid = auth => orders'[i].uid = bot.uid
      /\ \A i \in DOMAIN orders : orders[i].orderid # auth => orders'[i].uid = orders[i].uid
  BY <1>4, Rows DEF OrderRow
<1>6. /\ DOMAIN opened' = DOMAIN opened
      /\ \A u \in DOMAIN opened : opened'[u].order = opened[u].order
      /\ \A u \in DOMAIN opened : u # uid => opened'[u] = opened[u]
      /\ opened[uid].order = auth
      /\ \A u \in DOMAIN opened : u <= uid
  BY <1>1, <1>2, Openings DEF OneInv, RedeemedInv
<1>7. RedeemedInv'
  <2> SUFFICES ASSUME NEW u \in DOMAIN opened, opened'[u].redeemed
               PROVE  \E i \in RowsOf(opened[u].order)' : orders'[i].uid # 0
    BY <1>1, <1>6 DEF RedeemedInv, BotIdle
  <2>1. CASE u = uid
    <3>1. PICK k \in DOMAIN orders : orders[k].orderid = auth
      BY <1>1 DEF IInv, AuthUnredeemed, BotInv
    <3> QED BY <1>3, <1>4, <1>5, <1>6, <2>1, <3>1 DEF RowsOf
  <2>2. CASE u # uid
    <3>1. PICK i \in RowsOf(opened[u].order) : orders[i].uid # 0
      BY <1>6, <2>2 DEF OneInv, RedeemedInv
    <3>2. orders'[i].uid # 0
      BY <1>3, <1>5, <3>1 DEF RowsOf
    <3> QED BY <1>4, <1>5, <1>6, <3>1, <3>2 DEF RowsOf
  <2> QED BY <2>1, <2>2
<1>8. OneRegistrationPerOrder'
  <2> SUFFICES ASSUME NEW u \in DOMAIN opened, NEW v \in DOMAIN opened,
                      u < v, opened[u].order = opened[v].order
               PROVE  ~opened'[u].redeemed
    BY <1>6 DEF OneRegistrationPerOrder
  <2>1. u # uid
    BY <1>6, Openings
  <2> QED BY <1>6, <2>1 DEF OneInv, OneRegistrationPerOrder
<1> QED BY <1>7, <1>8 DEF OneInv

LEMMA AddOrderOne == ASSUME IInv, OneInv, FeedActs(FeedAddOrder) PROVE OneInv'
<1> DEFINE row == [orderid |-> feed.msg.orderid, level |-> feed.msg.level,
                   paid |-> feed.msg.paid, uid |-> 0]
<1>1. /\ orders' = Append(orders, row)
      /\ UNCHANGED <<nextUid, opened, bot, auth>>
  BY DEF FeedActs, FeedAddOrder, addOrder, botVars
<1>2. row \in OrderRow
  BY DEF FeedActs, FeedAddOrder, IInv, TypeOK, FeedTypeOK, FeedMsg, FeedInv, OrderRow
<1>3. DOMAIN orders' = DOMAIN orders \cup {Len(orders) + 1}
      /\ \A i \in DOMAIN orders : orders'[i] = orders[i]
  BY <1>1, <1>2, Rows, Appended
<1>4. OrdersKept
  BY <1>3 DEF OrdersKept
<1> QED BY <1>1, <1>4, OneStays, Openings

LEMMA NextOne == IInv /\ OrderInv /\ OneInv /\ [Next]_vars => OneInv'
<1> SUFFICES ASSUME IInv, OrderInv, OneInv, [Next]_vars PROVE OneInv'
  OBVIOUS
<1>1. CASE BotActs(BotMessage)
  BY <1>1, PreparingOne
<1>2. CASE BotActs(BotStep)
  <2>1. \/ BotActs(AuthCheckRedeemed) \/ BotActs(RegCheckUsername) \/ BotActs(RegCheckDuid)
        \/ BotActs(RegAddUser) \/ BotActs(GetUidExists) \/ BotActs(GetUidSelect)
        \/ BotActs(RegPaid) \/ BotActs(WarnUnpaid) \/ BotActs(RegSetSubDate)
        \/ BotActs(RegRedeem)
    BY <1>2 DEF BotActs, BotStep, RegStep
  <2> QED BY <2>1, PreparingOne, AddUserOne, WorkingOne, SetSubDateOne, RedeemOne
<1>3. CASE SweepActs(SweepWake) \/ SweepActs(SweepStep)
  <2>1. UNCHANGED <<orders, opened, bot, auth, nextUid>>
    BY <1>3 DEF SweepActs, SweepStep, SweepWake, SweepDone, ExpiredGetOrder, ExpiredLog,
                ExpiredDelete, SweepExpired, SweepSkip, dbVars, botVars
  <2> QED BY <2>1, OneElsewhere
<1>4. CASE \/ FeedActs(FeedAccept) \/ FeedActs(FeedReturn) \/ FeedActs(FeedMessage)
           \/ \E t \in MayThrow : SqlThrows(t)
           \/ Restart \/ TimePasses \/ UNCHANGED vars
  <2>1. UNCHANGED <<orders, opened, bot, auth, nextUid>>
    <3>1. CASE FeedActs(FeedAccept) \/ FeedActs(FeedReturn) \/ FeedActs(FeedMessage)
      BY <3>1 DEF FeedActs, FeedAccept, FeedReturn, FeedMessage, FeedRecv, dbVars, botVars
    <3>2. CASE \/ \E t \in MayThrow : SqlThrows(t)
               \/ Restart \/ TimePasses \/ UNCHANGED vars
      BY <3>2 DEF SqlThrows, Restart, TimePasses, Tick, vars, dbVars, botVars
    <3> QED BY <1>4, <3>1, <3>2
  <2> QED BY <2>1, OneElsewhere
<1>5. CASE KeyPressed \/ BotFault \/ BotMalformed \/ SweepFault \/ FeedClosed \/ FeedFault
  <2>1. UNCHANGED <<orders, opened>> /\ bot' = BotIdle
    BY <1>5 DEF KeyPressed, BotFault, BotMalformed, SweepFault, FeedClosed, FeedFault, Exit,
                dbVars
  <2> QED BY <2>1, OneElsewhere DEF BotIdle
<1>6. CASE FeedActs(FeedAddOrder)
  BY <1>6, AddOrderOne
<1> QED BY <1>1, <1>2, <1>3, <1>4, <1>5, <1>6 DEF Next

LEMMA InitOne == Init => OneInv
BY DEF Init, BotInit, BotIdle, OneInv, RedeemedInv, OneRegistrationPerOrder

(* Whatever statements throw, messages fail to be sent, accounts are removed *)
(* and exits and restarts come: once a registration has come to its          *)
(* redeemOrder, its order opens no further account.                         *)
THEOREM OrdersRegisterOnce == Spec => []OneRegistrationPerOrder
<1>1. OneInv => OneRegistrationPerOrder
  BY DEF OneInv
<1> QED BY <1>1, InitOne, NextOne, Invariance, OrderInvariance, PTL DEF Spec
=============================================================================
