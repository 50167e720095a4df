-------------------------------- MODULE Login --------------------------------
(***************************************************************************)
(* Logging in (class clienthandler, handleConnection): the columns          *)
(* username, pwdhash, hwid and locked of table users, and one thread per    *)
(* connection that asks and writes them statement by statement.  Accounts   *)
(* come from the bot's .reg, go by the account checker, and are unlocked by *)
(* the bot's .unlock.                                                      *)
(*                                                                         *)
(* Each statement gets its own answer here, although the threads share one  *)
(* manager with its stmt and res members.  Left out: connectionlog, which   *)
(* nothing reads, the text of lockedReason, and the encoding of messages.   *)
(***************************************************************************)
EXTENDS Integers, FiniteSets

CONSTANTS
  Clients,     \* connections
  Usernames,   \* names both the bot and the login accept
  Passwords,   \* password hashes
  Hwids,       \* machines
  NotSet,      \* the hwid "not_set" an account is created with
  NoRow,       \* the empty answer to a query without a row
  MaxUid,      \* bound: accounts created in a behaviour
  UnpaidOrders \* whether accounts may be opened with orders nobody paid

ASSUME LoginAssumption ==
  /\ NotSet \notin Hwids /\ NoRow \notin Hwids /\ NotSet # NoRow
  /\ NoRow \notin Usernames \cup Passwords
  /\ MaxUid \in Nat
  /\ UnpaidOrders \in BOOLEAN

VARIABLES
  users,       \* table users: uid -> row
  nextUid,     \* AUTO_INCREMENT counter
  session,     \* the thread of each connection
  unlocking,   \* name the bot's .unlock is between its two statements with
  knew,        \* history: the machines that presented an account's password
  overlapped,  \* history: names that two threads were logging in at a time
  owners       \* history: the accounts ever registered under a name

vars == <<users, nextUid, session, unlocking, knew, overlapped, owners>>
tableVars == <<users, nextUid, owners>>

DBINTERROR == -1

(* paid is what table orders says of the order the account was opened with. *)
Row == [username : Usernames, pwdhash : Passwords, hwid : Hwids \cup {NotSet},
        locked : BOOLEAN, paid : BOOLEAN]

(* pc names the statement that comes next; then is where getUid returns to; *)
(* account is history: the uid whose password was checked.                  *)
Closed == [pc |-> "closed", uname |-> NoRow, pwd |-> NoRow, hwid |-> NoRow, cHwid |-> NoRow,
           uid |-> 0, then |-> "closed", account |-> 0]

Waiting == [Closed EXCEPT !.pc = "receivepacket"]

Statements == {"doesUsernameExist", "checkPassword", "isAccountLocked", "uidExists",
               "uidSelect", "getHwid", "setHwid", "getHwidAgain", "lockAccount"}

Session == [pc : Statements \cup {"closed", "receivepacket", "compare", "online"},
            uname : Usernames \cup {NoRow}, pwd : Passwords \cup {NoRow},
            hwid : Hwids \cup {NoRow}, cHwid : Hwids \cup {NotSet, NoRow}, uid : Int,
            then : Statements \cup {"closed"}, account : Nat]

Init ==
  /\ users = [u \in {} |-> NoRow]
  /\ nextUid = 1
  /\ session = [c \in Clients |-> Closed]
  /\ unlocking = NoRow
  /\ knew = [u \in 1..MaxUid |-> {}]
  /\ overlapped = {}
  /\ owners = [n \in Usernames |-> {}]

-----------------------------------------------------------------------------
(* Statements *)

UidsNamed(n) == {u \in DOMAIN users : users[u].username = n}

setHwid(uid, h) ==
  users' = [u \in DOMAIN users |-> IF u = uid THEN [users[u] EXCEPT !.hwid = h] ELSE users[u]]

lockAccount(uid) ==
  users' = [u \in DOMAIN users |-> IF u = uid THEN [users[u] EXCEPT !.locked = TRUE] ELSE users[u]]

getHwid(u) == IF u \in DOMAIN users THEN users[u].hwid ELSE NoRow

-----------------------------------------------------------------------------
(* One connection *)

At(c, pc) == session[c].pc = pc
Becomes(c, s) == session' = [session EXCEPT ![c] = s]
Goto(c, pc) == session' = [session EXCEPT ![c].pc = pc]
GetUidThen(c, pc) == session' = [session EXCEPT ![c].pc = "uidExists", ![c].then = pc]
LoggingIn(c) == session[c].pc \notin {"closed", "receivepacket", "online"}

(* accept, and the thread's SSL_accept. *)
Connect(c) ==
  /\ At(c, "closed")
  /\ Becomes(c, Waiting)
  /\ UNCHANGED <<tableVars, unlocking, knew, overlapped>>

(* The read fails, or a ping is not answered as it was sent. *)
Disconnect(c) ==
  /\ At(c, "receivepacket") \/ At(c, "online")
  /\ Becomes(c, Closed)
  /\ UNCHANGED <<tableVars, unlocking, knew, overlapped>>

(* "L-name-password-hwid-version" arrives. *)
ReceiveLogin(c, n, p, h) ==
  /\ At(c, "receivepacket")
  /\ Becomes(c, [Waiting EXCEPT !.pc = "doesUsernameExist", !.uname = n, !.pwd = p, !.hwid = h])
  /\ overlapped' = IF \E d \in Clients \ {c} : LoggingIn(d) /\ session[d].uname = n
                   THEN overlapped \cup {n} ELSE overlapped
  /\ UNCHANGED <<tableVars, unlocking, knew>>

(* Without such a name: "L-Error-USERNAME-BAD". *)
DoesUsernameExist(c) ==
  /\ At(c, "doesUsernameExist")
  /\ IF UidsNamed(session[c].uname) = {} THEN Becomes(c, Waiting) ELSE Goto(c, "checkPassword")
  /\ UNCHANGED <<tableVars, unlocking, knew, overlapped>>

Matching(c) == {u \in UidsNamed(session[c].uname) : users[u].pwdhash = session[c].pwd}

CheckPassword_NameOnly(c) ==
  /\ At(c, "checkPassword")
  /\ \/ UidsNamed(session[c].uname) = {} /\ Becomes(c, Waiting)
     \/ UidsNamed(session[c].uname) # {} /\ Goto(c, "isAccountLocked")
  /\ UNCHANGED <<tableVars, unlocking, knew, overlapped>>
CheckPassword(c) ==
  /\ At(c, "checkPassword")
  /\ \/ /\ Matching(c) = {}
        /\ Becomes(c, Waiting)
        /\ UNCHANGED knew
     \/ \E u \in Matching(c) :
          /\ Becomes(c, [session[c] EXCEPT !.pc = "isAccountLocked", !.pwd = NoRow,
                                           !.account = u])
          /\ knew' = [knew EXCEPT ![u] = @ \cup {session[c].hwid}]
  /\ UNCHANGED <<tableVars, unlocking, overlapped>>

(* isAccountLocked answers DBINTERROR, which counts as locked, if the row   *)
(* is gone; getLockedReason and the answer follow and change nothing.       *)
IsAccountLocked(c) ==
  /\ At(c, "isAccountLocked")
  /\ IF \E u \in UidsNamed(session[c].uname) : ~users[u].locked
     THEN GetUidThen(c, "getHwid")
     ELSE Becomes(c, Waiting)
  /\ UNCHANGED <<tableVars, unlocking, knew, overlapped>>

(* getUid: two statements, the second of which throws without a row; the    *)
(* catch (...) closes the connection.                                      *)
UidExists(c) ==
  /\ At(c, "uidExists")
  /\ IF UidsNamed(session[c].uname) # {}
     THEN Goto(c, "uidSelect")
     ELSE Becomes(c, [session[c] EXCEPT !.pc = session[c].then, !.uid = DBINTERROR])
  /\ UNCHANGED <<tableVars, unlocking, knew, overlapped>>

UidSelect(c) ==
  /\ At(c, "uidSelect")
  /\ \/ UidsNamed(session[c].uname) = {} /\ Becomes(c, Closed)
     \/ \E u \in UidsNamed(session[c].uname) :
          session' = [session EXCEPT ![c].pc = session[c].then, ![c].uid = u]
  /\ UNCHANGED <<tableVars, unlocking, knew, overlapped>>

GetHwid_Rebind(c) ==
  /\ At(c, "getHwid")
  /\ GetUidThen(c, "setHwid")
  /\ UNCHANGED <<tableVars, unlocking, knew, overlapped>>
GetHwid(c) ==
  /\ At(c, "getHwid")
  /\ LET stored == getHwid(session[c].uid)
     IN  IF stored = NotSet THEN GetUidThen(c, "setHwid")
         ELSE session' = [session EXCEPT ![c].pc = "compare", ![c].cHwid = stored]
  /\ UNCHANGED <<tableVars, unlocking, knew, overlapped>>

SetHwid(c) ==
  /\ At(c, "setHwid")
  /\ setHwid(session[c].uid, session[c].hwid)
  /\ GetUidThen(c, "getHwidAgain")
  /\ UNCHANGED <<nextUid, owners, unlocking, knew, overlapped>>

GetHwidAgain_Skip(c) ==
  /\ At(c, "getHwidAgain")
  /\ session' = [session EXCEPT ![c].pc = "compare", ![c].cHwid = NotSet]
  /\ UNCHANGED <<tableVars, unlocking, knew, overlapped>>
GetHwidAgain(c) ==
  /\ At(c, "getHwidAgain")
  /\ session' = [session EXCEPT ![c].pc = "compare", ![c].cHwid = getHwid(session[c].uid)]
  /\ UNCHANGED <<tableVars, unlocking, knew, overlapped>>

(* The wrong machine locks the account. *)
WrongHwid(c) ==
  /\ At(c, "compare")
  /\ session[c].cHwid # session[c].hwid
  /\ GetUidThen(c, "lockAccount")
  /\ UNCHANGED <<tableVars, unlocking, knew, overlapped>>

LockAccount(c) ==
  /\ At(c, "lockAccount")
  /\ lockAccount(session[c].uid)
  /\ Becomes(c, Waiting)
  /\ UNCHANGED <<nextUid, owners, unlocking, knew, overlapped>>

(* The right machine is let in, unless its client is not the current one.   *)
RightHwid(c) ==
  /\ At(c, "compare")
  /\ session[c].cHwid = session[c].hwid
  /\ \/ Becomes(c, Waiting)
     \/ Goto(c, "online")
  /\ UNCHANGED <<tableVars, unlocking, knew, overlapped>>

-----------------------------------------------------------------------------
(* The other threads *)

(* .reg inserts an account, paid for or not, under a name no row has: that  *)
(* of a removed account may be taken again.                                 *)
Register_ReuseUid(n, p, paid) ==
  /\ paid \/ UnpaidOrders
  /\ UidsNamed(n) = {}
  /\ nextUid <= MaxUid
  /\ users' = [u \in DOMAIN users \cup {nextUid} |->
                 IF u = nextUid
                 THEN [username |-> n, pwdhash |-> p, hwid |-> NotSet, locked |-> FALSE,
                       paid |-> paid]
                 ELSE users[u]]
  /\ nextUid' = nextUid
  /\ owners' = [owners EXCEPT ![n] = @ \cup {nextUid}]
  /\ UNCHANGED <<session, unlocking, knew, overlapped>>
Register(n, p, paid) ==
  /\ paid \/ UnpaidOrders
  /\ UidsNamed(n) = {}
  /\ nextUid <= MaxUid
  /\ users' = [u \in DOMAIN users \cup {nextUid} |->
                 IF u = nextUid
                 THEN [username |-> n, pwdhash |-> p, hwid |-> NotSet, locked |-> FALSE,
                       paid |-> paid]
                 ELSE users[u]]
  /\ nextUid' = nextUid + 1
  /\ owners' = [owners EXCEPT ![n] = @ \cup {nextUid}]
  /\ UNCHANGED <<session, unlocking, knew, overlapped>>

(* The account checker deletes one. *)
Remove(uid) ==
  /\ users' = [u \in DOMAIN users \ {uid} |-> users[u]]
  /\ UNCHANGED <<nextUid, owners, session, unlocking, knew, overlapped>>

(* .unlock asks whether the account is locked ... *)
Unlock(n) ==
  /\ unlocking = NoRow
  /\ \E u \in UidsNamed(n) : users[u].locked
  /\ unlocking' = n
  /\ UNCHANGED <<tableVars, session, knew, overlapped>>

(* ... and unlocks it. *)
UnlockAccount ==
  /\ unlocking # NoRow
  /\ users' = [u \in DOMAIN users |-> IF users[u].username = unlocking
                                      THEN [users[u] EXCEPT !.locked = FALSE] ELSE users[u]]
  /\ unlocking' = NoRow
  /\ UNCHANGED <<nextUid, owners, session, knew, overlapped>>

(* The process exits and is started again: every connection is lost. *)
Exit ==
  /\ session' = [c \in Clients |-> Closed]
  /\ unlocking' = NoRow
  /\ UNCHANGED <<tableVars, knew, overlapped>>

-----------------------------------------------------------------------------
LoginStep(c) ==
  \/ DoesUsernameExist(c) \/ CheckPassword(c) \/ IsAccountLocked(c)
  \/ UidExists(c) \/ UidSelect(c) \/ GetHwid(c) \/ SetHwid(c) \/ GetHwidAgain(c)
  \/ WrongHwid(c) \/ LockAccount(c) \/ RightHwid(c)

Next ==
  \/ \E c \in Clients :
       \/ Connect(c) \/ Disconnect(c) \/ LoginStep(c)
       \/ \E n \in Usernames, p \in Passwords, h \in Hwids : ReceiveLogin(c, n, p, h)
  \/ \E n \in Usernames : Unlock(n) \/ (\E p \in Passwords, paid \in BOOLEAN : Register(n, p, paid))
  \/ \E u \in DOMAIN users : Remove(u)
  \/ UnlockAccount \/ Exit

Spec == Init /\ [][Next]_vars

-----------------------------------------------------------------------------
TypeOK ==
  /\ nextUid \in Nat \ {0}
  /\ DOMAIN users \subseteq 1..(nextUid - 1)
  /\ \A u \in DOMAIN users : users[u] \in Row
  /\ session \in [Clients -> Session]
  /\ unlocking \in Usernames \cup {NoRow}
  /\ knew \in [1..MaxUid -> SUBSET Hwids]
  /\ overlapped \subseteq Usernames
  /\ owners \in [Usernames -> SUBSET (1..(nextUid - 1))]

(* The name never meant another account.                                    *)
Unambiguous(n) == \A u, v \in owners[n] : u = v

(* An account is only ever bound to a machine that presented the password   *)
(* of an account of its name, though the binding (clienthandler.cpp:239)    *)
(* looks the account up by name in later statements than checkPassword, and *)
(* the name may be another account's by then.                               *)
BindingNeedsPassword == \A u \in DOMAIN users :
  \/ users[u].hwid = NotSet
  \/ \E v \in owners[users[u].username] : users[u].hwid \in knew[v]

(* As long as its name never meant another account, an account is only ever *)
(* locked after two machines presented its password: its owner's own,       *)
(* single machine never locks it out, whatever is removed and unlocked      *)
(* beside the login (clienthandler.cpp:243-252).                            *)
LockNeedsTwoMachines == \A u \in DOMAIN users :
  users[u].locked /\ Unambiguous(users[u].username) => \E g, h \in knew[u] : g # h

(* Two connections that an account is let in with come from one machine     *)
(* while the account is there, whoever had its name before and whatever     *)
(* their logins still do, if no two threads ever logged that name in at the *)
(* same time (clienthandler.cpp:236-255 is not atomic).                     *)
OneMachineOnline == \A c, d \in Clients :
  /\ At(c, "online") /\ At(d, "online")
  /\ session[c].account = session[d].account /\ session[c].account \in DOMAIN users
  /\ session[c].uname \notin overlapped
  => session[c].hwid = session[d].hwid

-----------------------------------------------------------------------------
(* What a comment of the code and the bot say, and what a login is for *)

(* An account is only ever bound to a machine that presented its own        *)
(* password, and locked after two did, as checkPassword before the binding  *)
(* and the lock has it (clienthandler.cpp:218-252).                         *)
BoundByItsPassword == \A u \in DOMAIN users : users[u].hwid \in knew[u] \cup {NotSet}
LockedByItsMachines == \A u \in DOMAIN users : users[u].locked => \E g, h \in knew[u] : g # h


(* "check user and update hwid if needed" (clienthandler.cpp:213): a hwid   *)
(* that is set is not written again.                                       *)
HwidUpdatedIfNeeded == [][\A u \in DOMAIN users \cap DOMAIN users' :
  users[u].hwid # NotSet => users'[u].hwid = users[u].hwid]_vars

(* "This order has not yet been paid for, meaning you will not be able to   *)
(* use the software!" (discordbot.h:218): an account opened with an unpaid  *)
(* order is not let in.                                                    *)
UnpaidCannotUse == \A c \in Clients :
  At(c, "online") /\ session[c].account \in DOMAIN users => users[session[c].account].paid
=============================================================================
