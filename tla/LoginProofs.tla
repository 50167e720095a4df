------------------------------ MODULE LoginProofs ------------------------------
(***************************************************************************)
(* For any connections, names, passwords and machines, the names of removed *)
(* accounts taken again or not: an account is bound only to a machine that  *)
(* presented the password of an account of its name; it is locked only      *)
(* after two machines presented its password, as long as its name never     *)
(* meant another account; and connections of an account that is there come  *)
(* from one machine unless two threads logged its name in at the same time. *)
(***************************************************************************)
EXTENDS Login, TLAPS

(* Past checkPassword.                                                      *)
Checked(c) == session[c].pc \notin {"closed", "receivepacket", "doesUsernameExist", "checkPassword"}

(* What getUid is asked for, or its answer is used by.                      *)
UidCalls == {"getHwid", "setHwid", "getHwidAgain", "lockAccount"}
GettingUid(c) == session[c].pc \in {"uidExists", "uidSelect"}
UsedBy(c, call) == session[c].pc = call \/ (GettingUid(c) /\ session[c].then = call)

(* Let in, or about to be.                                                  *)
Holds(c) == At(c, "online") \/ (At(c, "compare") /\ session[c].cHwid = session[c].hwid)

-----------------------------------------------------------------------------
(* A name belongs to one account at a time.                                 *)
NamesInv ==
  /\ nextUid <= MaxUid + 1
  /\ \A u, v \in DOMAIN users : users[u].username = users[v].username => u = v
  /\ \A u \in DOMAIN users : u \in owners[users[u].username]

(* The name a thread logs in means the account whose password it presented, *)
(* as long as there is that account.                                        *)
NameInv(c) ==
  LET s == session[c]
  IN  /\ LoggingIn(c) \/ At(c, "online") => s.uname \in Usernames /\ s.hwid \in Hwids
      /\ Checked(c) =>
           /\ s.account \in 1..(nextUid - 1) /\ s.hwid \in knew[s.account]
           /\ s.account \in owners[s.uname]
           /\ s.account \in DOMAIN users => users[s.account].username = s.uname

(* The uid a thread asked for means an account of that name, and the one    *)
(* whose password it presented if there is that account.                    *)
UidInv(c) ==
  LET s == session[c]
  IN  /\ GettingUid(c) => s.then \in UidCalls
      /\ s.pc \in UidCalls =>
           /\ s.uid \in 1..(nextUid - 1) \cup {DBINTERROR}
           /\ s.uid \in DOMAIN users => users[s.uid].username = s.uname
           /\ s.account \in DOMAIN users => s.uid = s.account

(* What a thread knows of the hwid of its account; if no other thread logs  *)
(* the name in, nobody changes it beside the thread.                        *)
HwidInv(c) ==
  LET s == session[c]
      row == users[s.account]
  IN  s.account \in DOMAIN users =>
        /\ UsedBy(c, "getHwidAgain") => row.hwid # NotSet
        /\ s.pc = "compare" /\ Unambiguous(s.uname) => s.cHwid \in knew[s.account]
        /\ UsedBy(c, "lockAccount") /\ Unambiguous(s.uname) =>
             \E g, h \in knew[s.account] : g # h
        /\ UsedBy(c, "setHwid") /\ s.uname \notin overlapped => row.hwid = NotSet
        /\ Holds(c) /\ s.uname \notin overlapped => row.hwid = s.hwid

SessionInv(c) == NameInv(c) /\ UidInv(c) /\ HwidInv(c)

(* A thread that logs in the name of a connection that was let in, after    *)
(* it, logs in its account, if that is still there.                         *)
PairInv(c, d) ==
  /\ LoggingIn(c) /\ LoggingIn(d) /\ session[c].uname = session[d].uname
       => session[c].uname \in overlapped
  /\ Checked(c) /\ Checked(d) /\ session[c].account = session[d].account
       => session[c].uname = session[d].uname
  /\ LoggingIn(c) /\ Checked(c) /\ At(d, "online") /\ session[c].uname = session[d].uname
     /\ session[c].uname \notin overlapped /\ session[d].account \in DOMAIN users
       => session[c].account = session[d].account

LoginInv ==
  /\ TypeOK /\ NamesInv /\ BindingNeedsPassword /\ LockNeedsTwoMachines
  /\ \A c \in Clients : SessionInv(c)
  /\ \A c, d \in Clients : c # d => PairInv(c, d)

-----------------------------------------------------------------------------
(* Steps of one thread, of the bot and of the account checker *)

(* What any step does to the tables: no uid is given out again and names    *)
(* do not change.                                                           *)
TablesGrow ==
  /\ nextUid' \in Nat /\ nextUid' >= nextUid
  /\ \A u \in DOMAIN users' \ DOMAIN users : u >= nextUid
  /\ \A u \in 1..MaxUid : knew[u] \subseteq knew'[u]
  /\ overlapped \subseteq overlapped'
  /\ \A n \in Usernames : owners[n] \subseteq owners'[n]
  /\ \A u \in DOMAIN users \cap DOMAIN users' : users'[u].username = users[u].username

(* The hwid of a thread's account stays, or is set and the thread does not  *)
(* rely on it.                                                              *)
HwidStays(d) ==
  LET a == session[d].account
  IN  a \in DOMAIN users \cap DOMAIN users' =>
        \/ users'[a].hwid = users[a].hwid
        \/ /\ users'[a].hwid # NotSet
           /\ UsedBy(d, "setHwid") \/ Holds(d) => session[d].uname \in overlapped

LEMMA SessionStays ==
  ASSUME LoginInv, NEW d \in Clients, session'[d] = session[d], TablesGrow, HwidStays(d)
  PROVE  SessionInv(d)'
<1> DEFINE a == session[d].account
           n == session[d].uname
<1>1. NameInv(d) /\ UidInv(d) /\ HwidInv(d) /\ nextUid \in Nat \ {0} /\ nextUid <= MaxUid + 1
  BY DEF LoginInv, SessionInv, TypeOK, NamesInv
<1>2. Checked(d) =>
        /\ a \in 1..(nextUid - 1) /\ session[d].hwid \in knew[a] /\ a \in owners[n]
        /\ a \in DOMAIN users => users[a].username = n
        /\ n \in Usernames /\ session[d].hwid \in Hwids
  <2>1. Checked(d) => LoggingIn(d) \/ At(d, "online") BY DEF Checked, LoggingIn, At
  <2> QED BY <1>1, <2>1 DEF NameInv
<1>3. Checked(d) => a \in 1..(nextUid' - 1) /\ a \in 1..MaxUid
                    /\ (a \in DOMAIN users' => a \in DOMAIN users)
  BY <1>1, <1>2, LoginAssumption DEF TablesGrow
<1>4. Checked(d) => knew[a] \subseteq knew'[a] /\ owners[n] \subseteq owners'[n]
  BY <1>2, <1>3 DEF TablesGrow
<1>5. Checked(d) /\ a \in DOMAIN users' => users'[a].username = n
  BY <1>2, <1>3 DEF TablesGrow
<1>6. Checked(d) /\ Unambiguous(n)' => Unambiguous(n)
  BY <1>4 DEF Unambiguous, n
<1> HIDE DEF a, n
<1>7. NameInv(d)'
  <2>1. Checked(d)' <=> Checked(d) BY DEF Checked
  <2>2. (LoggingIn(d) \/ At(d, "online"))' <=> LoggingIn(d) \/ At(d, "online")
    BY DEF LoggingIn, At
  <2>3. LoggingIn(d) \/ At(d, "online") => n \in Usernames /\ session[d].hwid \in Hwids
    BY <1>1 DEF NameInv, n
  <2>4. Checked(d) => session[d].hwid \in knew'[a] /\ a \in owners'[n] BY <1>2, <1>4
  <2> QED BY <1>3, <1>5, <2>1, <2>2, <2>3, <2>4 DEF NameInv, a, n
<1>8. UidInv(d)'
  <2> DEFINE uid == session[d].uid
  <2>1. session[d].pc \in UidCalls => Checked(d) BY DEF UidCalls, Checked
  <2>2. session[d].pc \in UidCalls =>
          /\ uid \in 1..(nextUid - 1) \cup {DBINTERROR}
          /\ uid \in DOMAIN users => users[uid].username = n
          /\ a \in DOMAIN users => uid = a
    BY <1>1 DEF UidInv, a, n
  <2> HIDE DEF uid
  <2>3. session[d].pc \in UidCalls =>
          /\ uid \in 1..(nextUid' - 1) \cup {DBINTERROR}
          /\ uid \in DOMAIN users' => uid \in DOMAIN users
    BY <1>1, <2>2 DEF TablesGrow, DBINTERROR
  <2>4. session[d].pc \in UidCalls /\ uid \in DOMAIN users' => users'[uid].username = n
    BY <2>2, <2>3 DEF TablesGrow
  <2>5. GettingUid(d)' => session[d].then \in UidCalls BY <1>1 DEF UidInv, GettingUid
  <2> QED BY <1>3, <2>1, <2>2, <2>3, <2>4, <2>5 DEF UidInv, uid, a, n
<1>9. HwidInv(d)'
  <2> SUFFICES ASSUME a \in DOMAIN users'
               PROVE  /\ UsedBy(d, "getHwidAgain") => users'[a].hwid # NotSet
                      /\ session[d].pc = "compare" /\ Unambiguous(n)' =>
                           session[d].cHwid \in knew'[a]
                      /\ UsedBy(d, "lockAccount") /\ Unambiguous(n)' =>
                           \E g, h \in knew'[a] : g # h
                      /\ UsedBy(d, "setHwid") /\ n \notin overlapped' => users'[a].hwid = NotSet
                      /\ Holds(d) /\ n \notin overlapped' => users'[a].hwid = session[d].hwid
    BY DEF HwidInv, UsedBy, GettingUid, Holds, At, Unambiguous, a, n
  <2>1. CASE ~Checked(d)
    BY <2>1 DEF Checked, UsedBy, GettingUid, Holds, At
  <2>2. CASE Checked(d)
    <3>1. a \in DOMAIN users /\ knew[a] \subseteq knew'[a] /\ overlapped \subseteq overlapped'
      BY <1>3, <1>4, <2>2 DEF TablesGrow
    <3>2. /\ UsedBy(d, "getHwidAgain") => users[a].hwid # NotSet
          /\ session[d].pc = "compare" /\ Unambiguous(n) => session[d].cHwid \in knew[a]
          /\ UsedBy(d, "lockAccount") /\ Unambiguous(n) => \E g, h \in knew[a] : g # h
          /\ UsedBy(d, "setHwid") /\ n \notin overlapped => users[a].hwid = NotSet
          /\ Holds(d) /\ n \notin overlapped => users[a].hwid = session[d].hwid
      BY <1>1, <3>1 DEF HwidInv, a, n
    <3>3. \/ users'[a].hwid = users[a].hwid
          \/ /\ users'[a].hwid # NotSet
             /\ UsedBy(d, "setHwid") \/ Holds(d) => n \in overlapped
      BY <3>1 DEF HwidStays, a, n
    <3> QED BY <1>6, <2>2, <3>1, <3>2, <3>3
  <2> QED BY <2>1, <2>2
<1> QED BY <1>7, <1>8, <1>9 DEF SessionInv

LEMMA PairStays ==
  ASSUME LoginInv, NEW c \in Clients, NEW d \in Clients, PairInv(c, d),
         session'[c] = session[c], session'[d] = session[d], TablesGrow
  PROVE  PairInv(c, d)'
<1>1. overlapped \subseteq overlapped' BY DEF TablesGrow
<1>2. At(d, "online") => session[d].account \in 1..(nextUid - 1) /\ nextUid \in Nat
  BY DEF LoginInv, SessionInv, NameInv, At, Checked, TypeOK
<1>3. At(d, "online") /\ session[d].account \in DOMAIN users' => session[d].account \in DOMAIN users
  BY <1>2 DEF TablesGrow
<1> QED BY <1>1, <1>3 DEF PairInv, LoggingIn, Checked, At

(* A step that leaves every thread where it is.                             *)
LEMMA TableStep ==
  ASSUME LoginInv, UNCHANGED session, TablesGrow, \A d \in Clients : HwidStays(d),
         TypeOK', NamesInv', BindingNeedsPassword', LockNeedsTwoMachines'
  PROVE  LoginInv'
<1>1. \A c \in Clients : SessionInv(c)' BY SessionStays
<1>2. \A c, d \in Clients : c # d => PairInv(c, d)' BY PairStays DEF LoginInv
<1> QED BY <1>1, <1>2 DEF LoginInv

(* A step of one thread.                                                    *)
LEMMA ThreadStep ==
  ASSUME LoginInv, NEW c \in Clients, \A d \in Clients \ {c} : session'[d] = session[d],
         TablesGrow, \A d \in Clients \ {c} : HwidStays(d),
         TypeOK', NamesInv', BindingNeedsPassword', LockNeedsTwoMachines',
         SessionInv(c)', \A d \in Clients \ {c} : PairInv(c, d)' /\ PairInv(d, c)'
  PROVE  LoginInv'
<1>1. \A d \in Clients : SessionInv(d)' BY SessionStays
<1>2. \A d, e \in Clients : d # e => PairInv(d, e)'
  <2> SUFFICES ASSUME NEW d \in Clients, NEW e \in Clients, d # e PROVE PairInv(d, e)' OBVIOUS
  <2>1. CASE d # c /\ e # c BY <2>1, PairStays DEF LoginInv
  <2> QED BY <2>1
<1> QED BY <1>1, <1>2 DEF LoginInv

(* ... that leaves the tables alone.                                        *)
QuietStep(c, s) == /\ session' = [session EXCEPT ![c] = s]
                   /\ UNCHANGED <<tableVars, unlocking, knew, overlapped>>

LEMMA QuietKeeps ==
  ASSUME LoginInv, NEW c \in Clients, NEW s \in Session, QuietStep(c, s),
         SessionInv(c)', \A d \in Clients \ {c} : PairInv(c, d)' /\ PairInv(d, c)'
  PROVE  LoginInv'
<1>1. UNCHANGED <<users, nextUid, owners, unlocking, knew, overlapped>>
      /\ session' = [session EXCEPT ![c] = s] /\ TypeOK /\ NamesInv
  BY DEF QuietStep, tableVars, LoginInv
<1>2. session' \in [Clients -> Session] /\ \A d \in Clients \ {c} : session'[d] = session[d]
  BY <1>1 DEF TypeOK
<1>3. TablesGrow BY <1>1 DEF TablesGrow, TypeOK
<1>4. \A d \in Clients : HwidStays(d) BY <1>1 DEF HwidStays
<1>5. TypeOK' BY <1>1, <1>2 DEF TypeOK
<1>6. NamesInv' BY <1>1 DEF NamesInv
<1>7. BindingNeedsPassword' /\ LockNeedsTwoMachines'
  BY <1>1 DEF LoginInv, BindingNeedsPassword, LockNeedsTwoMachines, Unambiguous
<1> QED BY <1>2, <1>3, <1>4, <1>5, <1>6, <1>7, ThreadStep

(* A thread that is not logging in and not let in knows and promises        *)
(* nothing.                                                                 *)
LEMMA IdleSession ==
  ASSUME NEW c \in Clients, session'[c] \in {Waiting, Closed}
  PROVE  SessionInv(c)' /\ \A d \in Clients : PairInv(c, d)' /\ PairInv(d, c)'
<1>1. session'[c].pc \in {"receivepacket", "closed"} BY DEF Waiting, Closed
<1>2. /\ ~LoggingIn(c)' /\ ~Checked(c)' /\ ~Holds(c)' /\ ~At(c, "online")' /\ ~GettingUid(c)'
      /\ session'[c].pc \notin UidCalls /\ session'[c].pc # "compare"
  BY <1>1 DEF LoggingIn, Checked, Holds, At, GettingUid, UidCalls
<1>3. \A call \in UidCalls : ~UsedBy(c, call)' BY <1>2 DEF UsedBy, GettingUid
<1>4. SessionInv(c)'
  BY <1>2, <1>3 DEF SessionInv, NameInv, UidInv, HwidInv, UidCalls
<1>5. \A d \in Clients : PairInv(c, d)' /\ PairInv(d, c)' BY <1>2 DEF PairInv, At
<1> QED BY <1>4, <1>5

LEMMA IdleTypes == Waiting \in Session /\ Closed \in Session
BY DEF Waiting, Closed, Session

LEMMA IdleKeeps ==
  ASSUME LoginInv, NEW c \in Clients, NEW s \in {Waiting, Closed}, QuietStep(c, s)
  PROVE  LoginInv'
<1>1. session'[c] = s BY DEF QuietStep, LoginInv, TypeOK
<1>2. s \in Session BY IdleTypes
<1> QED BY <1>1, <1>2, IdleSession, QuietKeeps

(* A thread that goes on logging in, or is let in, as before.               *)
LEMMA PairFollows ==
  ASSUME LoginInv, NEW c \in Clients,
         \A d \in Clients \ {c} : session'[d] = session[d],
         overlapped' = overlapped, DOMAIN users' = DOMAIN users,
         session'[c].uname = session[c].uname, session'[c].account = session[c].account,
         LoggingIn(c)' => LoggingIn(c), Checked(c), LoggingIn(c) \/ At(c, "online")
  PROVE  \A d \in Clients \ {c} : PairInv(c, d)' /\ PairInv(d, c)'
<1> SUFFICES ASSUME NEW d \in Clients \ {c} PROVE PairInv(c, d)' /\ PairInv(d, c)' OBVIOUS
<1>1. PairInv(c, d) /\ PairInv(d, c) /\ session'[d] = session[d] BY DEF LoginInv
<1>2. (LoggingIn(d)' <=> LoggingIn(d)) /\ (Checked(d)' <=> Checked(d))
      /\ (At(d, "online")' <=> At(d, "online"))
  BY <1>1 DEF LoggingIn, Checked, At
<1>3. PairInv(c, d)' BY <1>1, <1>2 DEF PairInv
<1>4. PairInv(d, c)' BY <1>1, <1>2 DEF PairInv
<1> QED BY <1>3, <1>4

LEMMA FollowKeeps ==
  ASSUME LoginInv, NEW c \in Clients, NEW s \in Session, QuietStep(c, s),
         s.uname = session[c].uname, s.account = session[c].account, s.hwid = session[c].hwid,
         Checked(c), Checked(c)', s.pc # "online" => LoggingIn(c),
         LoggingIn(c) \/ At(c, "online"), UidInv(c)', HwidInv(c)'
  PROVE  LoginInv'
<1>1. /\ UNCHANGED <<users, nextUid, owners, knew, overlapped>>
      /\ session'[c] = s /\ \A d \in Clients \ {c} : session'[d] = session[d]
  BY DEF QuietStep, tableVars, LoginInv, TypeOK
<1>2. NameInv(c)'
  <2>1. NameInv(c) BY DEF LoginInv, SessionInv
  <2> QED BY <1>1, <2>1 DEF NameInv
<1>3. LoggingIn(c)' => LoggingIn(c) BY <1>1 DEF LoggingIn
<1>4. \A d \in Clients \ {c} : PairInv(c, d)' /\ PairInv(d, c)' BY <1>1, <1>3, PairFollows
<1> QED BY <1>2, <1>4, QuietKeeps DEF SessionInv

-----------------------------------------------------------------------------
(* The steps *)

LEMMA LoginInit == Init => LoginInv
<1> SUFFICES ASSUME Init PROVE LoginInv OBVIOUS
<1> USE LoginAssumption DEF Init
<1>1. Closed \in Session BY IdleTypes
<1>2. TypeOK BY <1>1 DEF TypeOK
<1>3. NamesInv BY DEF NamesInv
<1>4. BindingNeedsPassword /\ LockNeedsTwoMachines
  BY DEF BindingNeedsPassword, LockNeedsTwoMachines
<1>5. \A c \in Clients : SessionInv(c)
  BY DEF SessionInv, NameInv, UidInv, HwidInv, LoggingIn, At, Checked, GettingUid, UidCalls, Closed
<1>6. \A c, d \in Clients : PairInv(c, d)
  BY DEF PairInv, LoggingIn, Checked, At, Closed
<1> QED BY <1>2, <1>3, <1>4, <1>5, <1>6 DEF LoginInv

LEMMA ConnectionKeeps ==
  ASSUME LoginInv, NEW c \in Clients, Connect(c) \/ Disconnect(c)
  PROVE  LoginInv'
<1>1. PICK s \in {Waiting, Closed} : QuietStep(c, s)
  BY DEF Connect, Disconnect, Becomes, QuietStep
<1> QED BY <1>1, IdleKeeps

(* Whoever logs the same name in is in overlapped from now on.              *)
LEMMA ReceiveLoginKeeps ==
  ASSUME LoginInv, NEW c \in Clients, NEW n \in Usernames, NEW p \in Passwords, NEW h \in Hwids,
         ReceiveLogin(c, n, p, h)
  PROVE  LoginInv'
<1> DEFINE s == [Waiting EXCEPT !.pc = "doesUsernameExist", !.uname = n, !.pwd = p, !.hwid = h]
<1>1. /\ session' = [session EXCEPT ![c] = s]
      /\ UNCHANGED <<users, nextUid, owners, unlocking, knew>>
      /\ overlapped' = IF \E d \in Clients \ {c} : LoggingIn(d) /\ session[d].uname = n
                       THEN overlapped \cup {n} ELSE overlapped
      /\ TypeOK /\ NamesInv
  BY DEF ReceiveLogin, Becomes, tableVars, LoginInv
<1>2. s \in Session /\ s.pc = "doesUsernameExist" /\ s.uname = n /\ s.hwid = h
  <2>1. Waiting \in Session BY IdleTypes
  <2> QED BY ONLY <2>1, n \in Usernames, p \in Passwords, h \in Hwids DEF Session, Statements
<1> HIDE DEF s
<1>3. session' \in [Clients -> Session] /\ session'[c] = s
      /\ \A d \in Clients \ {c} : session'[d] = session[d]
  BY <1>1, <1>2 DEF TypeOK
<1>4. overlapped \subseteq overlapped' /\ overlapped' \subseteq Usernames BY <1>1 DEF TypeOK
<1>5. TablesGrow BY <1>1, <1>4 DEF TablesGrow, TypeOK
<1>6. \A d \in Clients : HwidStays(d) BY <1>1 DEF HwidStays
<1>7. TypeOK' BY <1>1, <1>3, <1>4 DEF TypeOK
<1>8. NamesInv' BY <1>1 DEF NamesInv
<1>9. BindingNeedsPassword' /\ LockNeedsTwoMachines'
  BY <1>1 DEF LoginInv, BindingNeedsPassword, LockNeedsTwoMachines, Unambiguous
<1>10. ~Checked(c)' /\ ~Holds(c)' /\ ~GettingUid(c)' /\ session'[c].pc \notin UidCalls
       /\ session'[c].pc # "compare" /\ ~At(c, "online")'
  BY <1>2, <1>3 DEF Checked, Holds, At, GettingUid, UidCalls
<1>11. SessionInv(c)'
  <2>1. NameInv(c)' BY <1>2, <1>3, <1>10 DEF NameInv
  <2>2. \A call \in UidCalls : ~UsedBy(c, call)' BY <1>10 DEF UsedBy, GettingUid
  <2> QED BY <1>10, <2>1, <2>2 DEF SessionInv, UidInv, HwidInv, UidCalls
<1>12. \A d \in Clients \ {c} : PairInv(c, d)' /\ PairInv(d, c)'
  <2> SUFFICES ASSUME NEW d \in Clients \ {c} PROVE PairInv(c, d)' /\ PairInv(d, c)' OBVIOUS
  <2>1. LoggingIn(d)' <=> LoggingIn(d) BY <1>3 DEF LoggingIn
  <2>2. LoggingIn(d) /\ session[d].uname = n => n \in overlapped' BY <1>1
  <2> QED BY <1>2, <1>3, <1>10, <2>1, <2>2 DEF PairInv
<1> QED BY <1>3, <1>5, <1>6, <1>7, <1>8, <1>9, <1>11, <1>12, ThreadStep

LEMMA DoesUsernameExistKeeps ==
  ASSUME LoginInv, NEW c \in Clients, DoesUsernameExist(c)
  PROVE  LoginInv'
<1>1. CASE QuietStep(c, Waiting) BY <1>1, IdleKeeps
<1>2. CASE QuietStep(c, [session[c] EXCEPT !.pc = "checkPassword"])
  <2> DEFINE s == [session[c] EXCEPT !.pc = "checkPassword"]
  <2>1. session \in [Clients -> Session] /\ At(c, "doesUsernameExist")
    BY DEF LoginInv, TypeOK, DoesUsernameExist
  <2>2. s \in Session /\ s.pc = "checkPassword" /\ s.uname = session[c].uname
        /\ s.hwid = session[c].hwid
    BY <2>1 DEF Session, Statements
  <2> HIDE DEF s
  <2>3. session'[c] = s /\ overlapped' = overlapped
        /\ \A d \in Clients \ {c} : session'[d] = session[d]
    BY <1>2, <2>1 DEF QuietStep, s
  <2>4. ~Checked(c)' /\ ~Holds(c)' /\ ~GettingUid(c)' /\ session'[c].pc \notin UidCalls
        /\ session'[c].pc # "compare" /\ LoggingIn(c) /\ ~At(c, "online")'
    BY <2>1, <2>2, <2>3 DEF Checked, Holds, At, GettingUid, UidCalls, LoggingIn
  <2>5. SessionInv(c)'
    <3>1. NameInv(c)' BY <2>2, <2>3, <2>4 DEF NameInv, LoginInv, SessionInv
    <3>2. \A call \in UidCalls : ~UsedBy(c, call)' BY <2>4 DEF UsedBy, GettingUid
    <3> QED BY <2>4, <3>1, <3>2 DEF SessionInv, UidInv, HwidInv, UidCalls
  <2>6. \A d \in Clients \ {c} : PairInv(c, d)' /\ PairInv(d, c)'
    <3> SUFFICES ASSUME NEW d \in Clients \ {c} PROVE PairInv(c, d)' /\ PairInv(d, c)' OBVIOUS
    <3>1. LoggingIn(d)' <=> LoggingIn(d) BY <2>3 DEF LoggingIn
    <3> QED BY <2>2, <2>3, <2>4, <3>1 DEF PairInv, LoginInv
  <2> QED BY <1>2, <2>2, <2>5, <2>6, QuietKeeps DEF s
<1> QED
  <2>1. session \in [Clients -> Session] BY DEF LoginInv, TypeOK
  <2> QED BY <1>1, <1>2, <2>1 DEF DoesUsernameExist, Becomes, Goto, QuietStep

(* The account whose password was presented is the one of that name.        *)
LEMMA CheckPasswordKeeps ==
  ASSUME LoginInv, NEW c \in Clients, CheckPassword(c)
  PROVE  LoginInv'
<1>1. CASE QuietStep(c, Waiting) BY <1>1, IdleKeeps
<1>2. ASSUME NEW u \in Matching(c),
             Becomes(c, [session[c] EXCEPT !.pc = "isAccountLocked", !.pwd = NoRow,
                                           !.account = u]),
             knew' = [knew EXCEPT ![u] = knew[u] \cup {session[c].hwid}]
      PROVE  LoginInv'
  <2> DEFINE s == [session[c] EXCEPT !.pc = "isAccountLocked", !.pwd = NoRow, !.account = u]
  <2>1. /\ session' = [session EXCEPT ![c] = s] /\ session[c].pc = "checkPassword"
        /\ UNCHANGED <<users, nextUid, owners, unlocking, overlapped>>
        /\ u \in DOMAIN users /\ users[u].username = session[c].uname
        /\ session \in [Clients -> Session] /\ TypeOK /\ NamesInv
    BY <1>2 DEF CheckPassword, Becomes, tableVars, At, Matching, UidsNamed, LoginInv, TypeOK
  <2>2. u \in 1..(nextUid - 1) /\ u \in 1..MaxUid /\ u \in Nat
    BY <2>1, LoginAssumption DEF TypeOK, NamesInv
  <2>3. /\ s \in Session /\ s.pc = "isAccountLocked" /\ s.uname = session[c].uname
        /\ s.hwid = session[c].hwid /\ s.account = u
    BY <2>1, <2>2 DEF Session, Statements
  <2> HIDE DEF s
  <2>4. session' \in [Clients -> Session] /\ session'[c] = s
        /\ \A d \in Clients \ {c} : session'[d] = session[d]
    BY <2>1, <2>3
  <2>5. session[c].hwid \in Hwids /\ session[c].uname \in Usernames
    BY <2>1 DEF LoginInv, SessionInv, NameInv, LoggingIn
  <2>6. knew' \in [1..MaxUid -> SUBSET Hwids] /\ session[c].hwid \in knew'[u]
        /\ \A v \in 1..MaxUid : knew[v] \subseteq knew'[v]
    BY <1>2, <2>1, <2>2, <2>5 DEF TypeOK
  <2>7. TablesGrow BY <2>1, <2>6 DEF TablesGrow, TypeOK
  <2>8. \A d \in Clients : HwidStays(d) BY <2>1 DEF HwidStays
  <2>9. TypeOK' BY <2>1, <2>4, <2>6 DEF TypeOK
  <2>10. NamesInv' BY <2>1 DEF NamesInv
  <2>11. BindingNeedsPassword' /\ LockNeedsTwoMachines'
    <3>1. \A v \in DOMAIN users : v \in 1..MaxUid BY <2>1, LoginAssumption DEF TypeOK, NamesInv
    <3>2. \A v \in DOMAIN users : owners[users[v].username] \subseteq 1..MaxUid
      BY <2>1, LoginAssumption DEF TypeOK, NamesInv, Row
    <3>3. BindingNeedsPassword' BY <2>1, <2>6, <3>2 DEF LoginInv, BindingNeedsPassword
    <3>4. LockNeedsTwoMachines'
      BY <2>1, <2>6, <3>1 DEF LoginInv, LockNeedsTwoMachines, Unambiguous
    <3> QED BY <3>3, <3>4
  <2>12. /\ ~Holds(c)' /\ ~GettingUid(c)' /\ session'[c].pc \notin UidCalls
         /\ session'[c].pc # "compare" /\ LoggingIn(c) /\ ~At(c, "online")'
    BY <2>1, <2>3, <2>4 DEF Holds, At, GettingUid, UidCalls, LoggingIn
  <2>13. SessionInv(c)'
    <3>1. NameInv(c)'
      BY <2>1, <2>2, <2>3, <2>4, <2>5, <2>6 DEF NameInv, NamesInv
    <3>2. \A call \in UidCalls : ~UsedBy(c, call)' BY <2>12 DEF UsedBy, GettingUid
    <3> QED BY <2>12, <3>1, <3>2 DEF SessionInv, UidInv, HwidInv, UidCalls
  <2>14. \A d \in Clients \ {c} : PairInv(c, d)' /\ PairInv(d, c)'
    <3> SUFFICES ASSUME NEW d \in Clients \ {c} PROVE PairInv(c, d)' /\ PairInv(d, c)' OBVIOUS
    <3>1. (LoggingIn(d)' <=> LoggingIn(d)) /\ (Checked(d)' <=> Checked(d))
          /\ (At(d, "online")' <=> At(d, "online"))
      BY <2>4 DEF LoggingIn, Checked, At
    <3>2. Checked(d) /\ session[d].account = u => session[d].uname = session[c].uname
      BY <2>1 DEF LoginInv, SessionInv, NameInv
    <3>3. PairInv(c, d) /\ PairInv(d, c) BY DEF LoginInv
    <3>4. At(d, "online") /\ session[d].account \in DOMAIN users
            => users[session[d].account].username = session[d].uname
      BY DEF LoginInv, SessionInv, NameInv, At, Checked
    <3>5. At(d, "online") /\ session[d].account \in DOMAIN users
          /\ session[c].uname = session[d].uname => session[d].account = u
      BY <2>1, <3>4 DEF NamesInv
    <3> QED BY <2>1, <2>3, <2>4, <2>12, <3>1, <3>2, <3>3, <3>5 DEF PairInv
  <2> QED BY <2>4, <2>7, <2>8, <2>9, <2>10, <2>11, <2>13, <2>14, ThreadStep
<1> QED BY <1>1, <1>2 DEF CheckPassword, Becomes, QuietStep

(* getUid's caller comes next.                                              *)
LEMMA AskUid ==
  ASSUME LoginInv, NEW c \in Clients, NEW call \in UidCalls, GetUidThen(c, call),
         UNCHANGED <<tableVars, unlocking, knew, overlapped>>, LoggingIn(c), Checked(c),
         session[c].account \in DOMAIN users =>
           /\ call = "getHwidAgain" => users[session[c].account].hwid # NotSet
           /\ call = "lockAccount" /\ Unambiguous(session[c].uname) =>
                \E g, h \in knew[session[c].account] : g # h
           /\ call = "setHwid" /\ session[c].uname \notin overlapped
                => users[session[c].account].hwid = NotSet
  PROVE  LoginInv'
<1> DEFINE s == [session[c] EXCEPT !.pc = "uidExists", !.then = call]
<1>1. session \in [Clients -> Session] BY DEF LoginInv, TypeOK
<1>2. session' = [session EXCEPT ![c] = s] BY <1>1 DEF GetUidThen
<1>3. /\ s \in Session /\ s.pc = "uidExists" /\ s.then = call /\ s.uname = session[c].uname
      /\ s.hwid = session[c].hwid /\ s.account = session[c].account
  BY <1>1 DEF Session, Statements, UidCalls
<1> HIDE DEF s
<1>4. session'[c] = s /\ UNCHANGED <<users, knew, overlapped, owners>> BY <1>1, <1>2 DEF tableVars
<1>5. Checked(c)' /\ ~Holds(c)' /\ GettingUid(c)' /\ session'[c].pc \notin UidCalls
  BY <1>3, <1>4 DEF Checked, Holds, At, GettingUid, UidCalls
<1>6. UidInv(c)' BY <1>3, <1>4, <1>5 DEF UidInv
<1>7. \A k : UsedBy(c, k)' => k \in {"uidExists", call} BY <1>3, <1>4 DEF UsedBy
<1>8. HwidInv(c)' BY <1>3, <1>4, <1>5, <1>7 DEF HwidInv, Unambiguous
<1>9. QuietStep(c, s) BY <1>2 DEF QuietStep
<1> QED BY <1>3, <1>5, <1>6, <1>8, <1>9, FollowKeeps

LEMMA IsAccountLockedKeeps ==
  ASSUME LoginInv, NEW c \in Clients, IsAccountLocked(c)
  PROVE  LoginInv'
<1>1. UNCHANGED <<tableVars, unlocking, knew, overlapped>> /\ LoggingIn(c) /\ Checked(c)
  BY DEF IsAccountLocked, At, LoggingIn, Checked
<1>2. CASE GetUidThen(c, "getHwid") BY <1>1, <1>2, AskUid DEF UidCalls
<1>3. CASE Becomes(c, Waiting) BY <1>1, <1>3, IdleKeeps DEF Becomes, QuietStep
<1> QED BY <1>2, <1>3 DEF IsAccountLocked

(* getUid answers with an account of the name, with the thread's own if     *)
(* that is there, or with DBINTERROR.                                       *)
LEMMA UidAnswered ==
  ASSUME LoginInv, NEW c \in Clients, GettingUid(c), NEW uid \in 1..(nextUid - 1) \cup {DBINTERROR},
         uid \in DOMAIN users => users[uid].username = session[c].uname,
         session[c].account \in DOMAIN users => uid = session[c].account,
         QuietStep(c, [session[c] EXCEPT !.pc = session[c].then, !.uid = uid])
  PROVE  LoginInv'
<1> DEFINE s == [session[c] EXCEPT !.pc = session[c].then, !.uid = uid]
<1>1. session \in [Clients -> Session] /\ NameInv(c) /\ UidInv(c) /\ HwidInv(c) /\ nextUid \in Nat
  BY DEF LoginInv, SessionInv, TypeOK
<1>2. session[c].then \in UidCalls BY <1>1 DEF UidInv
<1>3. uid \in Int BY <1>1 DEF DBINTERROR
<1>4. /\ s \in Session /\ s.pc = session[c].then /\ s.uid = uid /\ s.uname = session[c].uname
      /\ s.hwid = session[c].hwid /\ s.account = session[c].account
  BY <1>1, <1>2, <1>3 DEF Session, Statements, UidCalls
<1> HIDE DEF s
<1>5. session'[c] = s /\ UNCHANGED <<users, nextUid, knew, overlapped, owners>>
  BY <1>1 DEF QuietStep, tableVars, s
<1>6. /\ Checked(c) /\ LoggingIn(c) /\ Checked(c)' /\ ~Holds(c)' /\ ~GettingUid(c)'
      /\ s.pc # "compare" /\ s.pc # "online"
  BY <1>2, <1>4, <1>5 DEF Checked, LoggingIn, Holds, At, GettingUid, UidCalls
<1>7. UidInv(c)' BY <1>4, <1>5, <1>6 DEF UidInv
<1>8. \A k \in UidCalls : UsedBy(c, k)' => UsedBy(c, k)
  BY <1>4, <1>5, <1>6 DEF UsedBy
<1>9. HwidInv(c)' BY <1>1, <1>4, <1>5, <1>6, <1>8 DEF HwidInv, UidCalls, Unambiguous
<1> QED BY <1>4, <1>6, <1>7, <1>9, FollowKeeps DEF s

LEMMA GetUidKeeps ==
  ASSUME LoginInv, NEW c \in Clients, UidExists(c) \/ UidSelect(c)
  PROVE  LoginInv'
<1>1. /\ session \in [Clients -> Session] /\ GettingUid(c) /\ Checked(c)
      /\ UNCHANGED <<tableVars, unlocking, knew, overlapped>>
  BY DEF LoginInv, TypeOK, UidExists, UidSelect, At, GettingUid, Checked
<1>2. session[c].account \in DOMAIN users => UidsNamed(session[c].uname) = {session[c].account}
  <2>1. session[c].account \in DOMAIN users
          => users[session[c].account].username = session[c].uname
    BY <1>1 DEF LoginInv, SessionInv, NameInv
  <2> QED BY <2>1 DEF LoginInv, NamesInv, UidsNamed
<1>3. /\ UidsNamed(session[c].uname) \subseteq 1..(nextUid - 1) /\ DBINTERROR \notin DOMAIN users
      /\ \A u \in UidsNamed(session[c].uname) : users[u].username = session[c].uname
  BY DEF UidsNamed, LoginInv, TypeOK, DBINTERROR
<1>4. CASE UidExists(c)
  <2>1. CASE UidsNamed(session[c].uname) # {}
    <3> DEFINE s == [session[c] EXCEPT !.pc = "uidSelect"]
    <3>1. session' = [session EXCEPT ![c] = s] BY <1>1, <1>4, <2>1 DEF UidExists, Goto
    <3>2. /\ s \in Session /\ s.pc = "uidSelect" /\ s.then = session[c].then
          /\ s.uname = session[c].uname /\ s.hwid = session[c].hwid
          /\ s.account = session[c].account
      BY <1>1 DEF Session, Statements
    <3> HIDE DEF s
    <3>3. session'[c] = s /\ UNCHANGED <<users, knew, overlapped, owners>>
      BY <1>1, <3>1 DEF tableVars
    <3>4. /\ LoggingIn(c) /\ Checked(c)' /\ ~Holds(c)' /\ GettingUid(c)'
          /\ session'[c].pc \notin UidCalls
      BY <1>1, <3>2, <3>3 DEF Checked, LoggingIn, Holds, At, GettingUid, UidCalls
    <3>5. UidInv(c)' BY <1>1, <3>2, <3>3, <3>4 DEF UidInv, LoginInv, SessionInv
    <3>6. \A k \in UidCalls : UsedBy(c, k)' => UsedBy(c, k)
      BY <1>1, <3>2, <3>3, <3>4 DEF UsedBy
    <3>7. HwidInv(c)'
      BY <3>2, <3>3, <3>4, <3>6 DEF HwidInv, UidCalls, LoginInv, SessionInv, Unambiguous
    <3>8. QuietStep(c, s) BY <1>1, <3>1 DEF QuietStep
    <3> QED BY <1>1, <3>2, <3>4, <3>5, <3>7, <3>8, FollowKeeps
  <2>2. CASE UidsNamed(session[c].uname) = {}
    <3>1. session[c].account \notin DOMAIN users BY <1>2, <2>2
    <3>2. QuietStep(c, [session[c] EXCEPT !.pc = session[c].then, !.uid = DBINTERROR])
      BY <1>1, <1>4, <2>2 DEF UidExists, Becomes, QuietStep
    <3> QED BY <1>1, <1>3, <3>1, <3>2, UidAnswered
  <2> QED BY <2>1, <2>2
<1>5. CASE UidSelect(c)
  <2>1. CASE Becomes(c, Closed) BY <1>1, <2>1, IdleKeeps DEF Becomes, QuietStep
  <2>2. ASSUME NEW u \in UidsNamed(session[c].uname),
               session' = [session EXCEPT ![c].pc = session[c].then, ![c].uid = u]
        PROVE  LoginInv'
    <3>1. session[c].account \in DOMAIN users => u = session[c].account BY <1>2
    <3>2. QuietStep(c, [session[c] EXCEPT !.pc = session[c].then, !.uid = u])
      BY <1>1, <2>2 DEF QuietStep
    <3> QED BY <1>1, <1>3, <3>1, <3>2, UidAnswered
  <2> QED BY <1>5, <2>1, <2>2 DEF UidSelect
<1> QED BY <1>4, <1>5

(* The hwid read is that of the thread's own account, if it is still there. *)
LEMMA HwidRead ==
  ASSUME LoginInv, NEW c \in Clients, session[c].pc \in {"getHwid", "getHwidAgain"},
         QuietStep(c, [session[c] EXCEPT !.pc = "compare", !.cHwid = getHwid(session[c].uid)]),
         session[c].account \in DOMAIN users => users[session[c].account].hwid # NotSet
  PROVE  LoginInv'
<1> DEFINE h == getHwid(session[c].uid)
           s == [session[c] EXCEPT !.pc = "compare", !.cHwid = h]
           a == session[c].account
           n == session[c].uname
<1>1. /\ session \in [Clients -> Session] /\ NameInv(c) /\ UidInv(c) /\ TypeOK
      /\ BindingNeedsPassword
  BY DEF LoginInv, SessionInv, TypeOK
<1>2. Checked(c) /\ LoggingIn(c) /\ session[c].pc \in UidCalls
  BY DEF Checked, LoggingIn, UidCalls
<1>3. a \in DOMAIN users => h = users[a].hwid BY <1>1, <1>2 DEF UidInv, getHwid
<1>4. h \in Hwids \cup {NotSet, NoRow} BY <1>1 DEF TypeOK, Row, getHwid
<1>5. a \in DOMAIN users /\ Unambiguous(n) => h \in knew[a]
  <2> SUFFICES ASSUME a \in DOMAIN users, Unambiguous(n) PROVE h \in knew[a] OBVIOUS
  <2>1. users[a].username = n /\ a \in owners[n] BY <1>1, <1>2 DEF NameInv
  <2>2. users[a].hwid # NotSet OBVIOUS
  <2>3. PICK v \in owners[n] : users[a].hwid \in knew[v]
    <3>1. users[a].hwid = NotSet \/ \E v \in owners[users[a].username] : users[a].hwid \in knew[v]
      BY <1>1 DEF BindingNeedsPassword
    <3> HIDE DEF a, n
    <3> QED BY <2>1, <2>2, <3>1
  <2>4. v = a BY <2>1 DEF Unambiguous
  <2> QED BY <1>3, <2>3, <2>4
<1> HIDE DEF h
<1>6. /\ s \in Session /\ s.pc = "compare" /\ s.cHwid = h /\ s.uname = n
      /\ s.hwid = session[c].hwid /\ s.account = a
  BY <1>1, <1>4 DEF Session
<1> HIDE DEF s, a, n
<1>7. session'[c] = s /\ UNCHANGED <<users, knew, overlapped, owners>>
  BY <1>1 DEF QuietStep, tableVars, s, h
<1>8. Checked(c)' /\ ~GettingUid(c)' /\ session'[c].pc \notin UidCalls
      /\ (Holds(c)' => h = session[c].hwid)
  BY <1>6, <1>7 DEF Checked, Holds, At, GettingUid, UidCalls
<1>9. Holds(c)' /\ a \in DOMAIN users => users[a].hwid = session[c].hwid BY <1>3, <1>8
<1>10. UidInv(c)' BY <1>8 DEF UidInv
<1>11. \A k \in UidCalls : ~UsedBy(c, k)' BY <1>8 DEF UsedBy
<1>12. HwidInv(c)'
  BY <1>5, <1>6, <1>7, <1>9, <1>11 DEF HwidInv, UidCalls, Unambiguous
<1> QED BY <1>2, <1>6, <1>8, <1>10, <1>12, FollowKeeps DEF s, h, a, n

LEMMA GetHwidKeeps ==
  ASSUME LoginInv, NEW c \in Clients, GetHwid(c)
  PROVE  LoginInv'
<1>1. /\ UNCHANGED <<tableVars, unlocking, knew, overlapped>> /\ LoggingIn(c) /\ Checked(c)
      /\ session[c].pc = "getHwid" /\ session[c].pc \in UidCalls
      /\ session \in [Clients -> Session] /\ UidInv(c)
  BY DEF GetHwid, At, LoggingIn, Checked, UidCalls, LoginInv, SessionInv, TypeOK
<1>2. session[c].account \in DOMAIN users =>
        getHwid(session[c].uid) = users[session[c].account].hwid
  BY <1>1 DEF UidInv, getHwid
<1>3. CASE getHwid(session[c].uid) = NotSet
  <2>1. GetUidThen(c, "setHwid") BY <1>3 DEF GetHwid
  <2> QED BY <1>1, <1>2, <1>3, <2>1, AskUid DEF UidCalls
<1>4. CASE getHwid(session[c].uid) # NotSet
  <2>1. QuietStep(c, [session[c] EXCEPT !.pc = "compare", !.cHwid = getHwid(session[c].uid)])
    BY <1>1, <1>4 DEF GetHwid, QuietStep
  <2> QED BY <1>1, <1>2, <1>4, <2>1, HwidRead
<1> QED BY <1>3, <1>4

LEMMA GetHwidAgainKeeps ==
  ASSUME LoginInv, NEW c \in Clients, GetHwidAgain(c)
  PROVE  LoginInv'
<1>1. session[c].pc = "getHwidAgain" /\ HwidInv(c) /\ session \in [Clients -> Session]
  BY DEF GetHwidAgain, At, LoginInv, SessionInv, TypeOK
<1>2. session[c].account \in DOMAIN users => users[session[c].account].hwid # NotSet
  BY <1>1 DEF HwidInv, UsedBy
<1>3. QuietStep(c, [session[c] EXCEPT !.pc = "compare", !.cHwid = getHwid(session[c].uid)])
  BY <1>1 DEF GetHwidAgain, QuietStep
<1> QED BY <1>1, <1>2, <1>3, HwidRead

LEMMA CompareKeeps ==
  ASSUME LoginInv, NEW c \in Clients, WrongHwid(c) \/ RightHwid(c)
  PROVE  LoginInv'
<1>1. /\ UNCHANGED <<tableVars, unlocking, knew, overlapped>> /\ LoggingIn(c) /\ Checked(c)
      /\ session[c].pc = "compare" /\ session \in [Clients -> Session]
      /\ NameInv(c) /\ UidInv(c) /\ HwidInv(c)
  BY DEF WrongHwid, RightHwid, At, LoggingIn, Checked, LoginInv, SessionInv, TypeOK
<1>2. CASE WrongHwid(c)
  <2>1. GetUidThen(c, "lockAccount") /\ session[c].cHwid # session[c].hwid
    BY <1>2 DEF WrongHwid
  <2>2. session[c].account \in DOMAIN users /\ Unambiguous(session[c].uname) =>
          \E g, h \in knew[session[c].account] : g # h
    BY <1>1, <2>1 DEF NameInv, HwidInv
  <2> QED BY <1>1, <2>1, <2>2, AskUid DEF UidCalls
<1>3. CASE RightHwid(c)
  <2>1. CASE Becomes(c, Waiting) BY <1>1, <2>1, IdleKeeps DEF Becomes, QuietStep
  <2>2. CASE Goto(c, "online")
    <3> DEFINE s == [session[c] EXCEPT !.pc = "online"]
    <3>1. session' = [session EXCEPT ![c] = s] BY <1>1, <2>2 DEF Goto
    <3>2. /\ s \in Session /\ s.pc = "online" /\ s.uname = session[c].uname
          /\ s.hwid = session[c].hwid /\ s.account = session[c].account
      BY <1>1 DEF Session
    <3> HIDE DEF s
    <3>3. session'[c] = s /\ UNCHANGED <<users, knew, overlapped, owners>>
      BY <1>1, <3>1 DEF tableVars
    <3>4. Checked(c)' /\ ~GettingUid(c)' /\ session'[c].pc \notin UidCalls /\ Holds(c)
      BY <1>1, <1>3, <3>2, <3>3 DEF Checked, Holds, At, GettingUid, UidCalls, RightHwid
    <3>5. UidInv(c)' BY <3>4 DEF UidInv
    <3>6. \A k \in UidCalls : ~UsedBy(c, k)' BY <3>4 DEF UsedBy
    <3>7. HwidInv(c)' BY <1>1, <3>2, <3>3, <3>4, <3>6 DEF HwidInv, UidCalls, Unambiguous
    <3>8. QuietStep(c, s) BY <1>1, <3>1 DEF QuietStep
    <3> QED BY <1>1, <3>2, <3>4, <3>5, <3>7, <3>8, FollowKeeps
  <2> QED BY <1>3, <2>1, <2>2 DEF RightHwid
<1> QED BY <1>2, <1>3

-----------------------------------------------------------------------------
(* Writes to the account *)

(* An update of one row of users that leaves its name alone.                *)
LEMMA UpdateTables ==
  ASSUME LoginInv, DOMAIN users' = DOMAIN users,
         \A u \in DOMAIN users : users'[u] \in Row /\ users'[u].username = users[u].username,
         UNCHANGED <<nextUid, owners, knew, overlapped>>, session' \in [Clients -> Session],
         unlocking' \in Usernames \cup {NoRow}
  PROVE  TablesGrow /\ TypeOK' /\ NamesInv'
<1>1. TypeOK /\ NamesInv BY DEF LoginInv
<1>2. TablesGrow BY <1>1 DEF TablesGrow, TypeOK
<1>3. TypeOK' BY <1>1 DEF TypeOK
<1>4. NamesInv' BY <1>1 DEF NamesInv
<1> QED BY <1>2, <1>3, <1>4

(* No other thread that relies on the account's hwid logs its name in.      *)
LEMMA SetHwidKeeps ==
  ASSUME LoginInv, NEW c \in Clients, SetHwid(c)
  PROVE  LoginInv'
<1> DEFINE s == [session[c] EXCEPT !.pc = "uidExists", !.then = "getHwidAgain"]
           a == session[c].account
           h == session[c].hwid
           uid == session[c].uid
           n == session[c].uname
<1>1. /\ session \in [Clients -> Session] /\ NameInv(c) /\ UidInv(c) /\ HwidInv(c) /\ TypeOK
      /\ session[c].pc = "setHwid" /\ LoggingIn(c) /\ Checked(c) /\ UsedBy(c, "setHwid")
      /\ session[c].pc \in UidCalls
      /\ UNCHANGED <<nextUid, owners, unlocking, knew, overlapped>>
  BY DEF LoginInv, SessionInv, TypeOK, SetHwid, At, LoggingIn, Checked, UsedBy, UidCalls
<1>2. session' = [session EXCEPT ![c] = s] BY <1>1 DEF SetHwid, GetUidThen
<1>3. /\ s \in Session /\ s.pc = "uidExists" /\ s.then = "getHwidAgain"
      /\ s.uname = n /\ s.hwid = h /\ s.account = a
  BY <1>1 DEF Session, Statements
<1>4. h \in Hwids /\ h \in knew[a] /\ a \in owners[n] BY <1>1 DEF NameInv
<1>5. /\ uid \in DOMAIN users => users[uid].username = n
      /\ a \in DOMAIN users => uid = a
  BY <1>1 DEF UidInv
<1>6. /\ DOMAIN users' = DOMAIN users
      /\ \A u \in DOMAIN users :
           users'[u] = IF u = uid THEN [users[u] EXCEPT !.hwid = h] ELSE users[u]
  BY <1>1 DEF SetHwid, setHwid
<1> HIDE DEF s
<1>7. session' \in [Clients -> Session] /\ session'[c] = s
      /\ \A d \in Clients \ {c} : session'[d] = session[d]
  BY <1>1, <1>2, <1>3
<1>8. \A u \in DOMAIN users :
        /\ users'[u] \in Row /\ users'[u].username = users[u].username
        /\ users'[u].locked = users[u].locked
        /\ users'[u].hwid = IF u = uid THEN h ELSE users[u].hwid
  <2> SUFFICES ASSUME NEW u \in DOMAIN users
               PROVE  /\ users'[u] \in Row /\ users'[u].username = users[u].username
                      /\ users'[u].locked = users[u].locked
                      /\ users'[u].hwid = IF u = uid THEN h ELSE users[u].hwid
    OBVIOUS
  <2>1. users[u] \in Row BY <1>1 DEF TypeOK
  <2> QED BY <1>4, <1>6, <2>1 DEF Row
<1> HIDE DEF a, h, uid, n
<1>9. TablesGrow /\ TypeOK' /\ NamesInv'
  BY <1>1, <1>6, <1>7, <1>8, UpdateTables DEF TypeOK
<1>10. BindingNeedsPassword'
  BY <1>1, <1>4, <1>5, <1>6, <1>8 DEF LoginInv, BindingNeedsPassword
<1>11. LockNeedsTwoMachines'
  BY <1>1, <1>6, <1>8 DEF LoginInv, LockNeedsTwoMachines, Unambiguous
<1>12. \A d \in Clients \ {c} : HwidStays(d)
  <2> SUFFICES ASSUME NEW d \in Clients \ {c}, session[d].account \in DOMAIN users,
                      session[d].account = uid,
                      UsedBy(d, "setHwid") \/ Holds(d), session[d].uname \notin overlapped
               PROVE  FALSE
    BY <1>4, <1>8, LoginAssumption DEF HwidStays
  <2>1. PairInv(c, d) /\ HwidInv(d) /\ NameInv(d) BY DEF LoginInv, SessionInv
  <2>2. Checked(d) BY DEF UsedBy, GettingUid, Holds, Checked, At
  <2>3. n = session[d].uname BY <1>5, <2>1, <2>2 DEF NameInv
  <2>4. ~LoggingIn(d) BY <1>1, <2>1, <2>3 DEF PairInv, n
  <2>5. At(d, "online") /\ Holds(d)
    BY <2>4 DEF UsedBy, GettingUid, Holds, At, LoggingIn
  <2>6. a = session[d].account BY <1>1, <2>1, <2>3, <2>5 DEF PairInv, a, n
  <2>7. users[a].hwid = session[d].hwid BY <2>1, <2>5, <2>6 DEF HwidInv
  <2>8. users[a].hwid = NotSet BY <1>1, <2>3, <2>6 DEF HwidInv, a, n
  <2>9. session[d].hwid \in Hwids BY <2>1, <2>5 DEF NameInv
  <2> QED BY <2>7, <2>8, <2>9, LoginAssumption
<1>13. Checked(c)' /\ ~Holds(c)' /\ GettingUid(c)' /\ session'[c].pc \notin UidCalls
  BY <1>3, <1>7 DEF Checked, Holds, At, GettingUid, UidCalls
<1>14. SessionInv(c)'
  <2>1. NameInv(c)' BY <1>1, <1>3, <1>6, <1>7, <1>8 DEF NameInv, a, h, n
  <2>2. UidInv(c)' BY <1>3, <1>7, <1>13 DEF UidInv, UidCalls
  <2>3. \A k : UsedBy(c, k)' => k \in {"uidExists", "getHwidAgain"} BY <1>3, <1>7 DEF UsedBy
  <2>4. HwidInv(c)'
    BY <1>3, <1>4, <1>5, <1>6, <1>7, <1>8, <1>13, <2>3, LoginAssumption DEF HwidInv
  <2> QED BY <2>1, <2>2, <2>4 DEF SessionInv
<1>15. \A d \in Clients \ {c} : PairInv(c, d)' /\ PairInv(d, c)'
  BY <1>1, <1>3, <1>6, <1>7, PairFollows DEF a, n
<1> QED BY <1>7, <1>9, <1>10, <1>11, <1>12, <1>14, <1>15, ThreadStep

LEMMA LockAccountKeeps ==
  ASSUME LoginInv, NEW c \in Clients, LockAccount(c)
  PROVE  LoginInv'
<1> DEFINE a == session[c].account
           uid == session[c].uid
           n == session[c].uname
<1>1. /\ session \in [Clients -> Session] /\ NameInv(c) /\ UidInv(c) /\ HwidInv(c)
      /\ TypeOK /\ Checked(c)
      /\ session[c].pc \in UidCalls /\ UsedBy(c, "lockAccount")
      /\ UNCHANGED <<nextUid, owners, unlocking, knew, overlapped>>
      /\ session' = [session EXCEPT ![c] = Waiting]
  BY DEF LoginInv, SessionInv, TypeOK, LockAccount, At, UsedBy, UidCalls, Becomes, Checked
<1>2. session' \in [Clients -> Session] /\ session'[c] = Waiting
      /\ \A d \in Clients \ {c} : session'[d] = session[d]
  BY <1>1, IdleTypes
<1>3. /\ uid \in DOMAIN users => users[uid].username = n
      /\ a \in DOMAIN users => uid = a
      /\ a \in owners[n]
  BY <1>1 DEF UidInv, NameInv
<1>4. /\ DOMAIN users' = DOMAIN users
      /\ \A u \in DOMAIN users :
           users'[u] = IF u = uid THEN [users[u] EXCEPT !.locked = TRUE] ELSE users[u]
  BY <1>1 DEF LockAccount, lockAccount
<1>5. \A u \in DOMAIN users :
        /\ users'[u] \in Row /\ users'[u].username = users[u].username
        /\ users'[u].hwid = users[u].hwid
        /\ users'[u].locked => users[u].locked \/ u = uid
  <2> SUFFICES ASSUME NEW u \in DOMAIN users
               PROVE  /\ users'[u] \in Row /\ users'[u].username = users[u].username
                      /\ users'[u].hwid = users[u].hwid
                      /\ users'[u].locked => users[u].locked \/ u = uid
    OBVIOUS
  <2>1. users[u] \in Row BY <1>1 DEF TypeOK
  <2> QED BY <1>4, <2>1 DEF Row
<1>6. TablesGrow /\ TypeOK' /\ NamesInv' BY <1>1, <1>2, <1>4, <1>5, UpdateTables DEF TypeOK
<1> HIDE DEF a, uid, n
<1>7. BindingNeedsPassword' BY <1>1, <1>4, <1>5 DEF LoginInv, BindingNeedsPassword
<1>8. uid \in DOMAIN users /\ Unambiguous(n) => \E g, h \in knew[uid] : g # h
  <2> SUFFICES ASSUME uid \in DOMAIN users, Unambiguous(n) PROVE \E g, h \in knew[uid] : g # h
    OBVIOUS
  <2>1. uid \in owners[n] BY <1>3 DEF LoginInv, NamesInv
  <2>2. uid = a BY <1>3, <2>1 DEF Unambiguous
  <2> QED BY <1>1, <2>2 DEF HwidInv, a, n
<1>9. LockNeedsTwoMachines'
  BY <1>1, <1>3, <1>4, <1>5, <1>8 DEF LoginInv, LockNeedsTwoMachines, Unambiguous
<1>10. \A d \in Clients : HwidStays(d) BY <1>4, <1>5 DEF HwidStays
<1> QED BY <1>2, <1>6, <1>7, <1>9, <1>10, IdleSession, ThreadStep

-----------------------------------------------------------------------------
(* The bot, the account checker and the process *)

(* The uid is new, and no account has the name; one that is gone may have   *)
(* had it.                                                                  *)
LEMMA RegisterKeeps ==
  ASSUME LoginInv, NEW n \in Usernames, NEW p \in Passwords, NEW paid \in BOOLEAN,
         Register(n, p, paid)
  PROVE  LoginInv'
<1> DEFINE row == [username |-> n, pwdhash |-> p, hwid |-> NotSet, locked |-> FALSE, paid |-> paid]
<1>1. /\ users' = [u \in DOMAIN users \cup {nextUid} |-> IF u = nextUid THEN row ELSE users[u]]
      /\ nextUid' = nextUid + 1 /\ nextUid <= MaxUid
      /\ owners' = [owners EXCEPT ![n] = owners[n] \cup {nextUid}]
      /\ \A u \in DOMAIN users : users[u].username # n
      /\ UNCHANGED <<session, unlocking, knew, overlapped>>
      /\ TypeOK /\ NamesInv /\ nextUid \in Nat \ {0}
  BY DEF Register, UidsNamed, LoginInv, TypeOK
<1>2. row \in Row /\ row.username = n /\ row.hwid = NotSet /\ row.locked = FALSE BY DEF Row
<1> HIDE DEF row
<1>3. nextUid \notin DOMAIN users /\ nextUid' \in Nat \ {0} /\ nextUid' <= MaxUid + 1
  BY <1>1, LoginAssumption DEF TypeOK
<1>4. DOMAIN users' = DOMAIN users \cup {nextUid} /\ users'[nextUid] = row
      /\ \A u \in DOMAIN users : users'[u] = users[u]
  BY <1>1, <1>3
<1>5. TablesGrow BY <1>1, <1>2, <1>3, <1>4 DEF TablesGrow, TypeOK
<1>6. TypeOK'
  <2>1. DOMAIN users' \subseteq 1..(nextUid' - 1) BY <1>1, <1>4 DEF TypeOK
  <2>2. \A u \in DOMAIN users' : users'[u] \in Row BY <1>1, <1>2, <1>4 DEF TypeOK
  <2>3. owners' \in [Usernames -> SUBSET (1..(nextUid' - 1))] BY <1>1 DEF TypeOK
  <2> QED BY <1>1, <1>3, <2>1, <2>2, <2>3 DEF TypeOK
<1>7. \A u \in DOMAIN users : users[u].username \in Usernames BY <1>1 DEF TypeOK, Row
<1>8. NamesInv' BY <1>1, <1>2, <1>3, <1>4, <1>7 DEF NamesInv, TypeOK
<1>9. \A m \in Usernames : owners[m] \subseteq owners'[m] BY <1>1 DEF TypeOK
<1>10. BindingNeedsPassword'
  <2> SUFFICES ASSUME NEW u \in DOMAIN users'
               PROVE  \/ users'[u].hwid = NotSet
                      \/ \E v \in owners'[users'[u].username] : users'[u].hwid \in knew'[v]
    BY DEF BindingNeedsPassword
  <2>1. CASE u = nextUid BY <1>2, <1>4, <2>1
  <2>2. CASE u \in DOMAIN users
    <3>1. users[u].hwid = NotSet \/ \E v \in owners[users[u].username] : users[u].hwid \in knew[v]
      BY <2>2 DEF LoginInv, BindingNeedsPassword
    <3>2. owners[users[u].username] \subseteq owners'[users[u].username] BY <1>7, <1>9, <2>2
    <3>3. users'[u] = users[u] /\ knew' = knew BY <1>1, <1>4, <2>2
    <3> QED BY <3>1, <3>2, <3>3
  <2> QED BY <1>4, <2>1, <2>2
<1>11. LockNeedsTwoMachines'
  <2> SUFFICES ASSUME NEW u \in DOMAIN users', users'[u].locked, Unambiguous(users[u].username)'
               PROVE  \E g, h \in knew'[u] : g # h
    BY DEF LockNeedsTwoMachines
  <2>1. u \in DOMAIN users /\ users'[u] = users[u] /\ knew' = knew BY <1>1, <1>2, <1>4
  <2>2. Unambiguous(users[u].username) BY <1>7, <1>9, <2>1 DEF Unambiguous
  <2> QED BY <2>1, <2>2 DEF LoginInv, LockNeedsTwoMachines
<1>12. \A d \in Clients : HwidStays(d) BY <1>4 DEF HwidStays
<1> QED BY <1>1, <1>5, <1>6, <1>8, <1>10, <1>11, <1>12, TableStep

LEMMA RemoveKeeps ==
  ASSUME LoginInv, NEW uid \in DOMAIN users, Remove(uid)
  PROVE  LoginInv'
<1>1. /\ users' = [u \in DOMAIN users \ {uid} |-> users[u]]
      /\ UNCHANGED <<nextUid, owners, session, unlocking, knew, overlapped>> /\ TypeOK /\ NamesInv
  BY DEF Remove, LoginInv
<1>2. users[uid] \in Row /\ users[uid].username \in Usernames BY <1>1 DEF TypeOK, Row
<1>3. DOMAIN users' = DOMAIN users \ {uid} /\ \A u \in DOMAIN users' : users'[u] = users[u]
  BY <1>1
<1>4. TablesGrow BY <1>1, <1>3 DEF TablesGrow, TypeOK
<1>5. TypeOK' BY <1>1, <1>2, <1>3 DEF TypeOK
<1>6. NamesInv' BY <1>1, <1>3 DEF NamesInv
<1>7. BindingNeedsPassword' BY <1>1, <1>3 DEF LoginInv, BindingNeedsPassword
<1>8. LockNeedsTwoMachines' BY <1>1, <1>3 DEF LoginInv, LockNeedsTwoMachines, Unambiguous
<1>9. \A d \in Clients : HwidStays(d) BY <1>3 DEF HwidStays
<1> QED BY <1>1, <1>4, <1>5, <1>6, <1>7, <1>8, <1>9, TableStep

LEMMA UnlockKeeps ==
  ASSUME LoginInv, (\E n \in Usernames : Unlock(n)) \/ UnlockAccount
  PROVE  LoginInv'
<1>1. TypeOK /\ session \in [Clients -> Session] BY DEF LoginInv, TypeOK
<1>2. UNCHANGED <<nextUid, owners, session, knew, overlapped>>
      /\ unlocking' \in Usernames \cup {NoRow}
  BY DEF Unlock, UnlockAccount, tableVars
<1>3. /\ DOMAIN users' = DOMAIN users
      /\ \A u \in DOMAIN users : users'[u] \in {users[u], [users[u] EXCEPT !.locked = FALSE]}
  BY DEF Unlock, UnlockAccount, tableVars
<1>4. \A u \in DOMAIN users :
        /\ users'[u] \in Row /\ users'[u].username = users[u].username
        /\ users'[u].hwid = users[u].hwid /\ (users'[u].locked => users[u].locked)
  <2> SUFFICES ASSUME NEW u \in DOMAIN users
               PROVE  /\ users'[u] \in Row /\ users'[u].username = users[u].username
                      /\ users'[u].hwid = users[u].hwid /\ (users'[u].locked => users[u].locked)
    OBVIOUS
  <2>1. users[u] \in Row BY <1>1 DEF TypeOK
  <2> QED BY <1>3, <2>1 DEF Row
<1>5. TablesGrow /\ TypeOK' /\ NamesInv' BY <1>1, <1>2, <1>3, <1>4, UpdateTables
<1>6. BindingNeedsPassword' BY <1>2, <1>3, <1>4 DEF LoginInv, BindingNeedsPassword
<1>7. LockNeedsTwoMachines' BY <1>2, <1>3, <1>4 DEF LoginInv, LockNeedsTwoMachines, Unambiguous
<1>8. \A d \in Clients : HwidStays(d) BY <1>3, <1>4 DEF HwidStays
<1> QED BY <1>2, <1>5, <1>6, <1>7, <1>8, TableStep

(* Of the sessions nothing is left, and the tables are what they were.      *)
LEMMA ExitKeeps ==
  ASSUME LoginInv, Exit
  PROVE  LoginInv'
<1>1. session' = [c \in Clients |-> Closed] /\ unlocking' = NoRow
      /\ UNCHANGED <<users, nextUid, owners, knew, overlapped>> /\ TypeOK /\ NamesInv
  BY DEF Exit, tableVars, LoginInv
<1>2. TypeOK' BY <1>1, IdleTypes DEF TypeOK
<1>3. NamesInv' BY <1>1 DEF NamesInv
<1>4. BindingNeedsPassword' /\ LockNeedsTwoMachines'
  BY <1>1 DEF LoginInv, BindingNeedsPassword, LockNeedsTwoMachines, Unambiguous
<1>5. \A c \in Clients : SessionInv(c)' /\ \A d \in Clients : PairInv(c, d)'
  BY <1>1, IdleSession
<1> QED BY <1>2, <1>3, <1>4, <1>5 DEF LoginInv

LEMMA UnchangedKeeps == LoginInv /\ UNCHANGED vars => LoginInv'
<1> SUFFICES ASSUME LoginInv, UNCHANGED vars PROVE LoginInv' OBVIOUS
<1>1. UNCHANGED <<users, nextUid, owners, session, unlocking, knew, overlapped>>
      /\ TypeOK /\ NamesInv
  BY DEF vars, LoginInv
<1>2. TypeOK' BY <1>1 DEF TypeOK
<1>3. NamesInv' BY <1>1 DEF NamesInv
<1>4. BindingNeedsPassword' /\ LockNeedsTwoMachines'
  BY <1>1 DEF LoginInv, BindingNeedsPassword, LockNeedsTwoMachines, Unambiguous
<1>5. TablesGrow BY <1>1 DEF TablesGrow, TypeOK
<1>6. \A d \in Clients : HwidStays(d) BY <1>1 DEF HwidStays
<1> QED BY <1>1, <1>2, <1>3, <1>4, <1>5, <1>6, TableStep

LEMMA LoginInductive == LoginInv /\ [Next]_vars => LoginInv'
<1> SUFFICES ASSUME LoginInv, [Next]_vars PROVE LoginInv' OBVIOUS
<1>1. ASSUME NEW c \in Clients, LoginStep(c) PROVE LoginInv'
  BY <1>1, DoesUsernameExistKeeps, CheckPasswordKeeps, IsAccountLockedKeeps, GetUidKeeps,
     GetHwidKeeps, SetHwidKeeps, GetHwidAgainKeeps, CompareKeeps, LockAccountKeeps
  DEF LoginStep
<1>2. ASSUME NEW c \in Clients, Connect(c) \/ Disconnect(c) PROVE LoginInv'
  BY <1>2, ConnectionKeeps
<1>3. ASSUME NEW c \in Clients,
             \E n \in Usernames, p \in Passwords, h \in Hwids : ReceiveLogin(c, n, p, h)
      PROVE  LoginInv'
  BY <1>3, ReceiveLoginKeeps
<1>4. ASSUME \E n \in Usernames, p \in Passwords, paid \in BOOLEAN : Register(n, p, paid)
      PROVE  LoginInv'
  BY <1>4, RegisterKeeps
<1>5. ASSUME \E u \in DOMAIN users : Remove(u) PROVE LoginInv' BY <1>5, RemoveKeeps
<1>6. ASSUME (\E n \in Usernames : Unlock(n)) \/ UnlockAccount PROVE LoginInv'
  BY <1>6, UnlockKeeps
<1>7. CASE Exit BY <1>7, ExitKeeps
<1>8. CASE UNCHANGED vars BY <1>8, UnchangedKeeps
<1> QED BY <1>1, <1>2, <1>3, <1>4, <1>5, <1>6, <1>7, <1>8 DEF Next

-----------------------------------------------------------------------------
(* An account is bound only to a machine that presented the password of an  *)
(* account of its name, though another may have the name by the time it is  *)
(* looked up again (clienthandler.cpp:218, 236-240).                        *)
THEOREM BindingSound == Spec => []BindingNeedsPassword
<1>1. LoginInv => BindingNeedsPassword BY DEF LoginInv
<1> QED BY <1>1, LoginInit, LoginInductive, PTL DEF Spec

(* An account is locked only after two machines presented its password, as  *)
(* long as its name never meant another account                             *)
(* (clienthandler.cpp:243-252).                                             *)
THEOREM LockingSound == Spec => []LockNeedsTwoMachines
<1>1. LoginInv => LockNeedsTwoMachines BY DEF LoginInv
<1> QED BY <1>1, LoginInit, LoginInductive, PTL DEF Spec

(* Two connections that an account is let in with come from one machine     *)
(* while the account is there, if no two threads logged its name in at the  *)
(* same time (clienthandler.cpp:236-255).                                   *)
THEOREM OneMachine == Spec => []OneMachineOnline
<1>1. LoginInv => OneMachineOnline
  <2> SUFFICES ASSUME LoginInv, NEW c \in Clients, NEW d \in Clients,
                      At(c, "online"), At(d, "online"),
                      session[c].account = session[d].account,
                      session[c].account \in DOMAIN users,
                      session[c].uname \notin overlapped
               PROVE  session[c].hwid = session[d].hwid
    BY DEF OneMachineOnline
  <2>1. HwidInv(c) /\ HwidInv(d) BY DEF LoginInv, SessionInv
  <2>2. session[c].uname = session[d].uname
    BY DEF LoginInv, PairInv, Checked, At
  <2> QED BY <2>1, <2>2 DEF HwidInv, Holds
<1> QED BY <1>1, LoginInit, LoginInductive, PTL DEF Spec

(* The types of the tables and of the sessions.                             *)
THEOREM LoginTypeCorrect == Spec => []TypeOK
<1>1. LoginInv => TypeOK BY DEF LoginInv
<1> QED BY <1>1, LoginInit, LoginInductive, PTL DEF Spec
================================================================================
