----------------------------- MODULE OrderChecker -----------------------------
(***************************************************************************)
(* The order feed (class orderchecker, clienthandler.cpp): one TCP client   *)
(* reports orders, which are entered into table orders if they are new.    *)
(*                                                                         *)
(* getOrders() (server.cpp) constructs the object, whose constructor        *)
(* already runs start(), and then runs start() once more: feed.run is 1 in  *)
(* the first call and 2 in the second.  The reported order, its level and   *)
(* whether it is paid come from a program outside this repository.          *)
(***************************************************************************)
EXTENDS DbManager

VARIABLES
  feed,         \* the orders thread
  reportedPaid  \* history: orders the feed has reported as paid

feedVars == <<feed, reportedPaid>>

NoMsg == [orderid |-> Null, level |-> 0, paid |-> FALSE]

FeedMsg == [orderid : OrderIds \cup {Null}, level : Levels \cup {0}, paid : BOOLEAN]

FeedStart == [pc |-> "accept", run |-> 1, msg |-> NoMsg]

FeedTypeOK ==
  /\ feed \in [pc : {"accept", "recv", "addOrder", "ended"}, run : 1..2, msg : FeedMsg]
  /\ reportedPaid \subseteq OrderIds

FeedInit == feed = FeedStart /\ reportedPaid = {}

FeedAccept ==
  /\ feed.pc = "accept"
  /\ feed' = [feed EXCEPT !.pc = "recv"]
  /\ UNCHANGED <<dbVars, reportedPaid>>

(* A report arrives and doesOrderExist is asked: a known order is ignored,  *)
(* whatever the report says of its payment.                                *)
FeedRecv(o, lvl, paid) ==
  /\ feed.pc = "recv"
  /\ reportedPaid' = IF paid THEN reportedPaid \cup {o} ELSE reportedPaid
  /\ IF doesOrderExist(o)
     THEN UNCHANGED feed
     ELSE feed' = [feed EXCEPT !.pc = "addOrder",
                               !.msg = [orderid |-> o, level |-> lvl, paid |-> paid]]
  /\ UNCHANGED dbVars

FeedAddOrder ==
  /\ feed.pc = "addOrder"
  /\ addOrder(feed.msg.orderid, feed.msg.level, feed.msg.paid)
  /\ feed' = [feed EXCEPT !.pc = "recv", !.msg = NoMsg]
  /\ UNCHANGED <<users, nextUid, sublog, now, reportedPaid>>

(* A socket call fails, start() returns 1: after the constructor's run      *)
(* comes getOrders' own, after that the thread ends.                       *)
FeedReturn ==
  /\ feed.pc \in {"accept", "recv"}
  /\ feed' = IF feed.run = 1 THEN [FeedStart EXCEPT !.run = 2]
                             ELSE [feed EXCEPT !.pc = "ended"]
  /\ UNCHANGED <<dbVars, reportedPaid>>

(* recv returns 0: the peer closed the connection, exit(-1).                *)
FeedPeerCloses == feed.pc = "recv"

(* WSAStartup fails: exit(-1); or recv fails and the log text               *)
(* "..." + WSAGetLastError() points past the literal; or a report has       *)
(* fewer than the four fields that are indexed.                            *)
FeedFaults == feed.pc \in {"accept", "recv"}

FeedMessage == \E o \in OrderIds, lvl \in Levels, paid \in BOOLEAN : FeedRecv(o, lvl, paid)
=============================================================================
