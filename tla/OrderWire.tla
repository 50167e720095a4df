------------------------------- MODULE OrderWire -------------------------------
(***************************************************************************)
(* How the order feed reads its reports (class orderchecker, the loop over  *)
(* recv in clienthandler.cpp): a buffer that is never cleared, a text that  *)
(* ends at the first terminator in it, fields between '|'.  OrderChecker    *)
(* takes reports as they were meant; this module starts from their          *)
(* characters.  A character here is one of the report's, or a product code, *)
(* which is never looked into.                                             *)
(***************************************************************************)
EXTENDS Text

CONSTANTS
  Reports,       \* the reports the peer may send, "id|product|date|payment"
  Null,          \* the text "null": nothing was paid
  BufLen,        \* DEFAULT_BUFLEN
  Fills,         \* the characters the uninitialised buffer may be made of
  Garbage,       \* what it may hold, any character anywhere
  Beyond,        \* what may lie behind the buffer, up to the next terminator
  WholeReports,  \* whether every recv returns one whole report
  MaxReports     \* bound: reports sent

Nul == "NUL"
CC == "CC"       \* -52, with which a debug build fills the stack

ASSUME WireAssumption ==
  /\ BufLen \in Nat \ {0} /\ MaxReports \in Nat
  /\ WholeReports \in BOOLEAN
  /\ Garbage \subseteq [1..BufLen -> Fills]
  /\ \A t \in Reports \cup Beyond \cup {Null} : t \in Seq(ToSet(t))
  /\ \A r \in Reports : Len(r) \in 1..(BufLen - 1) /\ Len(explode(r, "|")) = 4

VARIABLES
  sent,     \* history: the reports sent, in order
  net,      \* characters sent and not yet received
  recvbuf,
  text,     \* the string made of recvbuf after the last recv
  orders,   \* table orders: rows [orderid, date, level, paid]
  running   \* the loop goes on

wireVars == <<sent, net, recvbuf, text, orders, running>>

WireInit ==
  /\ sent = <<>> /\ net = <<>> /\ text = <<>> /\ orders = {} /\ running = TRUE
  /\ recvbuf \in Garbage

(* The peer. *)
Send(r) ==
  /\ Len(sent) < MaxReports
  /\ WholeReports => net = <<>>
  /\ sent' = Append(sent, r)
  /\ net' = net \o r
  /\ UNCHANGED <<recvbuf, text, orders, running>>

accessLevel(code) ==
  CASE code = <<"luRxb1O">> -> 4
    [] code = <<"DgwYwTA">> -> 2
    [] code = <<"FpXpTjP">> -> 3
    [] code = <<"pa0OUmb">> -> 1
    [] OTHER -> 0

Order_Unpaid(info) == [orderid |-> info[1], date |-> info[3], level |-> accessLevel(info[2]),
                       paid |-> info[4] = Null]
Order(info) == [orderid |-> info[1], date |-> info[3], level |-> accessLevel(info[2]),
                paid |-> info[4] # Null]

doesOrderExist(id) == \E o \in orders : o.orderid = id

(* What recv and the loop after it leave in the buffer: the first character *)
(* is not looked at.                                                        *)
Received(n) == [i \in 1..BufLen |->
  LET c == IF i <= n THEN net[i] ELSE recvbuf[i]
  IN  IF i > 1 /\ c = CC THEN Nul ELSE c]

(* One turn of the loop: n characters arrive, the text is whatever the      *)
(* buffer holds now and, without a terminator in it, what lies behind it.   *)
(* A fourth field that is not there is an index out of range.               *)
Recv(n, behind) ==
  /\ running
  /\ n \in 1..Min({Len(net), BufLen})
  /\ WholeReports => n = Len(net)
  /\ net' = SubSeq(net, n + 1, Len(net))
  /\ recvbuf' = Received(n)
  /\ text' = CString(recvbuf' \o behind, Nul)
  /\ LET info == explode(text', "|")
     IN  IF Len(info) < 4
         THEN running' = FALSE /\ UNCHANGED orders
         ELSE /\ orders' = IF doesOrderExist(info[1]) THEN orders ELSE orders \cup {Order(info)}
              /\ UNCHANGED running
  /\ UNCHANGED sent

WireNext ==
  \/ \E r \in Reports : Send(r)
  \/ \E n \in 1..BufLen, behind \in Beyond : Recv(n, behind)

WireSpec == WireInit /\ [][WireNext]_wireVars

-----------------------------------------------------------------------------
Cells == {Nul, CC} \cup Fills \cup UNION {ToSet(r) : r \in Reports \cup Beyond}

TypeOK ==
  /\ sent \in Seq(Reports) /\ net \in Seq(Cells)
  /\ recvbuf \in [1..BufLen -> Cells]
  /\ text \in Seq(Cells \ {Nul})
  /\ \E b \in Beyond \cup {<<>>} : Len(text) <= BufLen + Len(b)
  /\ \A o \in orders : o.level \in 0..4 /\ o.paid \in BOOLEAN
  /\ running \in BOOLEAN

(* The report an order was entered for: the first of its id.                *)
IdOf(r) == explode(r, "|")[1]
FirstReport(id) ==
  LET first == Min({i \in 1..Len(sent) : IdOf(sent[i]) = id})
  IN  Order(explode(sent[first], "|"))

(* Reports without the two characters the buffer cannot keep, and without a *)
(* payment that more characters would turn into "null".                     *)
PlainReports == \A r \in Reports :
  /\ ToSet(r) \cap {Nul, CC} = {}
  /\ ~IsStrictPrefix(explode(r, "|")[4], Null)

(* Every order entered was reported, with the date and the product of its   *)
(* first report, whatever earlier and longer reports, an uninitialised      *)
(* buffer or the memory behind it add to the text (clienthandler.cpp:386,   *)
(* 453-484); and one reported as paid is entered as paid.  It needs a recv  *)
(* to return a whole report, and PlainReports.                             *)
EnteredAsReported == \A o \in orders :
  /\ \E i \in 1..Len(sent) : IdOf(sent[i]) = o.orderid
  /\ o.date = FirstReport(o.orderid).date
  /\ o.level = FirstReport(o.orderid).level
  /\ FirstReport(o.orderid).paid => o.paid

-----------------------------------------------------------------------------
(* What the code and the bot say *)

(* The text logged as "Recieved order > " (clienthandler.cpp:462), which is *)
(* what gets entered, is a report the peer sent.                            *)
ReceivedAsSent == text # <<>> => \E i \in 1..Len(sent) : text = sent[i]

(* "Our bot retrieves new orders every 10 minutes" (discordbot.h:75): as    *)
(* long as the peer sends well-formed reports the loop goes on.             *)
OrdersKeepComing == running
===============================================================================
