-------------------------------- MODULE Session --------------------------------
(***************************************************************************)
(* A session after "L-ok" (class clienthandler, the inner loop of           *)
(* handleConnection): the server sends the time, waits for the same text to *)
(* come back, sleeps ten minutes, and so on.  The client is a program       *)
(* outside this repository: it may echo what it was sent, answer an older   *)
(* ping, send something else, leave, or say nothing.                        *)
(*                                                                         *)
(* Instants are the moments pings are sent at, at least ten minutes apart.  *)
(* Different moments have different texts: the clock may show any moment,   *)
(* but not one again whose text is still around.                           *)
(***************************************************************************)
EXTENDS Integers, SequencesExt

CONSTANTS
  Instants,  \* a sequence of records [month, day, hour, minute, second]
  Honest,    \* whether the client does nothing but echo each ping, once
  MaxQueue   \* bound: messages of the client's on their way

ASSUME SessionAssumption ==
  /\ Instants # <<>>
  /\ Instants \in Seq([month : 1..12, day : 1..31, hour : 0..23, minute : 0..59, second : 0..60])
  /\ Honest \in BOOLEAN
  /\ MaxQueue \in Nat /\ Len(Instants) > MaxQueue + 2

VARIABLES
  pc,       \* the thread: the statement that comes next
  now,      \* the clock
  ping,     \* time: the text last sent
  down,     \* pings on their way to the client
  answers,  \* messages on their way to the server
  client,   \* the last ping the client received, and what it does
  amiss     \* history: the client did something other than echo each ping once

vars == <<pc, now, ping, down, answers, client, amiss>>

Moments == 1..Len(Instants)
Other == 0   \* a message that is no ping's text

Init ==
  /\ pc = "ping" /\ now = 1 /\ ping = Other
  /\ down = <<>> /\ answers = <<>>
  /\ client = [left |-> FALSE, got |-> Other, echoed |-> TRUE, older |-> Other]
  /\ amiss = FALSE

(* strlen(getTime()): the fields after the year are not padded.             *)
Digits(n) == IF n < 10 THEN 1 ELSE 2
Length(i) == LET t == Instants[i]
             IN  9 + Digits(t.month) + Digits(t.day) + Digits(t.hour) + Digits(t.minute)
                   + Digits(t.second)

-----------------------------------------------------------------------------
(* The thread *)

SendPing ==
  /\ pc = "ping"
  /\ ping' = now
  /\ down' = Append(down, now)
  /\ pc' = "receive"
  /\ UNCHANGED <<now, answers, client, amiss>>

Accepted_Any(m) == Length(ping) >= 16
Accepted_Longer(m) == m = ping /\ Length(ping) > 16
Accepted(m) == m = ping /\ Length(ping) >= 16

(* A wrong answer, or one that is too short, closes the connection.         *)
ReceiveAnswer ==
  /\ pc = "receive"
  /\ answers # <<>>
  /\ answers' = Tail(answers)
  /\ pc' = IF Accepted(Head(answers)) THEN "sleep" ELSE "closed"
  /\ UNCHANGED <<now, ping, down, client, amiss>>

(* The read fails: buf stays empty, which is not the time.  There is no     *)
(* timeout: as long as the connection stands it does not fail.              *)
ReceiveFails_Ignored ==
  /\ pc = "receive"
  /\ answers = <<>> /\ client.left
  /\ UNCHANGED vars
ReceiveFails ==
  /\ pc = "receive"
  /\ answers = <<>> /\ client.left
  /\ pc' = "closed"
  /\ UNCHANGED <<now, ping, down, answers, client, amiss>>

(* SleepEx(600000) is over.                                                 *)
Sleep ==
  /\ pc = "sleep"
  /\ now # ping
  /\ pc' = "ping"
  /\ UNCHANGED <<now, ping, down, answers, client, amiss>>

Thread == SendPing \/ ReceiveAnswer \/ ReceiveFails \/ Sleep

-----------------------------------------------------------------------------
(* The client and the clock *)

Tick ==
  /\ pc # "closed"
  /\ now' \in Moments \ ({now, ping, client.got, client.older} \cup ToSet(down \o answers))
  /\ UNCHANGED <<pc, ping, down, answers, client, amiss>>

GetPing ==
  /\ ~client.left
  /\ down # <<>>
  /\ down' = Tail(down)
  /\ client' = [client EXCEPT !.got = Head(down), !.older = client.got, !.echoed = FALSE]
  /\ UNCHANGED <<pc, now, ping, answers, amiss>>

Echo ==
  /\ ~client.left /\ ~client.echoed
  /\ Len(answers) < MaxQueue
  /\ answers' = Append(answers, client.got)
  /\ client' = [client EXCEPT !.echoed = TRUE]
  /\ UNCHANGED <<pc, now, ping, down, amiss>>

(* The echo once more, the one before it, or something else.                *)
SendAmiss(m) ==
  /\ ~Honest /\ ~client.left
  /\ Len(answers) < MaxQueue
  /\ m \in {client.got, client.older, Other}
  /\ answers' = Append(answers, m)
  /\ amiss' = TRUE
  /\ UNCHANGED <<pc, now, ping, down, client>>

Leave ==
  /\ ~Honest /\ ~client.left
  /\ client' = [client EXCEPT !.left = TRUE]
  /\ amiss' = TRUE
  /\ UNCHANGED <<pc, now, ping, down, answers>>

Client == GetPing \/ Echo \/ Leave \/ (\E m \in Moments \cup {Other} : SendAmiss(m))

Next == Thread \/ Tick \/ Client

Spec == Init /\ [][Next]_vars

(* The threads are detached and do not wait for each other, and time        *)
(* passes; nothing is assumed of the client.                               *)
Fairness == WF_vars(Thread) /\ WF_vars(Tick)

FairSpec == Spec /\ Fairness

-----------------------------------------------------------------------------
TypeOK ==
  /\ pc \in {"ping", "receive", "sleep", "closed"}
  /\ now \in Moments
  /\ ping \in Moments \cup {Other}
  /\ down \in Seq(Moments) /\ Len(down) <= 1
  /\ answers \in Seq(Moments \cup {Other}) /\ Len(answers) <= MaxQueue
  /\ client \in [left : BOOLEAN, got : Moments \cup {Other}, echoed : BOOLEAN,
                 older : Moments \cup {Other}]
  /\ amiss \in BOOLEAN

(* A session only goes on once its client has received the very last ping   *)
(* and answered it: answers that were sent before, twice or too late do not *)
(* keep it alive (clienthandler.cpp:268-273).                              *)
KeptOnlyByAnswer == pc = "sleep" => client.got = ping /\ down = <<>>

(* A session is closed only on a client that did something amiss or at a    *)
(* moment whose text is shorter than sixteen characters                    *)
(* (clienthandler.cpp:273, dbmanager.cpp:552-559).                         *)
ClosedForAReason == pc = "closed" => amiss \/ Length(ping) < 16

(* A client that leaves, while the server waits for it or while the thread  *)
(* sleeps, is noticed: the connection is closed (clienthandler.cpp:272-282). *)
LeaverIsNoticed == client.left ~> pc = "closed"

-----------------------------------------------------------------------------
(* What comments of the code say *)

(* "check user and update hwid if needed then start -U loop", "U = client   *)
(* ping" (clienthandler.cpp:197, 213): a client that answers its pings      *)
(* stays.                                                                  *)
HonestClientStays == pc # "closed"

(* "timeout.tv_sec = 10", SO_RCVTIMEO (clienthandler.cpp:155-159): a client *)
(* that says nothing is not waited for for ever.                            *)
SilentClientTimesOut == pc = "receive" ~> pc # "receive"
================================================================================
