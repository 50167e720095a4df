----------------------------- MODULE SessionProofs -----------------------------
(***************************************************************************)
(* For any clock, any client and any number of messages under way: a        *)
(* session is kept only by an answer to its very last ping, and closed only *)
(* on a client that did something amiss or when the ping is too short.      *)
(***************************************************************************)
EXTENDS Session, TLAPS

(* The text of the clock's present moment is nowhere yet, unless it has     *)
(* just been sent.                                                          *)
Fresh == now # ping => now \notin {client.got, client.older} \cup ToSet(answers)

(* Where the ping is that the server waits for: on its way, and then nobody *)
(* can have answered it, or at the client.                                  *)
PingInv ==
  /\ pc = "ping" => now # ping
  /\ pc # "closed" => Fresh
  /\ pc \in {"ping", "sleep"} => down = <<>>
  /\ pc \in {"receive", "sleep"} => ping \in Moments
  /\ pc = "sleep" => client.got = ping
  /\ pc = "receive" =>
       \/ down = <<ping>> /\ ping \notin {client.got, client.older} \cup ToSet(answers)
       \/ down = <<>> /\ client.got = ping

(* A client that has done nothing amiss has answered every ping it got but  *)
(* the last, once.                                                          *)
PoliteInv ==
  /\ client.left => amiss
  /\ ~amiss =>
       /\ pc \in {"ping", "sleep"} => answers = <<>> /\ client.echoed
       /\ pc = "receive" =>
            \/ down = <<ping>> /\ answers = <<>> /\ client.echoed
            \/ down = <<>> /\ answers = IF client.echoed THEN <<ping>> ELSE <<>>

SessionInv == TypeOK /\ PingInv /\ PoliteInv /\ ClosedForAReason

-----------------------------------------------------------------------------
(* Messages under way *)

LEMMA AppendSet ==
  ASSUME NEW S, NEW s \in Seq(S), NEW x \in S
  PROVE  ToSet(Append(s, x)) = ToSet(s) \cup {x}
<1>1. /\ Len(s) \in Nat /\ DOMAIN s = 1..Len(s) /\ DOMAIN Append(s, x) = 1..(Len(s) + 1)
      /\ \A i \in 1..Len(s) : Append(s, x)[i] = s[i]
      /\ Append(s, x)[Len(s) + 1] = x
  OBVIOUS
<1>2. 1..(Len(s) + 1) = 1..Len(s) \cup {Len(s) + 1} BY <1>1
<1> QED BY <1>1, <1>2 DEF ToSet

LEMMA TailSet ==
  ASSUME NEW S, NEW s \in Seq(S), s # <<>>
  PROVE  /\ ToSet(Tail(s)) \subseteq ToSet(s) /\ Head(s) \in ToSet(s)
         /\ Tail(s) \in Seq(S) /\ Len(Tail(s)) = Len(s) - 1 /\ Head(s) \in S
<1>1. Tail(s) \in Seq(S) /\ Len(Tail(s)) = Len(s) - 1 /\ Len(s) \in Nat \ {0} /\ Head(s) = s[1]
  OBVIOUS
<1>2. \A i \in DOMAIN Tail(s) : i + 1 \in DOMAIN s /\ Tail(s)[i] = s[i + 1] BY <1>1
<1>3. 1 \in DOMAIN s BY <1>1
<1> QED BY <1>1, <1>2, <1>3 DEF ToSet

LEMMA ConcatSet ==
  ASSUME NEW S, NEW s \in Seq(S), NEW r \in Seq(S)
  PROVE  ToSet(r) \subseteq ToSet(s \o r)
<1> SUFFICES ASSUME NEW i \in DOMAIN r PROVE r[i] \in ToSet(s \o r) BY DEF ToSet
<1>1. Len(s) + i \in DOMAIN (s \o r) /\ (s \o r)[Len(s) + i] = r[i] OBVIOUS
<1> QED BY <1>1 DEF ToSet

-----------------------------------------------------------------------------
(* The steps *)

LEMMA SessionInit == Init => SessionInv
<1> SUFFICES ASSUME Init PROVE SessionInv OBVIOUS
<1> USE SessionAssumption DEF Init
<1>1. Other \notin Moments /\ now \in Moments BY DEF Other, Moments
<1>2. TypeOK
  <2>1. down \in Seq(Moments) /\ Len(down) <= 1 OBVIOUS
  <2>2. answers \in Seq(Moments \cup {Other}) /\ Len(answers) <= MaxQueue OBVIOUS
  <2> QED BY <1>1, <2>1, <2>2 DEF TypeOK
<1>3. PingInv BY <1>1 DEF PingInv, Fresh, ToSet
<1>4. PoliteInv BY DEF PoliteInv
<1> QED BY <1>2, <1>3, <1>4 DEF SessionInv, ClosedForAReason

LEMMA ThreadKeeps == SessionInv /\ Thread => SessionInv'
<1> SUFFICES ASSUME SessionInv, Thread PROVE SessionInv' OBVIOUS
<1> USE DEF SessionInv
<1>0. Other \notin Moments BY DEF Other, Moments
<1>1. CASE SendPing
  <2>1. /\ pc = "ping" /\ pc' = "receive" /\ ping' = now /\ down = <<>> /\ down' = <<now>>
        /\ UNCHANGED <<now, answers, client, amiss>>
        /\ now \in Moments /\ now # ping
    BY <1>1 DEF SendPing, PingInv, TypeOK
  <2>2. down' \in Seq(Moments) /\ Len(down') = 1 BY <2>1
  <2>3. TypeOK' BY <2>1, <2>2 DEF TypeOK
  <2>4. PingInv' BY <2>1 DEF PingInv, Fresh
  <2>5. PoliteInv' BY <2>1 DEF PoliteInv
  <2> QED BY <2>1, <2>3, <2>4, <2>5 DEF ClosedForAReason
<1>2. CASE ReceiveAnswer
  <2>1. /\ pc = "receive" /\ answers # <<>> /\ answers' = Tail(answers)
        /\ pc' = IF Accepted(Head(answers)) THEN "sleep" ELSE "closed"
        /\ UNCHANGED <<now, ping, down, client, amiss>>
        /\ answers \in Seq(Moments \cup {Other}) /\ Len(answers) <= MaxQueue
    BY <1>2 DEF ReceiveAnswer, TypeOK
  <2>2. /\ ToSet(answers') \subseteq ToSet(answers) /\ Head(answers) \in ToSet(answers)
        /\ answers' \in Seq(Moments \cup {Other}) /\ Len(answers') <= MaxQueue
    <3>1. Len(answers) \in Nat /\ MaxQueue \in Nat BY <2>1, SessionAssumption
    <3> QED BY <2>1, <3>1, TailSet
  <2>3. TypeOK' BY <2>1, <2>2 DEF TypeOK
  <2>4. pc' = "sleep" => down = <<>> /\ client.got = ping
    BY <2>1, <2>2 DEF PingInv, Accepted
  <2>5. PingInv' BY <2>1, <2>2, <2>4 DEF PingInv, Fresh
  <2>6. ~amiss => answers = <<ping>> /\ answers' = <<>> /\ client.echoed
    <3>1. ~amiss => answers = <<ping>> /\ client.echoed BY <2>1 DEF PoliteInv
    <3>2. answers = <<ping>> => Tail(answers) = <<>> OBVIOUS
    <3> QED BY <2>1, <3>1, <3>2
  <2>7. PoliteInv' BY <2>1, <2>6 DEF PoliteInv
  <2>8. ClosedForAReason'
    <3>1. ~amiss => Head(answers) = ping BY <2>6
    <3>2. ~(Length(ping) >= 16) => Length(ping) < 16
      <4>1. ping \in Moments BY <2>1 DEF PingInv
      <4> DEFINE Texts == [month : 1..12, day : 1..31, hour : 0..23, minute : 0..59,
                           second : 0..60]
      <4>2. Instants \in Seq(Texts) BY SessionAssumption
      <4>3. Instants[ping] \in Texts
        <5> HIDE DEF Texts
        <5> QED BY <4>1, <4>2 DEF Moments
      <4>4. Length(ping) \in Int BY <4>3 DEF Length, Digits
      <4> QED BY <4>4
    <3>3. Length(ping)' = Length(ping) BY <2>1 DEF Length
    <3> QED BY <2>1, <3>1, <3>2, <3>3 DEF ClosedForAReason, Accepted
  <2> QED BY <2>3, <2>5, <2>7, <2>8
<1>3. CASE ReceiveFails
  <2>1. pc = "receive" /\ client.left /\ pc' = "closed"
        /\ UNCHANGED <<now, ping, down, answers, client, amiss>>
    BY <1>3 DEF ReceiveFails
  <2> QED BY <2>1 DEF TypeOK, PingInv, PoliteInv, ClosedForAReason
<1>4. CASE Sleep
  <2>1. pc = "sleep" /\ now # ping /\ pc' = "ping"
        /\ UNCHANGED <<now, ping, down, answers, client, amiss>>
    BY <1>4 DEF Sleep
  <2> QED BY <2>1 DEF TypeOK, PingInv, Fresh, PoliteInv, ClosedForAReason
<1> QED BY <1>1, <1>2, <1>3, <1>4 DEF Thread

LEMMA TickKeeps == SessionInv /\ Tick => SessionInv'
<1> SUFFICES ASSUME SessionInv, Tick PROVE SessionInv' OBVIOUS
<1> USE DEF SessionInv
<1>1. /\ now' \in Moments \ ({now, ping, client.got, client.older} \cup ToSet(down \o answers))
      /\ UNCHANGED <<pc, ping, down, answers, client, amiss>>
  BY DEF Tick
<1>2. now' \notin ToSet(answers)
  <2>1. down \in Seq(Moments \cup {Other}) /\ answers \in Seq(Moments \cup {Other})
    BY DEF TypeOK
  <2>2. ToSet(answers) \subseteq ToSet(down \o answers) BY <2>1, ConcatSet
  <2> QED BY <1>1, <2>2
<1>3. TypeOK' BY <1>1 DEF TypeOK
<1>4. PingInv' BY <1>1, <1>2 DEF PingInv, Fresh
<1>5. PoliteInv' BY <1>1 DEF PoliteInv
<1>6. ClosedForAReason' BY <1>1 DEF ClosedForAReason, Length
<1> QED BY <1>3, <1>4, <1>5, <1>6

(* A client can only send what it has received.                             *)
LEMMA ClientKeeps == SessionInv /\ Client => SessionInv'
<1> SUFFICES ASSUME SessionInv, Client PROVE SessionInv' OBVIOUS
<1> USE DEF SessionInv
<1>0. /\ Other \notin Moments /\ answers \in Seq(Moments \cup {Other}) /\ now \in Moments
      /\ client \in [left : BOOLEAN, got : Moments \cup {Other}, echoed : BOOLEAN,
                     older : Moments \cup {Other}]
  BY DEF Other, Moments, TypeOK
<1>1. CASE GetPing
  <2>1. /\ down # <<>> /\ down' = Tail(down)
        /\ client' = [client EXCEPT !.got = Head(down), !.older = client.got, !.echoed = FALSE]
        /\ UNCHANGED <<pc, now, ping, answers, amiss>>
    BY <1>1 DEF GetPing
  <2>2. down \in Seq(Moments) /\ Len(down) <= 1 BY DEF TypeOK
  <2>3. down' = <<>> /\ Head(down) \in Moments BY <2>1, <2>2
  <2>4. client'.got = Head(down) /\ client'.older = client.got /\ ~client'.echoed
        /\ client'.left = client.left
    BY <1>0, <2>1
  <2>5. TypeOK'
    <3>1. client' \in [left : BOOLEAN, got : Moments \cup {Other}, echoed : BOOLEAN,
                       older : Moments \cup {Other}]
      BY <1>0, <2>1, <2>3
    <3>2. down' \in Seq(Moments) /\ Len(down') <= 1 BY <2>3
    <3> QED BY <2>1, <3>1, <3>2 DEF TypeOK
  <2>6. pc # "closed" => pc = "receive" /\ down = <<ping>> /\ Head(down) = ping
    BY <2>1 DEF PingInv, TypeOK
  <2>7. PingInv' BY <2>1, <2>3, <2>4, <2>6 DEF PingInv, Fresh
  <2>8. PoliteInv' BY <2>1, <2>3, <2>4, <2>6 DEF PoliteInv
  <2>9. ClosedForAReason' BY <2>1 DEF ClosedForAReason, Length
  <2> QED BY <2>5, <2>7, <2>8, <2>9
<1>2. CASE Echo
  <2>1. /\ ~client.left /\ ~client.echoed /\ Len(answers) < MaxQueue
        /\ answers' = Append(answers, client.got)
        /\ client' = [client EXCEPT !.echoed = TRUE]
        /\ UNCHANGED <<pc, now, ping, down, amiss>>
    BY <1>2 DEF Echo
  <2>2. /\ answers' \in Seq(Moments \cup {Other}) /\ Len(answers') <= MaxQueue
        /\ ToSet(answers') = ToSet(answers) \cup {client.got}
    <3>1. Len(answers) \in Nat /\ MaxQueue \in Nat BY <1>0, SessionAssumption
    <3> QED BY <1>0, <2>1, <3>1, AppendSet
  <2>3. client'.got = client.got /\ client'.older = client.older /\ client'.echoed
        /\ client'.left = client.left
    BY <1>0, <2>1
  <2>4. TypeOK' BY <1>0, <2>1, <2>2 DEF TypeOK
  <2>5. PingInv' BY <2>1, <2>2, <2>3 DEF PingInv, Fresh
  <2>6. PoliteInv'
    <3>1. answers = <<>> => Append(answers, client.got) = <<client.got>> OBVIOUS
    <3>2. ~amiss => pc \notin {"ping", "sleep"} BY <2>1 DEF PoliteInv
    <3>3. ~amiss /\ pc = "receive" => down = <<>> /\ answers = <<>> BY <2>1 DEF PoliteInv
    <3>4. ~amiss /\ pc = "receive" => client.got = ping BY <3>3 DEF PingInv
    <3> HIDE DEF SessionInv
    <3>5. client'.left => amiss BY <2>3 DEF PoliteInv, SessionInv
    <3> QED BY <2>1, <2>3, <3>1, <3>2, <3>3, <3>4, <3>5 DEF PoliteInv
  <2>7. ClosedForAReason' BY <2>1 DEF ClosedForAReason, Length
  <2> QED BY <2>4, <2>5, <2>6, <2>7
<1>3. CASE Leave
  <2>1. client' = [client EXCEPT !.left = TRUE] /\ amiss'
        /\ UNCHANGED <<pc, now, ping, down, answers>>
    BY <1>3 DEF Leave
  <2>2. client'.got = client.got /\ client'.older = client.older BY <1>0, <2>1
  <2>3. TypeOK' BY <1>0, <1>3, <2>1 DEF TypeOK, Leave
  <2>4. PingInv' BY <2>1, <2>2 DEF PingInv, Fresh
  <2> QED BY <2>1, <2>3, <2>4 DEF PoliteInv, ClosedForAReason
<1>4. ASSUME NEW m \in Moments \cup {Other}, SendAmiss(m) PROVE SessionInv'
  <2>1. /\ m \in {client.got, client.older, Other} /\ Len(answers) < MaxQueue
        /\ answers' = Append(answers, m) /\ amiss'
        /\ UNCHANGED <<pc, now, ping, down, client>>
    BY <1>4 DEF SendAmiss
  <2>2. /\ answers' \in Seq(Moments \cup {Other}) /\ Len(answers') <= MaxQueue
        /\ ToSet(answers') = ToSet(answers) \cup {m}
    <3>1. Len(answers) \in Nat /\ MaxQueue \in Nat BY <1>0, SessionAssumption
    <3> QED BY <1>0, <2>1, <3>1, AppendSet
  <2>3. TypeOK' BY <1>4, <2>1, <2>2 DEF TypeOK, SendAmiss
  <2>4. PingInv' BY <1>0, <2>1, <2>2 DEF PingInv, Fresh
  <2> QED BY <2>1, <2>3, <2>4 DEF PoliteInv, ClosedForAReason
<1> QED BY <1>1, <1>2, <1>3, <1>4 DEF Client

LEMMA SessionInductive == SessionInv /\ [Next]_vars => SessionInv'
<1>1. SessionInv /\ UNCHANGED vars => SessionInv'
  BY DEF SessionInv, vars, TypeOK, PingInv, Fresh, PoliteInv, ClosedForAReason, Length
<1> QED BY <1>1, ThreadKeeps, TickKeeps, ClientKeeps DEF Next

(* A session goes on only once its client has received the very last ping   *)
(* and answered it (clienthandler.cpp:268-273).                             *)
THEOREM SessionNeedsAnswer == Spec => []KeptOnlyByAnswer
<1>1. SessionInv => KeptOnlyByAnswer BY DEF SessionInv, PingInv, KeptOnlyByAnswer
<1> QED BY <1>1, SessionInit, SessionInductive, PTL DEF Spec

(* A session is closed only on a client that did something amiss, or if the *)
(* ping is shorter than sixteen characters (clienthandler.cpp:273,          *)
(* dbmanager.cpp:552-559).                                                  *)
THEOREM ClosingHasAReason == Spec => []ClosedForAReason
<1>1. SessionInv => ClosedForAReason BY DEF SessionInv
<1> QED BY <1>1, SessionInit, SessionInductive, PTL DEF Spec

(* The thread never has two pings under way (clienthandler.cpp:268-281): it *)
(* sends none while an older one is still to be received or answered.       *)
THEOREM SessionTypeCorrect == Spec => []TypeOK
<1>1. SessionInv => TypeOK BY DEF SessionInv
<1> QED BY <1>1, SessionInit, SessionInductive, PTL DEF Spec
================================================================================
